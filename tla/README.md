# A verification project for jacOS

jacOS is a small 32-bit operating system: a boot loader, a kernel with its
drivers and a file system, a library for programs and one program, a shell.
This directory holds TLA+ modules that model it, configurations that check the
modules with TLC on small instances, and proofs, checked by TLAPS, of theorems
that hold for instances of every size. Lines of the source are named as
`path:line`, relative to the root of the repository.

## 1. Inventory

The system runs on one processor. The kernel and the program share an address
space; the program reaches the kernel by system calls through an interrupt gate
(`int 0x40`), which turns interrupts off, so a system call is never interrupted.
Inside the program, and in the kernel between the `sti` of
`kernel/interrupts/interrupts.cpp:125` and the switch to user mode, interrupts of
the timer and of the keyboard come between any two instructions.

| component | state | operations | talks to |
|---|---|---|---|
| Files and directories (`kernel/filesystem/file.cpp`, `directory.cpp`) | descriptors: name, size, sectors, parent, children | read, write, resize, createFile, removeFile (by index, by name), flushMetadata | sectors, disk, heap; each calls the others recursively |
| Sectors and mounting (`filesystem.cpp`) | bitmap and counter in memory, superblock and bitmap on the disk | setSectorBit, getFreeSector, flushSectorBits, flushRootMetadata, mount, init | disk |
| Paths (`path.cpp`) | none | openFile, createFile, deleteFile, copyFile, moveFile, each of which takes the text of a path apart | files and directories |
| Disk driver (`kernel/disk`) | list of drives | init (probe, identify, timeout), read, write | ports, timer |
| Frames and page tables (`kernel/memory`) | frame bits and counter, page directory and tables | init, allocateFrame, freeFrame, identityMapPage, getPage | heap, vesa, kernelMain |
| Heap (`library/heap`) | list of blocks inside its own pages | initHeap, alloc, free | paging (a system call from the program) |
| Keyboard driver (`kernel/keyboard`) | ring of scancodes, state of each key | interrupt handler, syscallGetKeyEvent, syscallGetKeyState | shell, through the library |
| Keyboard library (`library/keyboard`) | none | getKeyEvent, getKeyState, keyToAscii | keyboard driver |
| Shell (`jshell/main.cpp`) | command buffer, its length, shell_running | onKeyEvent, onCommand, resetCommand, main | keyboard, console |
| Console (`kernel/text`, `kernel/graphics`, `kernel/vesa`) | text buffer, cursor and its previous place, drawn pixels, changed lines, frame buffer | putChar, newLine, flushText, set and get the cursor, swapBuffers | shell, every message of the kernel |
| Timer (`kernel/timer`) | tick counter | interrupt handler, getTicks, delay | disk driver |
| Streams (`library/out`, `kernel/qemuDebug`) | number mode, level, whether the line has begun | printing, hex, dec, level, endl | console, serial port |
| Segments (`kernel/gdt`) | descriptor table, task state | init | the processor, at every change of ring |
| Interrupts and system calls (`kernel/interrupts`, `library/syscalls`) | gates, handler and system call tables, the stubs' saved contexts | registration, dispatch, report of exceptions | all of them |
| Kernel start and program (`kernel/kernel.cpp`, `program/entry.cpp`) | none | the order of the boot, the search for a disk, loading and starting the program, giving back its pages | all of them |
| Containers (`library/array`, `library/string`) | buffer, size and allocated size of an array | copy, assign, push, insert, erase, resize, find, compare, numbers as text | heap; used by the file system |
| Image builder (`filesystem-builder.py`) | an image | createData, addDirectory, main | its images are what mount reads |
| Font, boot loader, ports | constant, or none | straight-line code | - |

What is hard in it, and for each component what makes it correct:

- **File system.** `write` calls `resize`, which calls the parent's
  `flushMetadata`, which calls `write`; the parent of the root is the root. It
  is correct when no sector is in two files, the bitmap is exactly what is in
  use, the image on the disk agrees with memory at the end of every call, what
  was written comes back whatever happened to other files, the recursion ends,
  no deleted descriptor is used, and a power failure or a full disk in the middle
  of a call damages no file that the call does not write, as far as the code can
  keep that: it has no journal.
- **Paging.** A page table needs a frame and a page itself, so allocation is
  recursive, and the tables have to be written before paging is on. It is
  correct when no frame backs two pages, a frame is taken exactly when it is
  mapped, the processor and the kernel see the same tables, and a page keeps its
  frame.
- **Heap.** Blocks are cut and merged in any order, the list grows at its end and
  the headers lie between the data of callers. It is correct when the blocks tile
  the pages, a block is allocated exactly when someone holds it, no assertion of
  its own ever fires on callers that keep the rules, the data stays, and alloc
  comes back.
- **Keyboard and shell.** Interrupts come between the system calls of the shell;
  the ring overflows. It is correct when scancodes are read in order and once,
  every event is read at last, and the command buffer is a terminated string.
- **Console.** The cursor is drawn over the text and the text scrolls under the
  cursor. It is correct when the frame buffer shows the text and one cursor, and
  the text before the cursor is the prompt and what Enter is going to run.
- **Start and traps.** Interrupts are on before their handlers are registered, the
  numbers of system calls are the order in which five files register them, and the
  first disk that is tried may hold anything. The stubs change segments, stack and
  interrupt flag by hand. It is correct when each call reaches the function it
  means, the kernel gets to its program on the first disk the builder has made, no
  interrupt is left unanswered, no handler runs on the program's stack or segments,
  the interrupted code goes on as it was, and a fault is reported as what it is.
- **Containers.** Items are moved one by one inside the buffer that is read at the
  same time, copies and temporaries own buffers of their own. They are correct when
  they behave like sequences, no access leaves its buffer and every buffer has one
  owner.
- **Paths, numbers, streams.** Four functions cut a path, five pieces of code turn
  numbers into text, two streams remember modes between statements. They are
  correct when all agree on the names in a path, the text of a number reads as the
  number, and a line of the log is the message of one level.
- **Builder.** It writes what the kernel reads, in another language. It is correct
  when the kernel finds the host's tree.
- **Disk driver.** The drive and the clock go on between any two port accesses. It
  is correct when it finds the drives that are there and gives up on the others,
  moves words only when the drive asks for them, transfers what was asked for,
  returns, and has the data on the medium when it says so.

Everything of this kind that is hard to test is listed, at its line, under
"hazards" in `PROJECT.json`, with the property that watches it or the reason why
none does.

## 2. Modules

| module | models | kind |
|---|---|---|
| `FileSystem` | files, directories, sectors, the path functions, the superblock, bitmap and sectors on the disk | state machine |
| `FileSystemAudit` | history variables over `FileSystem`: what was last written to each file; `mount` and `load` as functions of the disk | observer |
| `MCFileSystem`, `MCFileSystemAudit` | instances | for TLC |
| `FileTreeProofs` | 9 theorems about sectors, the tree, the order in which bits and entries reach the disk, what the files hold, and what a mount finds | proofs |
| `Builder` | the image builder, and mount and load, byte for byte | functions |
| `Paths` | how the four functions take a path apart | functions |
| `ArraySpec` | what Array and String promise | abstract specification |
| `Containers` | Array and String over buffers of the heap, refines `ArraySpec` | state machine |
| `ContainersProofs` | 3 theorems, one of them the refinement | proofs |
| `Numbers` | numbers, fractions and sizes as text, and back | functions |
| `Streams` | the debug stream and the stream of programs, over `Numbers` | state machine |
| `MCLibrary` | instance of the containers, paths, streams and builder | for TLC |
| `KeyQueue` | what the ring of the keyboard promises | abstract specification |
| `Keyboard` | keyboard driver, refines `KeyQueue` | state machine |
| `Keys` | scancodes and the characters keyToAscii makes of them | functions |
| `CommandLine` | the command buffer of the shell | operations, used by the next two |
| `Shell` | the shell's event loop over `Keyboard` and `Keys`, interrupts between its system calls | composition |
| `ShellProofs` | 4 theorems about the keyboard and the shell, two of them the refinement | proofs |
| `Console` | text.cpp down to the cells of the frame buffer | operations |
| `Terminal` | every key press of the shell over `CommandLine` and `Console` | composition |
| `TerminalProofs` | 3 theorems about the screen | proofs |
| `Paging` | frames, tables, the phases of the boot that map pages, the heaps' and the program's pages | state machine |
| `PagingProofs` | 6 theorems | proofs |
| `Heap` | alloc and free over a memory of words | state machine |
| `HeapProofs` | 5 theorems | proofs |
| `Disk` | the driver, the tick counter and ATA drives | state machine |
| `DiskProofs` | 3 theorems | proofs |
| `Traps` | segments, gates, the stubs and the processor's part in them, faults and their report | operations, used by `Boot` |
| `Boot` | the order of the start, dispatch of interrupts and system calls, the disks, the interrupt and the keyboard controller | composition |
| `BootProofs` | 6 theorems | proofs |
| `MCShell`, `MCTerminal`, `MCPaging`, `MCHeap`, `MCDisk`, `MCBoot` | instances | for TLC |

How state and actions correspond to the code is in the "map" of `PROJECT.json`,
definition by definition; names are those of the source where TLA+ allows it. In
short:

**FileSystem.** The fields of `__FileDescriptor` and `__Directory` are functions
on descriptors (`live`, `parent_directory`, `name`, `size`, `sectors`, `files`),
those of `FileSystem` are `sector_bits` and `sectors_taken`. The disk is
`superblock`, `bitmap` and `disk`. The recursion is kept on `stack`, a sequence of
activation frames with the place in the function and its locals. A request
(`CreateFile`, `WriteFile`, `DeleteFile`, `RemoveFile`, `CopyFile`, `MoveFile`)
puts the first frame there; a step of the innermost frame is one write to the disk
with the memory operations around it, so each state is one at which the power can
fail, and the actions carry the names of the function and the branch
(`ResizeShrink`, `GrowSector`, `ResizeParent`, `FlushMetadata`, `RemoveErase`).
Bytes are grouped into tokens: the fixed part of a directory entry is one, each
sector index one, each byte of a regular file one. A full disk is what the code
makes of it: `setSectorBit(-1)` faults and the kernel halts (`DiskFull`).

**Keyboard and Shell.** `keyboardCallback` and `GetKeyEvent` are the handler and
the system call. `Shell` polls, asks about one shift key and then about the other,
and handles the key; `Arrival` comes between any two of these steps. A character
is its letter and its case, found as in `Keys` by the distance of the scancode from
the first of its row. `KEY_0` is 11 and `KEY_9` is 10, so that no key is a digit. A
session goes from command to command; the character that leaves the terminator no
room (`Overrun`) ends the model, because the zero byte is then written behind the
buffer.

**Console and Terminal.** System calls about text are functions from a console to
a console, composed by the caller in the order of its statements. The arrays of
the code are not checked, and the model keeps where they lead: a cell left of the
screen is the end of the same pixel lines, a character left of a row is the last of
the row above.

**Paging.** `phase` and `todo` are the loops of `mem::init`, `vesa::init` and
`kernelMain`; `wanted` is the page of the call in progress, so that
`CheckFrame`, `AllocateTable` and `IdentityMap` are the three parts of
`identityMapPage`, and the recursion of `getPage` is a table allocated in a
step before the page. Addresses count pages. The loop that gives the pages of the
program back stands behind `switchToUserMode`, which ends in an `iret`: it is modelled
as the text of `kernelMain` has it, and runs only if a program comes back.

**Heap.** Memory is a function from addresses to words, headers included, so a
pointer to a header that has been merged away reads and writes what is there
now. `Walk`, `Grow`, `AllocAgain` and `Take` are the parts of `alloc`;
`FreeBlock` is `free` with both merges and both assertions.

**Disk.** One step is one port access, except that the words of one sector move
in one step. A drive (external) does one command at a time: it asks, stores,
flushes or fails between any two steps of the driver. A command to a busy drive is
ignored, as the emulator of the Makefile does. `disks::init` combines its masks
with `==` before `&` (`kernel/disk/disk.cpp:101`, `:107`): `0x40 == 0` is 0 and
`0x80 != 0` is 1, so the first wait never waits and the second one waits for the
error bit to go. A drive that is still busy is therefore not waited for: the driver
reads its registers, which then hold the answer or something else (`Early`), lists it
with that and goes on (`Wait`, `late`), and the drive answers at some later time
(`DriveAnswers`), or while a transfer is already asked of it, whose command it ignores.
With the emulator of the Makefile a drive has answered when the port write ends. One
more drive than `disks_arr` has room for ends the model (`OverrunDisks`).

**Boot and Traps.** `kernelMain` is the sequence of what the init functions do about
segments, gates, interrupts, system calls and disks, one action per kind of step.
An interrupt, a system call or a fault pushes a context on `frames` and goes through
the stub (`EnterStub`), the handler (`irqHandler`, `systemCallHandler`,
`isrHandler`) and the way back (`LeaveStub`, `Iret`), a step each, so that the next
interrupt can come wherever the flag lets it. The descriptors are split into their
fields as `createGdtEntry` does, and the gates have their flag bytes, from which the
model takes what the processor does with them (external): the ring a call may come
from, the interrupt flag, the stack of ring 0. `Failure` is any fault the code
raises itself, or a page fault, wherever code runs. The interrupt controller latches
a request on the edge of its line, and the line of the keyboard stays up until port
0x60 is read: a key pressed before `keyboard::init` is acknowledged by `irqHandler`,
which finds no handler, and no other key is ever seen. `KeysDelivered` is stated for
the keyboard's requests that come once its handler is there.
`fs::init` reads sector 0 of one disk after the other; a disk that holds something
else may mount as nothing or, when the loop over the root's sectors leaves the mapped
memory before the magic number is looked at, end in a page fault (`MountFaults`).
Behind the last disk the search just ends: `fs::init` reports nothing, and `kernelMain`
goes on with a file system that was never filled in (`Unmounted`).

**Containers, Paths, Numbers, Streams, Builder.** A store holds the objects and the
buffers on the heap, and a call is a function from a store to a store, its loop a
fold in the order of the code over the buffer it writes to; what a buffer holds
before it is written is `Junk`, and an access outside of it is noted (`outside`).
The one call that never returns, an insertion of nothing at the front
(`library/array/__array.hpp:83`), halts. `ArraySpec` gives each object a sequence.
`Paths` works on characters; what a path means is defined next to it, as the longest
runs without a slash. `Numbers` has the quotients and remainders of the processor, in
32 bits, and a reader of text for comparison. `Streams` keeps the static variables of
both streams and the line that has reached the device. `Builder` makes a disk of
bytes from a listing of the host, with the script's own slices, and reads it with the
loops of the kernel.

## 3. What the runs check

`tlc -config X.cfg M` runs a configuration; `PROJECT.json` names the module of
each. Every run that is expected to pass explores all states of its instance.
For every property of these runs `PROJECT.json` also names a mutant: a plausible
bug (a dropped guard, an off-by-one, a flush left out), defined next to the
definition it would replace, under which TLC finds the property violated.

| run | question | instance |
|---|---|---|
| FileSystemFlat | Do allocation, contents and the stop on a full disk stay right under every sequence of calls, and what does a mount find when the power fails in a call? | root, one directory, two regular files, 2 names, 2 byte values; 9 sectors of 2 tokens, 4 of them for files; arrays of up to 2 tokens |
| FileSystemNested | Does the tree stay linked, does a mount find it again, do bits reach the disk before references, and does the recursion end, when a flush climbs through several directories and removal is recursive? | a directory in a directory, two regular files, one name; arrays of up to 2 tokens |
| FileSystemRoot | (finding) Can the superblock always be mounted again? | room for one index in sector 0 in place of 126 |
| Library | Are arrays and strings sequences, with every buffer owned; do all functions agree on the names in a path; does what is printed read as what it is; does the kernel find what the builder has built? | 2 strings of up to 4 characters, blocks of 2; lines of 2 things; 9 numbers, 8 fractions, 12 sizes; 5403 directories of the host, sectors of 20 bytes |
| Shell | Is the ring a queue, is every event read, is the command what was typed, with interrupts between all system calls? | ring of 3 slots, 8 keys: two letters, a digit, the space, two shifts, backspace, enter; a command buffer of 3 places; 5 scancodes |
| Boot | Does every call, interrupt and fault reach what it means and return as it came; does the start come to its end on the right disk; is every scancode read? | no disk, a blank one, 3 pairs of disks, one scancode left over or none and 2 that arrive, 2 ticks beyond the start of a wait, one fault anywhere |
| Paging | Are frames exclusive, accounted for and kept, do the tables agree, from the boot to the end of the program and when the RAM ends anywhere? | 5 tables of 5 entries, 14 frames |
| Heap | Do the blocks tile the pages, held ones allocated, the assertions silent, and does alloc return? | pages of 12 words, up to 3; sizes 1, 6, 9, 13; 3 blocks held |
| HeapData | (finding) Does a caller's data stay? | as Heap |
| Terminal | Does the screen show the command and one cursor? | 3 columns, 5 rows, commands of up to 5 characters |
| Disk | Are the drives found, is every word moved in step with the drive, does every transfer deliver and return? | 4 places: a drive that does not know the command, none, two drives of 2 and 1 sectors, any of them answering late; room for 2 in the list; transfers of up to 2 sectors |
| DiskFlush | (finding) Is the data on the medium when write returns? | as Disk |

Type invariants are parts of `ListTiles` (`Heap`) and `InStep` (`Disk`), or proved
(`TypeCorrect`, `KeyboardTyped`, `PagingTyped`, `HeapTyped`, and as parts of
`BootInvariant` and of the invariant of `ShellProofs`).

Why the bounds are enough to see the interesting cases:

- *FileSystem.* Four sectors for files and directories of one to three sectors
  make every resize grow, keep and shrink, make the root and directories cross
  the border of a sector, give freed sectors to another file at once, and fill
  the disk in every place where getFreeSector is called. The ninth sector of
  `FileSystemFlat` is in no whole byte of the bitmap and never handed out. Two directories one in
  the other are the shortest chain on which the flush of a directory between the
  root and another one differs from both. `VIEW CurrentContents` leaves out what
  free sectors hold: `write` fills a sector before `read` is asked for it.
  Descriptors of regular files and byte values are interchangeable and declared
  symmetric where no liveness is checked.
- *Library.* A string with its terminator needs up to three blocks, so that every
  call keeps, grows and moves its buffer, and the two objects are each other's
  argument or the same one. Paths of up to four characters have slashes in front,
  behind, doubled and tripled. The numbers are those around a carry, a sign or a
  unit, the smallest and the largest. A directory of the host takes up to four
  sectors on the disk, with entries that lie across two of them.
- *Boot.* The steps of the start are all there; two scancodes are one in the port and
  one behind it. The pairs of disks put the builder's behind one that is blank and
  one that holds anything, and in front of another of its own; with no disk, and with
  one that mounts as nothing, the search ends behind the last.
- *Shell.* Five scancodes fill a ring of three slots and overflow it with some left
  over, at every place of the wrap. A command of two characters fills the buffer of
  three places, a third one overruns it, and five keys are more than the buffer holds
  when enter or backspace is among them.
- *Paging.* Twenty-five pages in five tables: a table that has been set up, one that
  the heap and one that the frame buffer has to allocate; 14 frames end in the
  middle of the program's or the heaps' pages, between a table and its page, and
  between the mark of a table and its frame.
- *Heap.* A page holds two minimal blocks, so that cuts, merges on both sides,
  growth by one and by two pages, and the recursion of alloc all occur.
  `VIEW ReadableState` leaves out words and locals that are written before they
  are read again.
- *Terminal.* A prompt and a command are two rows long, end in every column, and the
  screen scrolls under them.
- *Disk.* Two ticks are what the timeout compares with; two sectors are a first
  and a last one; a drive fails at any time. The search finds three drives for a
  list of two, or skips the one that answers with an error, and each may answer behind
  the look at its registers or only during a transfer. `VIEW WithoutPlatters` leaves out
  the medium, about which that run asks nothing, and of the time all but how long the
  driver has waited.

Deadlock is not checked, because every one of these systems may stop: the kernel
halts on a fault, the shell powers off, the bounds on events and ticks end.

### Fairness

The processor is the only one and executes what is in progress: `WF(Step)` in
`FileSystem`, `WF(Alloc)` in `Heap`, `WF(Program)` in `Shell` and `WF(Driver)` in
`Disk` say that a call that has begun, or the polling loop of the shell, goes on.
No fairness is assumed of requests, of key presses or of a choice among several
actions of the caller. `Disk` also assumes that the timer ticks, which the code
relies on for its timeout, and that a busy drive becomes ready or fails. In
`Boot` the processor goes on in a handler (`WF(Handler)`) and, although a handler
comes in between again and again, in the kernel (`SF(Kernel)`): two ticks of the timer
are further apart than a handler takes. Nothing is assumed of a kernel that has mounted
no disk (`Unmounted`): what it reads may stop it or not. The timer ticks (`WF(TimerTick)`), and an
interrupt is taken when the processor takes interrupts again and again
(`SF(Interrupt(n))`), which is what a processor does.

### Findings

Three runs are expected to end with a violation; each is something the code does
against what a comment or a document of the repository says.

- `FileSystemRoot`: `flushRootMetadata` writes the indexes of the root's sectors into
  sector 0 without a bound. The 127th lands on the magic number
  (`kernel/filesystem/filesystem.cpp:109`), and the disk cannot be mounted again.
- `HeapData`: `mergeBlocks` does not correct `prev` of the block behind
  (`library/heap/heap.cpp:80`). It then points into the merged block, and `free`
  writes through it, into a caller's data. The list itself always stays right:
  `ListTiles` holds with stale pointers and arbitrary data under them.
- `DiskFlush`: the flush command follows the last word at once
  (`kernel/disk/disk.cpp:78`), when the drive is busy and ignores it.

Other things the code does, which the models contain and the properties leave out
explicitly, or which came up while they were written:

- *Crashes.* A directory above is written before the entries below it
  (`CrashKeepsFiles` says what survives): a crash while a directory shrinks loses the
  files at its end, one between the flushes of `moveFile` the file that moves, and new
  sectors of the root and of the files in it look free until the bits are written.
- *Builder.* Behind every whole sector the rest of a directory loses its last byte
  (`filesystem-builder.py:108`). A directory of 513 bytes gets one sector, of which the
  kernel reads two; one of more than 1024 bytes that ends in an empty directory ends in
  a file. A file without a dot has no name, only a type.
- *Paths.* `moveFile` and `deleteFile` do not treat a slash at the end: the one links a
  null descriptor, the other removes nothing. `moveFile` checks neither for an existing
  name nor for a move of a directory into itself.
- *Numbers.* The zeros behind a point are cut off in front, too: 1.05 MB is shown as
  1.5MB (`jshell/main.cpp:29`), 0.0625 as 0.625; negative fractions get a second sign
  behind the point, the smallest int has no digits, sizes from 2 GB on are negative.
- *Arrays.* An insertion of nothing at the front never ends
  (`library/array/__array.hpp:83`); `operator=` forgets the buffer it had (line 27).
- *Keys.* No key is a digit (`library/keyboard/keyboard.cpp:41`); a scancode that comes
  before `keyboard::init` blocks the keyboard for good.
- *Screen.* After a scroll or an erasure across the left margin the flush redraws the
  wrong cell, and a ghost stays until the text scrolls (`kernel/text/text.cpp:34`, `:41`).
- *Faults.* The heap of the program reports with `int 0x13`, whose gate is the kernel's:
  the message is that of a General Protection Fault.
- *Memory.* `freeFrame` leaves the present bit, a new page table is used as it is found,
  the heaps of kernel and program grow towards each other unchecked, a command of a
  hundred characters leaves its buffer, and a transfer of more than 256 sectors is one
  modulo 256. When the RAM ends between the mark of a new table and its frame, the
  kernel stops with a table that is marked and has neither frame nor address
  (`kernel/memory/memory.cpp:105`).
- *Disks.* The wait at `kernel/disk/disk.cpp:107` does not test the busy bit: a drive that
  takes its time is listed with whatever its registers hold, and a transfer asked of it
  before it has answered is ignored by it and waited for without end. A command it does
  not know is noticed only if the error is there already. An eleventh drive is written
  behind `disks_arr` (line 122).
- *Start.* When no disk mounts, `fs::init` does not stop (`kernel/filesystem/filesystem.cpp:10`):
  `kernelMain` goes on with a file system that was never filled in and looks for the
  program there.

## 4. What is proved

`tlapm` checks the proofs of `FileTreeProofs`, `ContainersProofs`, `ShellProofs`,
`TerminalProofs`, `PagingProofs`, `HeapProofs`, `DiskProofs` and `BootProofs`. The
assumptions are those the modules state about their constants, and TLC evaluates them
in the runs:

- the file system: sizes are positive, the builder gives every sector to one file; and
  for the theorems about the tree `LoadAssumption`: what is mounted is a finite
  tree whose lists and pointers agree, with as many sector indexes for a file as its
  size needs, which is how `load` builds its descriptors, and descriptors to come are
  empty, as `createFile` makes them; and, for `BitsPrecedeReferences` and the theorems
  about contents, `EntriesAssumption`: the entries of a mounted directory stand one behind
  the other and reach to its end, as `load` reads entries until the bytes of the
  directory are used up;
- the containers: blocks have at least one item, neither the terminator nor what lies in
  memory that nobody has written is an item, and the heap hands out finitely many buffers;
- the keyboard and the shell: release codes are above the codes of the keys, no
  character is the zero byte, and the keys the shell looks for are on the keyboard; neither
  the number of scancodes nor the length of the buffer is bounded;
- the screen: a row has at least one column, there are two rows, the prompt is not empty, and
  what is printed between two flushes (the prompt with a command, the answer to an unknown
  command, a line of `memstat`) is shorter than the screen without two rows; the real one
  has 80 columns or more and these texts fill two of its rows;
- paging: the frame buffer is no part of the RAM, the boot maps pages of tables that
  are set up, the tables set up first lie in the first pages, tables and frame buffer
  have pages of their own, and no page is identity-mapped twice;
- the start: a disk was made by the builder, mounts as nothing, or holds anything else; a
  machine may have any number of them, also none; and the wait for the timer has room
  under the bound on ticks;
- the disk driver: places, drives and sizes are what they are, and sectors are not the
  mark of an empty word; nothing is assumed of when drives answer, nor that the list has
  room for all of them.

`TreeStaysLinked`, `NoSectorLeaks`, `BitsPrecedeReferences`, `FilesSurvive`,
`FullDiskSafe` and `MountsAgain` have the hypothesis `Careful`: no caller moves a directory
into itself or copies onto a directory (section 5). `MountsAgain` has a second one,
`[]RootFits`: the root directory never has more than `RootRefs` sectors (126). The code does
not check this, and beyond it the magic number is overwritten and no mount finds
anything: that is what the run `FileSystemRoot` shows.
The other theorems about files hold for careless callers, too.

| theorem | says | argument |
|---|---|---|
| `FileTreeProofs!TypeCorrect` | `Spec => []TypeOK` | `TypeOK` is inductive. Most of the work is in the operators: the frames, `Serialize` (a directory's image is a sequence of tokens, by a step from one `Offset` to the next), `Read`, `Erase`. |
| `FileTreeProofs!SectorsStayExclusive` | `Spec => []SectorsExclusive` | Inductive with "the bits of the owned and of the reserved sectors are set": a sector is handed out only if its bit is clear, and a bit is cleared only together with its last owner. Holds for careless callers, too. |
| `FileTreeProofs!CounterStaysCorrect` | `Spec => []CounterAgrees` | Inductive over `TypeOK`; the two lemmas on bits and counter rest on the finiteness of the set of sectors. |
| `FileTreeProofs!TreeStaysLinked` | `Careful => (Spec => []TreeLinked)` | `TreeInv`: lists and pointers agree (`Linked`); whoever follows the pointers leaves every set without the root (`Acyclic`, a statement about sets, so that no induction over the depth is needed); and the calls on the stack hold what is live. A directory is emptied entry by entry while flushes above it run; that nothing pulls an entry away from under a removal follows from `Calls`: the frames that remove form a path upwards in the tree. |
| `FileTreeProofs!NoSectorLeaks` | `Careful => (Spec => []TakenIsOwned)` | `LeakInv` adds that a file has the sectors of its size except while it grows (`SizesFit`), which happens only at the top of the stack (`GrowAtTop`), that an owner exists for every set bit (`TakenHaveOwner`), and that the resize before an erasure has emptied the file: it runs directly above the erasure, and the flushes below it work on directories above the file (`EraseInv`). |
| `FileTreeProofs!BitsPrecedeReferences` | `Careful => (Spec => BitsBeforeReferences)` | The entries of a directory are serialized before its resize, and only a resize to another size flushes the bits. `SavingInv` shows why that is enough: sectors whose bits are not on the disk belong to a file that is being resized (`Unsaved`); a file that has got some has made its directory longer than its size says (`Longer`, `Grows`), because a directory is never longer than its entries need unless its own flush is due (`Room`, `Resized`); so its resize cannot return at once, and when it returns the bits are saved (`Guarded`). That entries with more indexes make a longer image is a count of pairs (`MoreBytes`), not a sum along the list, so that no induction is needed. |
| `FileTreeProofs!FilesSurvive` | `Careful => (AuditSpec => []ContentSurvives)` | `ContentInv`: a file that no frame resizes or writes holds its array sector by sector (`Settled`), a write at the top of the stack has stored its array up to where it is (`TopWrites`), every write below has the array of the history and has not begun (`WritesKept`), and every resize brings its file to the length of the array that the next frame writes (`ResizesKept`). What could spoil this is the recursion: the flush of a directory above serializes and writes it while a write of the same directory still waits below. The waiting one has the very same entries (`CallersSerialize`), because whatever changes an entry of a directory works below it, and its bytes reach the disk only after the flush has returned. Another file's sectors are left alone by `SectorsStayExclusive`. |
| `FileTreeProofs!FullDiskSafe` | `Careful => (AuditSpec => []FullDiskLosesNothing)` | `FullInv`: once anything is on the disk, the innermost frame of a createFile or a write only writes or saves bits, or it flushes the root again, which then has the length of its entries already (`Returning`), so that its resize returns at once and nothing more is allocated. That length is `ResizesKept` and `WritesKept` of the resize and the write of the root that run at that moment (`RootUpToDate`). |
| `FileTreeProofs!MountsAgain` | `Careful => (AuditSpec /\ []RootFits => []MountFindsTree)` | `MountInv`: the array last written to a directory is its entries serialized, unless a flush of it is on the stack or the file that has grown in it is at the top and calls one next (`Entered`, `Awaited`); the superblock has the root's sectors and the bits on the disk are those in memory, unless a resize is running (`RootSaved`, `BitsSaved`). Between two calls nothing is awaited, and by `ContentInv` what is read is what was written last. What is left is that `load`, walking over serialized entries, finds them: its starts are a recursive function of the place before, and the k-th of them is the one behind `Offset(d, k)`, because the first place at which the walk would leave the offsets is behind one at which it had not (`OffsetExact`, `WalkFinds`, by least elements); that there are as many as entries is a bijection (`WalkCounts`). |
| `ContainersProofs!ContainersInvariant`, `BuffersStayOwned` | `Spec => []IInv`, `Spec => []BuffersOwned` | `IInv` says of every object that its buffer has the room of whole blocks and items up to its size (`Held`), that no two objects have the same one, and that as many buffers are lost as were assigned over. The loops are folds; that one leaves the items where they belong is shown for that loop, a recursive function of the rounds done, by least elements (`MoveIs`, `FillIs`): a loop that moves items inside one buffer does so only if no round reads what an earlier one has written, which is where the direction of the loops of `insert` and `erase` comes in. Then each operation is a lemma about any good store. The loss is counted through an injection from the objects that have a buffer to their buffers (`OwnersCounted`). |
| `ContainersProofs!ArraysImplementSequences` | `Spec => ArraysAreSequences` | Refinement: an object maps to the first `size` items of its buffer. The lemmas about the operations say what sequence the object becomes and that the others stay what they are (`Others`), through the growth into another buffer and the temporary copy of `insert(Array)`; the answers of the calls that only read follow from the same items. |
| `ShellProofs!KeyboardTyped` | `KeyboardSpec => []KeyboardTypeOK` | Inductive; the indexes wrap before the end of the array. |
| `ShellProofs!RingImplementsQueue` | `KeyboardSpec => RingIsQueue` | Refinement: the mapping is `UnreadEvents`; an interrupt maps to `Arrive`, overflow included, a read to `Take`, both under `KeyboardTypeOK`. |
| `ShellProofs!CommandAlwaysTyped` | `ShellSpec => []CommandIsTyped` | `CommandIsTyped` says nothing of the key in hand. `ShellInv` adds that a key in hand is one of the keyboard's and stays what it is while the shift keys are asked for, and that the buffer holds characters only, none of them the terminator. The property is about every session up to the first command as long as the buffer (`pc # "overrun"`), of which the code takes no notice and behind which nothing is defined; `Overrun` is the one step that leaves `BufferInv`. `TopRow`, `MidRow` and `LowRow` compare the rows of letters with the enum. |
| `ShellProofs!ShellReadsQueue` | `ShellSpec => RingIsQueue` | Every step of the shell is a step of `KeyboardSpec` or leaves the ring alone. |
| `TerminalProofs!TerminalInvariant` | `Spec => []TerminalInv` | Neither property is inductive: what is on the screen depends on where the old cursor was drawn. `Sound` says this of the console between any two calls of putChar and flushText, flushed or not: rows that have not changed are shown, the one block is where `prev_x` and `prev_y` say, and left of the cursor the text is drawn. A flush takes the block away by drawing the character at its place in the text; that this is not an image of text that leads up to the cursor needs the block's row to be above the cursor's or its column at most one left of the screen (`Apart`, `Margin`), and that newLine does not scroll the block off the screen needs what is printed between two flushes to be shorter than the screen (`Room`, `Low`). The text that was printed ends at the cursor (`Ends`), blanks are behind it (`Clean`); a scroll moves both by a row (`Shifts`). The loops over a string and over the report are folds, and what a fold leaves is shown for that fold by least elements (`Outputs`, `Printouts`, `UpTo`). |
| `TerminalProofs!CommandAlwaysShown`, `LineAlwaysShown` | `Spec => []CommandShown`, `Spec => []LineShown` | From `TerminalInv`: `Ends` and `Clean` are the first, a flushed `Sound` console with its block at the cursor is the second. |
| `PagingProofs!PagingTyped` | `Spec => []TypeOK` | From `FrameInv`. |
| `PagingProofs!NoFrameShared` | `Spec => []FramesExclusive` | `FramesExclusive` is not inductive: a frame that is mapped but whose bit is clear would be handed out again. `FrameInv` adds that mapped frames are taken (`MappedIsTaken`), that the frames taken by the loop over the first tables are those of its pages so far (`TablesLoop`), that the boot maps only pages whose table is set up and the frame buffer only pages behind the RAM (`IdentityLoops`), and that the frame that the first half of identityMapPage has looked at is still free for the second half (`Checked`). |
| `PagingProofs!UsedMemoryCounted` | `Spec => []CounterAgrees` | Inductive over `TypeOK`, by the cardinality of the bits below `Total`. |
| `PagingProofs!NoFrameLeaks` | `Spec => []TakenIsMapped` | From `LayoutInv`: the pages still to be identity-mapped are untouched until their turn comes (`Ahead`, `Sources`), the pages of the table of tables are those of tables alone (`TablesSetUp`), and a taken frame is mapped (`TakenIsUsed`). The step that allocates a table for a page takes a frame that has no page yet, the step behind it maps the page. `TablesHalfway` has the one exception: on a machine that has stopped for want of a frame, the table of the page it wanted may be marked and have none. |
| `PagingProofs!TablesAlwaysAgree` | `Spec => []TablesAgree` | From `LayoutInv`; `trap # "0x14"` (no identity map finds its frame taken) is the part that needs the layout. The stop between the mark of a table and its frame is part of the statement: only with `trap = "0x18"`, only for the table of the page in hand (`TablesHalfway`). |
| `PagingProofs!PagesKeepFrames` | `Spec => FramesKept` | From `LayoutInv`: a mapped page has its present bit (`MappedIsPresent`), so `allocateFrame` returns early. |
| `HeapProofs!ListAlwaysTiles`, `HeldStaysAllocated`, `CallersApart` | `Spec => []ListTiles`, `Spec => []HeldIsAllocated`, `Spec => []HeldApart` | The invariant is over a set of headers instead of the list: some set tiles the pages (`TilesIn`), the allocated ones of it are what the callers hold, and `head` is one of them while alloc runs. Three lemmas about any memory carry it: a block cut in two (`Cut`), a block merged with its next (`Merge`), and a block merged into what its `prev` names (`MergeBack`), which is the block before or lies in the body of the block before, so that the write touches no header. That this set is the list from `heap_base`, a recursive function of the memory, is shown for that one function by least elements (`LeastNatural`, `ChainIs`): the first place at which the list left the set would be behind one at which it had not. |
| `HeapProofs!NoCorruption`, `HeapTyped` | `Spec => []NeverCorrupted`, `Spec => []TypeOK` | From the same invariant: what alloc and free look at is a header of the set. |
| `DiskProofs!DisksAlwaysFound` | `Spec => []DisksFound` | From `DiskInv`; `Search` says what the driver has learned of the drive at its place, namely that it knows the command unless the driver did not wait for it (`late`), and `DriveLists` that a drive with an error keeps it. |
| `DiskProofs!NeverOutOfStep`, `TransfersRight` | `Spec => []InStep`, `Spec => []TransferRight` | `DiskInv` says that only the drive of the transfer, or one that still answers the search, is ever busy or asks for data (`Quiet`, `Identifying`), that its counters follow the driver's, one behind where a word waits to be stored (`Follows`, `LastMoved`), and that what has moved is the same on both sides or is that word (`Agrees`). The answer to "busy" may be stale when "data" is asked for, but only a busy drive moves on, and the driver answers for the rest. |
| `BootProofs!BootInvariant` | `Spec => []Inv` | Place by place in `kernelMain`: what is registered, which gates stand and which interrupts are let through is a function of `pc`; and what is saved on the stacks is what the code that was interrupted had. The tables of functions are those of five files, one behind the other (`Inits`). |
| `BootProofs!CallsAreServed`, `DiskIsTheFirst`, `RingsAreRight`, `FaultsAreReported` | `Spec => []CallsReachHandlers`, `[]FirstDiskMounted`, `[]RightRing`, `[]FaultsReported` | From `BootInvariant`, for any number and order of disks, also none, and any number of scancodes and ticks. That the mounted disk is the first is a statement about the disks tried so far (`Searched`). |
| `BootProofs!ContextComesBack` | `Spec => ContextRestored` | The step that returns pops what `BootInvariant` says was saved. |

Only model-checked, and why:

- `CallsReturn` (of `FileSystem` and of `Disk`), `EventsTaken`, `AllocReturns`,
  `BootEnds`, `KeysDelivered`: liveness under fairness is out of the reach of the prover.
- `PathsResolve`, `OutputReadable`, `ImagesMount`: what recursive operators
  compute for every input is induction over data. (Where a particular loop is a fold over
  a sequence or a recursive function, as in `Heap`, `Containers` and `Terminal`, least
  elements do.)
- `CrashKeepsFiles` compares what a mount in the middle of a call would read with
  memory: `Mounted` is recursive along the tree, so that already its equation is
  induction over data, and it goes through directories that are half written, whose
  entries `Entered` says nothing of.

## 5. What is abstracted or left out

Abstractions a reader has to know of:

- Callers of the file system pass paths that exist, and with `Careful = TRUE` they do
  not move a directory into itself or copy onto a directory, which no code
  refuses and after which nothing but `SectorsExclusive` and `CounterAgrees` could
  be promised. The runs set it; six of the theorems need it (section 4).
- In `FileSystem` a path is a directory and a name, and a name is a value; characters
  are in `Paths` and `Builder`. The bytes of a directory are tokens in `FileSystem`, a
  token an entry's fixed part, and bytes in `Builder`: half a token never reaches the
  disk in the model of crashes, so that `CrashKeepsFiles` asks for entries within a
  sector.
- Fractions are sixteenths, which a float holds exactly.
- General registers, the arguments of system calls and the error code of a fault are
  left out of the saved contexts.
- Callers of arrays pass items that lie in no array, positions inside it, and assign no
  array to itself; arrays of objects with destructors of their own are left out.
- Fresh frames hold zeros, as in the emulator of the Makefile. New page tables rely
  on it (`kernel/memory/memory.cpp:108`).
- Access rights of pages are left out, and the processor's cache of translations.
- `Shell` ends with the first command that is as long as the buffer, and `Terminal` does
  not type it: the code does not check, and what happens past the end is not defined.
- Drives of different places are independent, also the two of one port base, and `Early`
  is what the registers may read before a drive has answered. Callers of the disk driver
  ask for sectors that the drive has.
- A byte of the text buffer that nobody has written and a space look the same. One
  line of pixels that drawing left of row 0 would touch is left out.
- A disk has at most 28 bits of sectors and a transfer fewer than 256 sectors, as
  the registers do.
- The history variables `content`, `request`, `written` and `failed` watch only.

Not modelled:

- `mount` of `FileSystem` as a step: it is a function of the disk, which `MountFindsTree`
  compares with memory between calls and `CrashKeepsFiles` in the middle of them. What
  the calls after such a mount do is not modelled: the disk may then be damaged in
  ways the code neither finds nor repairs.
- Boot loader, font, the copy of the program into its pages, the listing of directories
  that `kernelMain` prints: no state of their own that changes, or pure input and
  output. `delay` of the timer and `setTssStack` are called by nothing.
- What the kernel reads when no disk is mounted: openFile finds nothing there, and the size
  of the program is read through a null pointer. `Boot` lets the kernel go on, fault or
  stop.
- The functions of `library/memory`, which ask the kernel for the sizes of memory.

## 6. Plan

The order was: the file system, whose recursion and images are the core of the
program, with its sectors proved exclusive; the keyboard, with its refinement;
paging, with its frames proved exclusive; the heap; console, terminal and disk
driver; the start with its traps; the library, and the builder. Next:

1. *Abstract specifications.* A pool of sectors with `FileSystem` shown to implement
   it; a block device for `Disk`.
2. *Proofs.* For the file system, what a mount finds after a crash (`CrashKeepsFiles`), on
   top of `MountInv`; for `Streams` and `Paths`, their loops as folds, as in
   `Containers`.
