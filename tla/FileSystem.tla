------------------------------ MODULE FileSystem ------------------------------
(***************************************************************************)
(* The file system of the kernel (kernel/filesystem): a tree of            *)
(* descriptors in memory, a bitmap of taken sectors in memory, and their   *)
(* images on the disk.  The functions of the API call one another          *)
(* recursively (File::write calls resize, resize calls the parent          *)
(* directory's flushMetadata, which calls write again), so the machine     *)
(* keeps the call stack explicitly.  One step is one disk write or the     *)
(* memory operations between two of them: every state is one at which the  *)
(* power can fail.                                                         *)
(*                                                                         *)
(* Bytes are grouped into tokens: the fixed part of a directory entry      *)
(* (name, type, size, flags) is one token, each sector index of an entry   *)
(* is one token, a byte of a file is one token.                            *)
(***************************************************************************)
EXTENDS Integers, FiniteSets, SequencesExt

CONSTANTS
  Desc,           \* addresses of file descriptors
  Root,           \* FileSystem::root
  Dirs,           \* the descriptors that carry DIRECTORY_FLAG
  Names,          \* names of files
  NoName,         \* the name of the root and of a freed descriptor
  Data,           \* byte values of regular files
  DiskSize,       \* disk.size, in sectors
  SectorSize,     \* tokens in a sector (512 bytes)
  BitmapSectors,  \* num_sector_bits: sectors that hold the bitmap
  RootRefs,       \* sector indexes before the magic number of sector 0 (126)
  MaxFile,        \* bound: longest array a caller writes
  Careful,        \* whether callers refrain from what no code refuses: a move
                  \* of a directory into itself, a copy onto a directory
  Image           \* the mounted tree: what FileSystem::mount has loaded

VARIABLES
  live,              \* descriptors that are allocated
  parent_directory, name, size, sectors, files,   \* fields of a descriptor
  sector_bits,       \* FileSystem::sector_bits: sectors whose bit is set
  sectors_taken,     \* FileSystem::sectors_taken
  superblock,        \* sector 0 of the disk
  bitmap,            \* the bitmap sectors of the disk
  disk,              \* the other sectors of the disk
  stack,             \* activation frames, innermost first
  halted             \* the page fault of setSectorBit(-1): isrHandler halts

tree == <<live, parent_directory, name, files>>
bits == <<sector_bits, sectors_taken>>
ondisk == <<superblock, bitmap, disk>>
vars == <<live, parent_directory, name, size, sectors, files, sector_bits,
          sectors_taken, superblock, bitmap, disk, stack, halted>>

-----------------------------------------------------------------------------
Sector == 0 .. DiskSize - 1
Reserved == 0 .. BitmapSectors          \* superblock and bitmap
AllNames == Names \cup {NoName}

Junk == <<"junk">>
Token == ({"head"} \X AllNames \X BOOLEAN \X Nat) \cup ({"ref"} \X Sector)
           \cup ({"data"} \X Data) \cup {Junk}
Block == [1 .. SectorSize -> Token]

\* (bytes + 511) / 512
SectorCount(n) == (n + SectorSize - 1) \div SectorSize

\* Sectors whose bit getFreeSector looks at: disk.size / 8 whole bytes.
Searched == {s \in Sector : s < (DiskSize \div 8) * 8}
FreeUnchecked == Searched                   \* mutant: the bits are not read
Free == Searched \ sector_bits

Owned == UNION {Range(sectors[f]) : f \in Desc}

ASSUME SizesAssumption ==
  /\ DiskSize \in Nat /\ SectorSize \in Nat \ {0} /\ BitmapSectors \in Nat
  /\ BitmapSectors < DiskSize /\ RootRefs \in Nat /\ MaxFile \in Nat
  /\ Careful \in BOOLEAN
ASSUME TreeAssumption == Dirs \subseteq Desc /\ Root \in Dirs
\* The builder gives every sector to one file.
ASSUME ImageAssumption ==
  /\ Image.live \subseteq Desc
  /\ Image.parent_directory \in [Desc -> Desc]
  /\ Image.name \in [Desc -> AllNames]
  /\ Image.size \in [Desc -> Nat]
  /\ Image.sectors \in [Desc -> Seq(Sector \ Reserved)]
  /\ Image.files \in [Desc -> Seq(Desc)]
  /\ Image.disk \in [Sector -> Block]
  /\ \A f \in Desc : \A i, j \in DOMAIN Image.sectors[f] :
       Image.sectors[f][i] = Image.sectors[f][j] => i = j
  /\ \A f, g \in Desc :
       f # g => Range(Image.sectors[f]) \cap Range(Image.sectors[g]) = {}
\* mount reads as many indexes of a file as its size needs, and makes each
\* descriptor for one entry in the list of its parent: a finite tree.  The
\* descriptors of files to come are empty (new __FileDescriptor()).
ASSUME LoadAssumption ==
  /\ \A f \in Desc : Len(Image.sectors[f]) = SectorCount(Image.size[f])
  /\ Root \in Image.live /\ Image.parent_directory[Root] = Root
  /\ \A f \in Image.live : Image.parent_directory[f] \in Dirs \cap Image.live
  /\ \A d \in Desc :
       /\ IsInjective(Image.files[d])
       /\ Range(Image.files[d])
            = {f \in Image.live \ {Root} : Image.parent_directory[f] = d}
  /\ \A S \in SUBSET (Image.live \ {Root}) :
       S # {} => \E f \in S : Image.parent_directory[f] \notin S
  /\ \A f \in Desc \ Image.live : Image.size[f] = 0
\* It reads the entries of a directory one behind the other, until its bytes
\* are used up.
ASSUME EntriesAssumption ==
  \A d \in Dirs \cap Image.live :
    LET list == Image.files[d]
        offset(i) == Cardinality({p \in (1 .. i - 1) \X (0 .. DiskSize) :
                                    p[2] <= Len(Image.sectors[list[p[1]]])})
        token(t) == Image.disk[Image.sectors[d][((t - 1) \div SectorSize) + 1]]
                              [((t - 1) % SectorSize) + 1]
    IN  /\ Image.size[d] = offset(Len(list) + 1)
        /\ \A i \in DOMAIN list :
             LET f == list[i]
             IN  /\ token(offset(i) + 1) = <<"head", Image.name[f], f \in Dirs, Image.size[f]>>
                 /\ \A j \in DOMAIN Image.sectors[f] :
                      token(offset(i) + 1 + j) = <<"ref", Image.sectors[f][j]>>

-----------------------------------------------------------------------------
(* Directory::getFile(name): the first entry with the name, or nothing.    *)
Find(d, nm) ==
  {files[d][i] : i \in {j \in DOMAIN files[d] :
                          /\ name[files[d][j]] = nm
                          /\ \A k \in 1 .. j - 1 : name[files[d][k]] # nm}}

\* openFile goes from directory to directory, following first matches: a set
\* that its loop does not leave.
Opened(S) ==
  /\ Root \in S
  /\ \A d \in S : \A f \in Dirs : f \in Find(d, name[f]) => f \in S

OpenDirs == {f \in Dirs : \A S \in SUBSET Dirs : Opened(S) => f \in S}
OpenFiles ==
  LET dirs == OpenDirs
  IN  {f \in live : f = Root \/ \E d \in dirs : f \in Find(d, name[f])}

\* The directories above d, itself included, following parent_directory: in
\* every set that holds d and the parent of each member.
Rising(d, S) == d \in S /\ \A e \in S : parent_directory[e] \in S
Above(d) == {f \in Desc : \A S \in SUBSET Desc : Rising(d, S) => f \in S}

-----------------------------------------------------------------------------
(* __FileDescriptor::serializeMetadata and Directory::flushMetadata: the   *)
(* entries of the children, one after the other.                           *)
Entry(f) == <<<<"head", name[f], f \in Dirs, size[f]>>>> \o
            [j \in 1 .. Len(sectors[f]) |-> <<"ref", sectors[f][j]>>]

\* Tokens before the entry of the i-th child: one per child, one per sector.
Offset(d, i) ==
  Cardinality({p \in (1 .. i - 1) \X (0 .. DiskSize) :
                 p[2] <= Len(sectors[files[d][p[1]]])})

Serialize(d) ==
  [t \in 1 .. Offset(d, Len(files[d]) + 1) |->
     LET i == CHOOSE i \in DOMAIN files[d] :
                Offset(d, i) < t /\ t <= Offset(d, i + 1)
     IN  Entry(files[d][i])[t - Offset(d, i)]]

(* File::read: size bytes, sector by sector.  Array's [] does not check the *)
(* index: past the last sector it would read anything.                     *)
Read(f) ==
  [t \in 1 .. size[f] |->
     LET k == ((t - 1) \div SectorSize) + 1
     IN  IF k \in DOMAIN sectors[f]
           THEN disk[sectors[f][k]][((t - 1) % SectorSize) + 1]
           ELSE Junk]

\* Array::erase(index): the elements behind move up by one.
Erase(seq, index) ==
  [k \in 1 .. Len(seq) - 1 |-> IF k < index THEN seq[k] ELSE seq[k + 1]]

-----------------------------------------------------------------------------
Label == {"write", "resize", "grow", "parent", "bits", "flush", "remove",
          "erase", "delete", "copy"}

Frame == [pc : Label, file : Desc, to : Desc, n : Nat, name : AllNames,
          array : Seq(Token)]

Activation(label, f) == [pc |-> label, file |-> f, to |-> f, n |-> 0,
                         name |-> NoName, array |-> <<>>]

Resize(f, new_size) == [Activation("resize", f) EXCEPT !.n = new_size]
Write(f, arr) == [Activation("write", f) EXCEPT !.array = arr]
Flush(d) == Activation("flush", d)
Discard(d, index) == [Activation("remove", d) EXCEPT !.n = index,
                                                     !.to = files[d][index]]
Delete(d, nm) == [Activation("delete", d) EXCEPT !.n = 1, !.name = nm]
Copy(original, copy) == [Activation("copy", original) EXCEPT !.to = copy]

Top == Head(stack)
At(label) == stack # <<>> /\ ~halted /\ Top.pc = label
Idle == stack = <<>> /\ ~halted

Goto(label) == [stack EXCEPT ![1].pc = label]
Call(frame, rest) == <<frame>> \o rest
\* File::write begins with resize(array.getSize()).
CallWrite(f, arr, rest) == <<Resize(f, Len(arr)), Write(f, arr)>> \o rest
Return == Tail(stack)

-----------------------------------------------------------------------------
(* FileSystem::setSectorBit counts only the bits it really changes.        *)
SetBits(S) ==
  /\ sector_bits' = sector_bits \cup S
  /\ sectors_taken' = sectors_taken + Cardinality(S \ sector_bits)

ClearBitsUncounted(S) ==                    \* mutant: no decrement
  /\ sector_bits' = sector_bits \ S
  /\ UNCHANGED sectors_taken
ClearBitsNever(S) == UNCHANGED bits         \* mutant: popped, not given back
ClearBits(S) ==
  /\ sector_bits' = sector_bits \ S
  /\ sectors_taken' = sectors_taken - Cardinality(S \cap sector_bits)

\* The sectors resize pops from f to keep `count`.
DroppedOneMore(f, count) ==                 \* mutant: pops one, clears two
  {sectors[f][k] : k \in {j \in DOMAIN sectors[f] : j >= count}}
Dropped(f, count) ==
  {sectors[f][k] : k \in {j \in DOMAIN sectors[f] : j > count}}

(* File::write, once resize has returned: one disk write per sector while  *)
(* the bytes written are fewer than getSize().                             *)
WriteSector ==
  /\ At("write")
  /\ LET f == Top.file
         written == Top.n * SectorSize
     IN  /\ written < size[f]
         /\ disk' = [disk EXCEPT ![sectors[f][Top.n + 1]] =
                        [j \in 1 .. SectorSize |->
                           IF written + j <= Min({size[f], Len(Top.array)})
                             THEN Top.array[written + j] ELSE Junk]]
  /\ stack' = [stack EXCEPT ![1].n = @ + 1]
  /\ UNCHANGED <<tree, size, sectors, bits, superblock, bitmap, halted>>

WriteDone ==
  /\ At("write")
  /\ Top.n * SectorSize >= size[Top.file]
  /\ stack' = Return
  /\ UNCHANGED <<tree, size, sectors, bits, ondisk, halted>>

-----------------------------------------------------------------------------
(* File::resize.  The return on an unchanged size is what ends the mutual  *)
(* recursion of resize and flushMetadata at the root.                      *)
ResizeSame ==
  /\ At("resize")
  /\ Top.n = size[Top.file]
  /\ stack' = Return
  /\ UNCHANGED <<tree, size, sectors, bits, ondisk, halted>>

ResizeKeepRounded ==      \* mutant: returns when the sector count is the same
  /\ At("resize")
  /\ Top.n # size[Top.file]
  /\ SectorCount(Top.n) = SectorCount(size[Top.file])
  /\ stack' = Return
  /\ UNCHANGED <<tree, size, sectors, bits, ondisk, halted>>
ResizeKeep ==
  /\ At("resize")
  /\ Top.n # size[Top.file]
  /\ SectorCount(Top.n) = SectorCount(size[Top.file])
  /\ size' = [size EXCEPT ![Top.file] = Top.n]
  /\ stack' = Goto("parent")
  /\ UNCHANGED <<tree, sectors, bits, ondisk, halted>>

ResizeShrink ==
  /\ At("resize")
  /\ SectorCount(Top.n) < SectorCount(size[Top.file])
  /\ LET f == Top.file
         count == SectorCount(Top.n)
     IN  /\ size' = [size EXCEPT ![f] = Top.n]
         /\ sectors' = [sectors EXCEPT ![f] =
                          IF Len(@) > count THEN SubSeq(@, 1, count) ELSE @]
         /\ ClearBits(Dropped(f, count))
  /\ stack' = Goto("parent")
  /\ UNCHANGED <<tree, ondisk, halted>>

ResizeGrow ==
  /\ At("resize")
  /\ SectorCount(Top.n) > SectorCount(size[Top.file])
  /\ size' = [size EXCEPT ![Top.file] = Top.n]
  /\ stack' = Goto("grow")
  /\ UNCHANGED <<tree, sectors, bits, ondisk, halted>>

\* One turn of the loop: getFreeSector takes the lowest clear bit.
GrowSectorFlushed ==      \* mutant: saves the bitmap at each allocation
  /\ At("grow")
  /\ Len(sectors[Top.file]) < SectorCount(Top.n)
  /\ \E s \in Free :
       /\ \A r \in Free : s <= r
       /\ SetBits({s})
       /\ bitmap' = sector_bits \cup {s}
       /\ sectors' = [sectors EXCEPT ![Top.file] = Append(@, s)]
  /\ UNCHANGED <<tree, size, superblock, disk, stack, halted>>
GrowSector ==
  /\ At("grow")
  /\ LET f == Top.file
     IN  /\ Len(sectors[f]) < SectorCount(Top.n)
         /\ \E s \in Free :
              /\ \A r \in Free : s <= r
              /\ SetBits({s})
              /\ sectors' = [sectors EXCEPT ![f] = Append(@, s)]
  /\ UNCHANGED <<tree, size, ondisk, stack, halted>>

GrowDone ==
  /\ At("grow")
  /\ Len(sectors[Top.file]) >= SectorCount(Top.n)
  /\ stack' = Goto("parent")
  /\ UNCHANGED <<tree, size, sectors, bits, ondisk, halted>>

\* getFreeSector answers -1 and setSectorBit(-1) touches an unmapped page.
DiskFull ==
  /\ At("grow")
  /\ Len(sectors[Top.file]) < SectorCount(Top.n)
  /\ Free = {}
  /\ halted' = TRUE
  /\ UNCHANGED <<tree, size, sectors, bits, ondisk, stack>>

\* flushRootMetadata writes the root's sectors from byte 4 on, unbounded:
\* index RootRefs of the array lands on the magic number.
RootMetadata ==
  [size |-> size[Root], sectors |-> sectors[Root],
   magic |-> superblock.magic /\ Len(sectors[Root]) <= RootRefs]

\* The flush of the parent is no else branch: the root, its own parent,
\* writes sector 0 and then flushes its entries, too.
ResizeParent ==
  /\ At("parent")
  /\ superblock' = IF parent_directory[Top.file] = Top.file
                     THEN RootMetadata ELSE superblock
  /\ stack' = Call(Flush(parent_directory[Top.file]), Goto("bits"))
  /\ UNCHANGED <<tree, size, sectors, bits, bitmap, disk, halted>>

ResizeBitsUnsaved ==                        \* mutant: no flushSectorBits
  /\ At("bits")
  /\ stack' = Return
  /\ UNCHANGED <<tree, size, sectors, bits, ondisk, halted>>
ResizeBits ==
  /\ At("bits")
  /\ bitmap' = sector_bits
  /\ stack' = Return
  /\ UNCHANGED <<tree, size, sectors, bits, superblock, disk, halted>>

\* Directory::flushMetadata serializes first, then writes.
FlushMetadata ==
  /\ At("flush")
  /\ stack' = CallWrite(Top.file, Serialize(Top.file), Return)
  /\ UNCHANGED <<tree, size, sectors, bits, ondisk, halted>>

-----------------------------------------------------------------------------
(* Directory::removeFile(index): the children of a directory first, then   *)
(* its sectors, then its descriptor and its entry.                         *)
RemoveChild ==
  /\ At("remove")
  /\ LET f == Top.to
     IN  IF f \in Dirs /\ files[f] # <<>>
           THEN stack' = Call(Discard(f, 1), stack)
           ELSE stack' = Call(Resize(f, 0), Goto("erase"))
  /\ UNCHANGED <<tree, size, sectors, bits, ondisk, halted>>

RemoveEraseUnlisted ==    \* mutant: the entry stays in the list
  /\ At("erase")
  /\ live' = live \ {Top.to}
  /\ stack' = Call(Flush(Top.file), Return)
  /\ UNCHANGED <<parent_directory, name, files, size, sectors, bits, ondisk, halted>>
RemoveErase ==
  /\ At("erase")
  /\ LET d == Top.file
         f == files[d][Top.n]
     IN  /\ live' = live \ {f}
         /\ files' = [files EXCEPT ![d] = Erase(@, Top.n), ![f] = <<>>]
         /\ parent_directory' = [parent_directory EXCEPT ![f] = Root]
         /\ name' = [name EXCEPT ![f] = NoName]
         /\ size' = [size EXCEPT ![f] = 0]
         /\ sectors' = [sectors EXCEPT ![f] = <<>>]
         /\ stack' = Call(Flush(d), Return)
  /\ UNCHANGED <<bits, ondisk, halted>>

\* Directory::removeFile(name): after a removal the loop still increments
\* its index, past the entry that moved into the place of the removed one.
DeleteNext ==
  /\ At("delete")
  /\ LET matches == {i \in DOMAIN files[Top.file] :
                       i >= Top.n /\ name[files[Top.file][i]] = Top.name}
     IN  IF matches = {}
           THEN stack' = Return
           ELSE stack' = Call(Discard(Top.file, Min(matches)),
                              [stack EXCEPT ![1].n = Min(matches) + 1])
  /\ UNCHANGED <<tree, size, sectors, bits, ondisk, halted>>

\* copyFile: copy.write(original.read()).
CopyData ==
  /\ At("copy")
  /\ stack' = CallWrite(Top.to, Read(Top.file), Return)
  /\ UNCHANGED <<tree, size, sectors, bits, ondisk, halted>>

-----------------------------------------------------------------------------
(* The functions a caller of the API can start.  A caller names files by   *)
(* paths of existing directories: with any other path the code uses a null *)
(* descriptor.                                                             *)
AddFileUnlinked(d, nm, f) ==                \* mutant: parent_directory not set
  /\ live' = live \cup {f}
  /\ name' = [name EXCEPT ![f] = nm]
  /\ files' = [files EXCEPT ![d] = Append(@, f)]
  /\ UNCHANGED parent_directory
AddFileInFront(d, nm, f) ==                 \* mutant: the entries move up
  /\ live' = live \cup {f}
  /\ parent_directory' = [parent_directory EXCEPT ![f] = d]
  /\ name' = [name EXCEPT ![f] = nm]
  /\ files' = [files EXCEPT ![d] = <<f>> \o @]
AddFile(d, nm, f) ==
  /\ live' = live \cup {f}
  /\ parent_directory' = [parent_directory EXCEPT ![f] = d]
  /\ name' = [name EXCEPT ![f] = nm]
  /\ files' = [files EXCEPT ![d] = Append(@, f)]

Unused == (Desc \ Dirs) \ live

\* Nothing happens when the name is taken.
CreateFile(d, nm) ==
  /\ Idle
  /\ Find(d, nm) = {}
  /\ \E f \in Unused : AddFile(d, nm, f)
  /\ stack' = <<Flush(d)>>
  /\ UNCHANGED <<size, sectors, bits, ondisk, halted>>

WriteFile(f, array) ==
  /\ Idle
  /\ stack' = CallWrite(f, array, <<>>)
  /\ UNCHANGED <<tree, size, sectors, bits, ondisk, halted>>

\* fs::deleteFile removes by name, from the parent of the file it opened.
DeleteFile(f) ==
  /\ Idle
  /\ f # Root
  /\ stack' = <<Delete(parent_directory[f], name[f])>>
  /\ UNCHANGED <<tree, size, sectors, bits, ondisk, halted>>

RemoveFile(d, index) ==
  /\ Idle
  /\ stack' = <<Discard(d, index)>>
  /\ UNCHANGED <<tree, size, sectors, bits, ondisk, halted>>

\* createFile returns the existing file when the name is taken.
CopyFile(original, d, nm) ==
  /\ Idle
  /\ \/ \E copy \in Find(d, nm) :
           /\ Careful => copy \notin Dirs
           /\ stack' = <<Copy(original, copy)>>
           /\ UNCHANGED tree
     \/ /\ Find(d, nm) = {}
        /\ \E copy \in Unused :
             /\ AddFile(d, nm, copy)
             /\ stack' = <<Flush(d), Copy(original, copy)>>
  /\ UNCHANGED <<size, sectors, bits, ondisk, halted>>

\* No test for a file of the new name, none for a move into the own subtree.
MoveFile(d, index, new_parent, nm) ==
  /\ Idle
  /\ LET f == files[d][index]
     IN  /\ f \in Find(d, name[f])
         /\ Careful => f \notin Above(new_parent)
         /\ files' = LET erased == [files EXCEPT ![d] = Erase(@, index)]
                     IN  [erased EXCEPT ![new_parent] = Append(@, f)]
         /\ parent_directory' = [parent_directory EXCEPT ![f] = new_parent]
         /\ name' = [name EXCEPT ![f] = nm]
  /\ stack' = <<Flush(d), Flush(new_parent)>>
  /\ UNCHANGED <<live, size, sectors, bits, ondisk, halted>>

Request ==
  \/ \E d \in OpenDirs, nm \in Names : CreateFile(d, nm)
  \/ \E f \in OpenFiles \ Dirs, n \in 0 .. MaxFile, v \in Data :
       WriteFile(f, [i \in 1 .. n |-> <<"data", v>>])
  \/ \E f \in OpenFiles : DeleteFile(f)
  \/ \E d \in OpenDirs : \E index \in DOMAIN files[d] : RemoveFile(d, index)
  \/ \E original \in OpenFiles, d \in OpenDirs, nm \in Names :
       CopyFile(original, d, nm)
  \/ \E d, e \in OpenDirs, nm \in Names :
       \E index \in DOMAIN files[d] : MoveFile(d, index, e, nm)

Step ==
  \/ WriteSector \/ WriteDone
  \/ ResizeSame \/ ResizeKeep \/ ResizeShrink \/ ResizeGrow
  \/ GrowSector \/ GrowDone \/ DiskFull \/ ResizeParent \/ ResizeBits
  \/ FlushMetadata \/ RemoveChild \/ RemoveErase \/ DeleteNext \/ CopyData

Next == Request \/ Step

\* The state FileSystem::mount leaves.
Init ==
  /\ live = Image.live
  /\ parent_directory = Image.parent_directory
  /\ name = Image.name
  /\ size = Image.size
  /\ sectors = Image.sectors
  /\ files = Image.files
  /\ sector_bits = Reserved \cup Owned
  /\ sectors_taken = Cardinality(sector_bits)
  /\ superblock = [size |-> size[Root], sectors |-> sectors[Root], magic |-> TRUE]
  /\ bitmap = sector_bits
  /\ disk = Image.disk
  /\ stack = <<>>
  /\ halted = FALSE

\* A call in progress goes on: nothing else runs in the kernel.
Spec == Init /\ [][Next]_vars /\ WF_vars(Step)

-----------------------------------------------------------------------------
(* Properties.                                                             *)

\* Every variable keeps its type: a superblock holds the root's size and
\* sectors, a disk sector a block of tokens, the stack activation frames.
TypeOK ==
  /\ live \in SUBSET Desc
  /\ parent_directory \in [Desc -> Desc]
  /\ name \in [Desc -> AllNames]
  /\ size \in [Desc -> Nat]
  /\ sectors \in [Desc -> Seq(Sector)]
  /\ files \in [Desc -> Seq(Desc)]
  /\ sector_bits \in SUBSET Sector
  /\ sectors_taken \in Int
  /\ superblock \in [size : Nat, sectors : Seq(Sector), magic : BOOLEAN]
  /\ bitmap \in SUBSET Sector
  /\ disk \in [Sector -> Block]
  /\ stack \in Seq(Frame)
  /\ halted \in BOOLEAN

\* No sector belongs to two files, or twice to one, or to the superblock and
\* the bitmap: resize hands out only sectors whose bit is clear and takes
\* back only its own.
SectorsExclusive ==
  /\ Owned \cap Reserved = {}
  /\ \A f \in Desc : \A i, j \in DOMAIN sectors[f] :
       sectors[f][i] = sectors[f][j] => i = j
  /\ \A f, g \in Desc :
       f # g => Range(sectors[f]) \cap Range(sectors[g]) = {}

\* A bit is set exactly for the sectors in use: none leaks when a file
\* shrinks, is removed or loses its directory, none in use can be handed out.
TakenIsOwned == sector_bits = Reserved \cup Owned

\* getSectorsTaken, kept by increments and decrements, counts the set bits.
CounterAgrees == sectors_taken = Cardinality(sector_bits)

\* Every descriptor but the root stands once in the list of its own parent
\* and nowhere else: createFile, moveFile and removeFile keep the lists and
\* the parent_directory pointers together.  No function on the call stack
\* still holds a descriptor that a callee or an earlier iteration has deleted.
TreeLinked ==
  /\ \A k \in DOMAIN stack : stack[k].file \in live
  /\ \A f \in live \ {Root} :
       /\ parent_directory[f] \in live
       /\ Cardinality({i \in DOMAIN files[parent_directory[f]] :
                         files[parent_directory[f]][i] = f}) = 1
  /\ \A d \in live : \A i \in DOMAIN files[d] :
       /\ files[d][i] \in live \ {Root}
       /\ parent_directory[files[d][i]] = d

\* The magic number of sector 0 survives: mount finds the disk again.
SuperblockMountable == superblock.magic

References(block) == {block[j][2] : j \in {i \in 1 .. SectorSize : block[i][1] = "ref"}}

\* A sector of a directory other than the root reaches the disk only when
\* the bits of all sectors its entries name are set on the disk already: a
\* crash there leaves no file whose sectors the next mount hands out again.
\* The resize of the directory flushes the bits before write() goes on.
BitsBeforeReferences ==
  [][\A s \in Sector :
       /\ disk'[s] # disk[s]
       /\ Top.file \in Dirs \ {Root}
       => References(disk'[s]) \subseteq bitmap]_vars

\* Every call ends, or the disk is full and the kernel stops: the mutual
\* recursion of write, resize and flushMetadata comes to an end.
CallsReturn == stack # <<>> ~> (stack = <<>> \/ halted)
=============================================================================
