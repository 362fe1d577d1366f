--------------------------- MODULE FileSystemAudit ---------------------------
(***************************************************************************)
(* FileSystem with history variables, for what the disk holds compared     *)
(* with what the callers wrote.  The history only watches: every step of   *)
(* FileSystem is possible, and none is added.                              *)
(***************************************************************************)
EXTENDS FileSystem

VARIABLES
  content,  \* the array last passed to write(), for each descriptor
  request,  \* the call in progress
  written   \* whether the call in progress has written to the disk

history == <<content, request, written>>

\* What the step passes to write() of f; removeFile empties a file.
Written(f) ==
  IF f \notin live' THEN <<>>
  ELSE IF Len(stack') <= Len(stack) \/ Head(stack').file # f THEN content[f]
  ELSE IF Head(stack').pc # "resize" THEN content[f]
  ELSE IF At("remove") THEN <<>> ELSE stack'[2].array

RequestName ==
  CASE Head(stack').pc = "resize" /\ Head(stack').n >= size[Head(stack').file] -> "write"
    [] Head(stack').pc = "flush" /\ Len(stack') = 1 -> "create"
    [] OTHER -> "other"

DiskWrite == At("write") \/ superblock' # superblock \/ bitmap' # bitmap

AuditInit ==
  /\ Init
  /\ content = [f \in Desc |-> Read(f)]
  /\ request = "none"
  /\ written = FALSE

AuditNext ==
  /\ Next
  /\ content' = [f \in Desc |-> Written(f)]
  /\ request' = IF stack' = <<>> THEN "none"
                ELSE IF stack = <<>> THEN RequestName
                ELSE request
  /\ written' = (stack' # <<>> /\ (written \/ DiskWrite))

AuditSpec == AuditInit /\ [][AuditNext]_<<vars, history>> /\ WF_vars(Step)

-----------------------------------------------------------------------------
(* FileSystem::mount and __Directory::load, as functions of the disk.      *)
mount ==
  [magic |-> superblock.magic, size |-> superblock.size,
   sectors |-> [k \in 1 .. SectorCount(superblock.size) |-> superblock.sectors[k]],
   sector_bits |-> bitmap, sectors_taken |-> Cardinality(bitmap)]

\* Where load finds entries: each is a head and as many indexes as the file
\* has sectors.  Whatever else stands there is taken for an empty file.
SizeAt(data, i) == IF data[i][1] = "head" THEN data[i][4] ELSE 0
Starts(data) ==
  LET start[k \in 0 .. Len(data)] ==
        IF k = 0 THEN 1
        ELSE LET i == start[k - 1]
             IN  IF i > Len(data) THEN i ELSE i + 1 + SectorCount(SizeAt(data, i))
  IN  {start[k] : k \in 0 .. Len(data)} \cap DOMAIN data

\* The entry at i is the one of f.
Loads(data, i, f) ==
  /\ data[i] = <<"head", name[f], f \in Dirs, size[f]>>
  /\ Len(sectors[f]) = SectorCount(size[f])
  /\ \A j \in DOMAIN sectors[f] :
       i + j <= Len(data) /\ data[i + j] = <<"ref", sectors[f][j]>>

\* What a mount at this moment makes of f: the first entry of its name in the
\* data that it finds of the directory.
DataOf(entry) ==
  [t \in 1 .. entry.size |->
     LET k == ((t - 1) \div SectorSize) + 1
     IN  IF k \in DOMAIN entry.sectors
           THEN disk[entry.sectors[k]][((t - 1) % SectorSize) + 1]
           ELSE Junk]
Absent == [size |-> -1, sectors |-> <<>>]
EntryAt(data, i) ==
  [size |-> data[i][4],
   sectors |-> [j \in 1 .. SectorCount(data[i][4]) |->
                  IF i + j \in DOMAIN data /\ data[i + j][1] = "ref" THEN data[i + j][2] ELSE 0]]
Mounted[f \in Desc] ==
  IF f = Root THEN [size |-> superblock.size, sectors |-> superblock.sectors]
  ELSE LET data == DataOf(Mounted[parent_directory[f]])
           named == {i \in Starts(data) : data[i][1] = "head" /\ data[i][2] = name[f]}
       IN  IF named = {} THEN Absent ELSE EntryAt(data, Min(named))

-----------------------------------------------------------------------------
InCall == {stack[k].file : k \in DOMAIN stack}

\* Reading any file gives back the last array written to it: allocation, the
\* flushes of other files and the reuse of freed sectors leave it alone, at
\* every point of a call that does not write the file itself.
ContentSurvives ==
  \A f \in live :
    Idle \/ f \notin InCall \cup Dirs => size[f] = Len(content[f]) /\ Read(f) = content[f]

\* When no call is in progress, a mount finds again what is in memory: the
\* root, the bits and their count, and in the data of every directory all its
\* children, by the walk of load, which knows where an entry ends only from the
\* size in it.
MountFindsTree ==
  Idle => /\ mount = [magic |-> TRUE, size |-> size[Root], sectors |-> sectors[Root],
                      sector_bits |-> sector_bits, sectors_taken |-> sectors_taken]
          /\ \A d \in live \cap Dirs :
               LET data == Read(d)
                   starts == Starts(data)
               IN  /\ Cardinality(starts) = Len(files[d])
                   /\ \A i \in starts :
                        Loads(data, i, files[d][Cardinality({j \in starts : j <= i})])

\* The entry of f stays where it is on the disk, and is replaced at once.
InPlace(f) ==
  LET d == parent_directory[f]
      i == CHOOSE j \in DOMAIN files[d] : files[d][j] = f
  IN  /\ \A k \in 1 .. i - 1 : files[d][k] \notin InCall
      /\ f \in InCall => Offset(d, i) \div SectorSize = (Offset(d, i + 1) - 1) \div SectorSize

\* The power fails at any point of a createFile or of a write that does not
\* shrink the file.  The next mount finds every other file with its sectors,
\* none of which looks free, unless its entry, or the one of a directory above
\* it, stands behind an entry that changes or is one that changes and lies
\* across two sectors.  (When a directory shrinks, and between the two flushes
\* of moveFile, files are lost: sizes reach the disk before the entries.)
CrashKeepsFiles ==
  request \in {"create", "write"} =>
    \A f \in OpenFiles \ InCall :
      /\ \A g \in Above(f) \ {Root} : InPlace(g)
      /\ request = "create" => f # Last(files[Last(stack).file])
      => /\ Mounted[f] = [size |-> size[f], sectors |-> sectors[f]]
         /\ Range(sectors[f]) \subseteq bitmap

\* A createFile or a write that meets a full disk stops the kernel before it
\* has written anything: every resize on the way up to the root allocates
\* before the first flush on the way back.
FullDiskLosesNothing ==
  halted /\ request \in {"create", "write"} => ~written
=============================================================================
