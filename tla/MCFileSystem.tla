---------------------------- MODULE MCFileSystem ----------------------------
(***************************************************************************)
(* Small instances of FileSystem.  The images are what the builder writes: *)
(* a root with one empty directory, or with a directory in a directory;    *)
(* directories come from the image only, createFile makes regular files.   *)
(***************************************************************************)
EXTENDS FileSystem

CONSTANTS root, d1, d2, f1, f2, a, b, none, u, v

Interchangeable == Permutations({f1, f2}) \cup Permutations({u, v})

First == BitmapSectors + 1

Sectors(contents) ==
  [s \in Sector |->
     [j \in 1 .. SectorSize |->
        IF s \in DOMAIN contents /\ j \in DOMAIN contents[s]
          THEN contents[s][j] ELSE Junk]]

\* "/a/", empty
FlatImage ==
  [live |-> {root, d1},
   parent_directory |-> [f \in Desc |-> root],
   name |-> [f \in Desc |-> IF f = d1 THEN a ELSE none],
   size |-> [f \in Desc |-> IF f = root THEN 1 ELSE 0],
   sectors |-> [f \in Desc |-> IF f = root THEN <<First>> ELSE <<>>],
   files |-> [f \in Desc |-> IF f = root THEN <<d1>> ELSE <<>>],
   disk |-> Sectors([s \in {First} |-> <<<<"head", a, TRUE, 0>>>>])]

\* "/a/a/", empty
NestedImage ==
  [live |-> {root, d1, d2},
   parent_directory |-> [f \in Desc |-> IF f = d2 THEN d1 ELSE root],
   name |-> [f \in Desc |-> IF f \in {d1, d2} THEN a ELSE none],
   size |-> [f \in Desc |-> CASE f = root -> 2 [] f = d1 -> 1 [] OTHER -> 0],
   sectors |-> [f \in Desc |-> CASE f = root -> <<First>> [] f = d1 -> <<First + 1>>
                                 [] OTHER -> <<>>],
   files |-> [f \in Desc |-> CASE f = root -> <<d1>> [] f = d1 -> <<d2>>
                               [] OTHER -> <<>>],
   disk |-> Sectors([s \in {First, First + 1} |->
                       IF s = First THEN <<<<"head", a, TRUE, 1>>, <<"ref", First + 1>>>>
                                ELSE <<<<"head", a, TRUE, 0>>>>])]

FlatDesc == {root, d1, f1, f2}
FlatDirs == {root, d1}
NestedDesc == {root, d1, d2, f1, f2}
NestedDirs == {root, d1, d2}
NamesA == {a}
NamesAB == {a, b}
DataUV == {u, v}
DataU == {u}
=============================================================================
