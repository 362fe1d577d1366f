-------------------------------- MODULE Paths --------------------------------
(***************************************************************************)
(* How kernel/filesystem/path.cpp takes a path apart.  A path is a         *)
(* sequence of characters; what its names are looked up in is in           *)
(* FileSystem.                                                             *)
(***************************************************************************)
EXTENDS Integers, SequencesExt

Slash == "/"

RECURSIVE CollapsePairs(_, _)
CollapsePairs(path, i) ==                     \* mutant: a third slash stays
  IF i >= Len(path) THEN path
  ELSE CollapsePairs(IF path[i] = Slash /\ path[i + 1] = Slash THEN RemoveAt(path, i) ELSE path, i + 1)
RECURSIVE Collapse(_, _)
Collapse(path, i) ==
  IF i >= Len(path) THEN path
  ELSE IF path[i] = Slash /\ path[i + 1] = Slash THEN Collapse(RemoveAt(path, i), i)
  ELSE Collapse(path, i + 1)

\* The names that openFile looks up, one in the other, and whether the last
\* must be a directory; of a path that is not empty.
openFile(path) ==
  LET once == Collapse(path, 1)
      relative == IF Head(once) = Slash THEN Tail(once) ELSE once
      directory == relative # <<>> /\ Last(relative) = Slash
      Walk(w, c) == IF c = Slash THEN [names |-> Append(w.names, w.curr_str), curr_str |-> <<>>]
                                 ELSE [w EXCEPT !.curr_str = Append(@, c)]
      walked == FoldLeft(Walk, [names |-> <<>>, curr_str |-> <<>>],
                         IF directory THEN Front(relative) ELSE relative)
  IN  [names |-> IF relative = <<>> THEN <<>> ELSE Append(walked.names, walked.curr_str),
       directory |-> directory]

\* The characters after the last slash.
RECURSIVE NameOf(_)
NameOf(path) ==
  IF path = <<>> \/ Last(path) = Slash THEN <<>> ELSE Append(NameOf(Front(path)), Last(path))

deleteFile(path) == NameOf(path)

\* createFile, and what moveFile does to the path to move to.
createFile(path) ==
  LET absolute == IF path[1] = Slash THEN path ELSE <<Slash>> \o path
      name == NameOf(absolute)
  IN  [parent |-> SubSeq(absolute, 1, Len(absolute) - Len(name)), name |-> name]

\* Where moveFile takes the descriptor out.
RECURSIVE UpToSlash(_)
UpToSlash(path) == IF Last(path) = Slash THEN path ELSE UpToSlash(Front(path))
moveFile(path) == UpToSlash(IF path[1] = Slash THEN path ELSE <<Slash>> \o path)

-----------------------------------------------------------------------------
\* What a path means: its names are the longest runs without a slash.
Components(path) ==
  LET I == DOMAIN path
      runs == {r \in I \X I :
                 /\ r[1] <= r[2] /\ \A k \in r[1] .. r[2] : path[k] # Slash
                 /\ r[1] - 1 \in I => path[r[1] - 1] = Slash
                 /\ r[2] + 1 \in I => path[r[2] + 1] = Slash}
      inOrder == SetToSortSeq(runs, LAMBDA p, q : p[1] < q[1])
  IN  [k \in DOMAIN inOrder |-> SubSeq(path, inOrder[k][1], inOrder[k][2])]

\* Every spelling of a path leads to the same file, and the three ways to cut
\* off its last name agree with the walk: the parent that createFile and
\* moveFile open and the name they use, or deleteFile uses, name the file that
\* openFile finds.  A path that ends in a slash has no last name for them.
Resolves(path) ==
  /\ openFile(path).names = Components(path)
  /\ openFile(path).directory = (Last(path) = Slash /\ Components(path) # <<>>)
  /\ Last(path) # Slash =>
       /\ openFile(createFile(path).parent).names = Front(Components(path))
       /\ openFile(moveFile(path)).names = Front(Components(path))
       /\ createFile(path).name = Last(Components(path))
       /\ deleteFile(path) = createFile(path).name
=============================================================================
