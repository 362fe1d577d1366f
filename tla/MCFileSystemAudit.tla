-------------------------- MODULE MCFileSystemAudit --------------------------
(* The instances of MCFileSystem, with the history of FileSystemAudit.      *)
EXTENDS MCFileSystem, FileSystemAudit

\* What a sector held before it was given back is never read again: it is
\* written before the file that takes it next is read.
CurrentContents ==
  <<tree, size, sectors, bits, superblock, bitmap, stack, halted, history,
    [s \in Owned \cap Sector |-> disk[s]]>>
=============================================================================
