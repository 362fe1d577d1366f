-------------------------------- MODULE Builder --------------------------------
(***************************************************************************)
(* The builder of images (filesystem-builder.py) and, byte for byte, what  *)
(* FileSystem::mount and __Directory::load make of its images.  The host's *)
(* directory is a listing: a sequence of nodes, each a file with its bytes *)
(* or a directory with a listing of its own, in whatever order the host    *)
(* lists them.  FileSystem starts from what this module finds.             *)
(***************************************************************************)
EXTENDS Integers, SequencesExt

CONSTANTS
  SectorBytes,     \* 512
  DiskSectors      \* disk_size_sectors (1000)

ASSUME BuilderAssumption ==
  SectorBytes \in Nat /\ SectorBytes > 8 /\ DiskSectors \in Nat /\ DiskSectors > 1

Dot == 46
DSStore == <<Dot, 68, 83>>
Magic == <<221, 204, 187, 170>>

Little(n, width) == [k \in 1 .. width |-> (n \div 256 ^ (k - 1)) % 256]
Number(bytes) == FoldRight(LAMBDA byte, n : n * 256 + byte, bytes, 0)
SectorsFor(bytes) == (bytes + SectorBytes - 1) \div SectorBytes
Cut(bytes, from, to) == SubSeq(bytes, from, IF to < Len(bytes) THEN to ELSE Len(bytes))

-----------------------------------------------------------------------------
(* The builder.                                                            *)
createData(d) ==
  d.name \o <<0>> \o d.file_type \o <<0>> \o Little(d.size, 4) \o Little(d.flags, 2)
    \o FlattenSeq([j \in DOMAIN d.sectors |-> Little(d.sectors[j], 4)])

\* Up to the last dot, and behind it; without a dot everything is type.
namePart(filename) ==
  LET dots == {i \in DOMAIN filename : filename[i] = Dot}
  IN  IF dots = {} THEN <<>> ELSE SubSeq(filename, 1, Max(dots) - 1)
typePart(filename) ==
  LET dots == {i \in DOMAIN filename : filename[i] = Dot}
  IN  IF dots = {} THEN filename ELSE SubSeq(filename, Max(dots) + 1, Len(filename))

AppendAll(data, more) ==
  [data |-> data \o more, sectors |-> [j \in DOMAIN more |-> Len(data) + j - 1]]

addFile(data, bytes) ==
  AppendAll(data, [j \in 1 .. SectorsFor(Len(bytes)) |->
               Cut(bytes, (j - 1) * SectorBytes + 1, j * SectorBytes)])

\* What is left behind a whole sector loses its last byte.
RECURSIVE Parts(_)
Parts(directory_data) ==
  IF directory_data = <<>> THEN <<>>
  ELSE IF Len(directory_data) >= SectorBytes - 4
    THEN <<Cut(directory_data, 1, SectorBytes)>>
           \o Parts(SubSeq(directory_data, SectorBytes + 1, Len(directory_data) - 1))
    ELSE <<directory_data>>

DescriptorUnflagged(node, put, size) ==       \* mutant: setFlag left out
  [name |-> IF node.dir THEN node.filename ELSE namePart(node.filename),
   file_type |-> IF node.dir THEN <<>> ELSE typePart(node.filename),
   size |-> size, flags |-> 0, sectors |-> put.sectors]
Descriptor(node, put, size) ==
  [name |-> IF node.dir THEN node.filename ELSE namePart(node.filename),
   file_type |-> IF node.dir THEN <<>> ELSE typePart(node.filename),
   size |-> size, flags |-> IF node.dir THEN 1 ELSE 0, sectors |-> put.sectors]

\* directories: the bytes of all of them, for the statement below.
RECURSIVE addDirectory(_, _)
addDirectory(data, listing) ==
  LET Add(sofar, node) ==
        LET put == IF node.dir THEN addDirectory(sofar.data, node.items)
                               ELSE addFile(sofar.data, node.items)
            size == IF node.dir THEN put.size ELSE Len(node.items)
        IN  [data |-> put.data, bytes |-> sofar.bytes \o createData(Descriptor(node, put, size)),
             directories |-> sofar.directories \cup (IF node.dir THEN put.directories ELSE {})]
      all == FoldLeft(Add, [data |-> data, bytes |-> <<>>, directories |-> {}],
                      SelectSeq(listing, LAMBDA node : node.filename # DSStore))
      put == AppendAll(all.data, Parts(all.bytes))
  IN  [data |-> put.data, sectors |-> put.sectors, size |-> Len(all.bytes),
       directories |-> all.directories \cup {all.bytes}]

\* Sectors are padded with zeros; the bits come behind sector 0.
num_desc_sectors == (DiskSectors + 8 * SectorBytes - 1) \div (8 * SectorBytes)

build(listing) == addDirectory([s \in 1 .. 1 + num_desc_sectors |-> <<>>], listing)
main(listing) ==
  LET built == build(listing)
      used == Len(built.data)
      start == Little(built.size, 4)
                 \o FlattenSeq([j \in DOMAIN built.sectors |-> Little(built.sectors[j], 4)])
      first_sector == [i \in 1 .. SectorBytes |->
                         IF i <= Len(start) THEN start[i]
                         ELSE IF i > SectorBytes - 4 THEN Magic[i - (SectorBytes - 4)] ELSE 0]
      Bits(byte) == FoldLeft(LAMBDA n, b : n + (IF 8 * byte + b < used THEN 2 ^ b ELSE 0), 0,
                             <<0, 1, 2, 3, 4, 5, 6, 7>>)
      bitmap == [s \in 1 .. num_desc_sectors |->
                   [i \in 1 .. SectorBytes |-> Bits((s - 1) * SectorBytes + i - 1)]]
      Padded(sector) == [i \in 1 .. SectorBytes |-> IF i <= Len(sector) THEN sector[i] ELSE 0]
  IN  [s \in 0 .. DiskSectors - 1 |->
         IF s = 0 THEN first_sector
         ELSE IF s <= num_desc_sectors THEN bitmap[s]
         ELSE IF s < used THEN Padded(built.data[s + 1]) ELSE Padded(<<>>)]

-----------------------------------------------------------------------------
(* The kernel, on a disk.                                                  *)
readSectors(disk, sectors, size) ==
  [t \in 1 .. size |-> disk[sectors[(t - 1) \div SectorBytes + 1]][((t - 1) % SectorBytes) + 1]]

\* The text at i, and how many bytes it takes with its zero.
TextAt(bytes, i) ==
  LET end == CHOOSE e \in i .. Len(bytes) :
               bytes[e] = 0 /\ \A k \in i .. e - 1 : bytes[k] # 0
  IN  SubSeq(bytes, i, end - 1)
NumberAt(bytes, i, width) == Number(SubSeq(bytes, i, i + width - 1))

RECURSIVE load(_, _, _)
load(disk, bytes, i) ==
  IF i > Len(bytes) THEN <<>>
  ELSE LET name == TextAt(bytes, i)
           type == TextAt(bytes, i + Len(name) + 1)
           at == i + Len(name) + Len(type) + 2
           size == NumberAt(bytes, at, 4)
           dir == NumberAt(bytes, at + 4, 2) % 2 = 1
           sectors == [j \in 1 .. SectorsFor(size) |-> NumberAt(bytes, at + 2 + 4 * j, 4)]
           data == readSectors(disk, sectors, size)
       IN  <<[name |-> name, type |-> type, dir |-> dir, sectors |-> sectors,
              items |-> IF dir THEN load(disk, data, 1) ELSE data]>>
             \o load(disk, bytes, at + 6 + 4 * Len(sectors))

mount(disk) ==
  LET root_size == NumberAt(disk[0], 1, 4)
      root_sectors == [j \in 1 .. SectorsFor(root_size) |-> NumberAt(disk[0], 1 + 4 * j, 4)]
      num_sector_bits == ((DiskSectors - 1) \div 8) \div SectorBytes + 1
      Byte(b) == disk[1 + b \div SectorBytes][(b % SectorBytes) + 1]
  IN  [magic |-> SubSeq(disk[0], SectorBytes - 3, SectorBytes) = Magic,
       sector_bits |-> {s \in 0 .. DiskSectors - 1 : (Byte(s \div 8) \div 2 ^ (s % 8)) % 2 = 1},
       reserved |-> 0 .. num_sector_bits,
       sectors |-> root_sectors,
       files |-> load(disk, readSectors(disk, root_sectors, root_size), 1)]

-----------------------------------------------------------------------------
\* What the tree on the disk should be.
RECURSIVE Tree(_)
Tree(listing) ==
  LET listed == SelectSeq(listing, LAMBDA node : node.filename # DSStore)
  IN  [i \in DOMAIN listed |->
         [filename |-> listed[i].filename, dir |-> listed[i].dir,
          items |-> IF listed[i].dir THEN Tree(listed[i].items) ELSE listed[i].items]]

RECURSIVE Found(_)
Found(files) ==
  [i \in DOMAIN files |->
     [filename |-> files[i].name
                     \o (IF files[i].dir \/ files[i].name = <<>> THEN <<>> ELSE <<Dot>>)
                     \o files[i].type,
      dir |-> files[i].dir,
      items |-> IF files[i].dir THEN Found(files[i].items) ELSE files[i].items]]

RECURSIVE AllSectors(_)
AllSectors(files) ==
  FlattenSeq([i \in DOMAIN files |->
                files[i].sectors \o (IF files[i].dir THEN AllSectors(files[i].items) ELSE <<>>)])

\* What the builder can do: directories that lose nothing in Parts, or bytes
\* that are zero; room for the root before the magic number, and on the disk.
Buildable(listing) ==
  LET built == build(listing)
      Kept(bytes) == FlattenSeq(Parts(bytes))
  IN  /\ \A bytes \in built.directories :
           /\ Len(Parts(bytes)) = SectorsFor(Len(bytes))
           /\ \A i \in Len(Kept(bytes)) + 1 .. Len(bytes) : bytes[i] = 0
      /\ 4 + 4 * Len(built.sectors) <= SectorBytes - 4
      /\ Len(built.data) <= DiskSectors

\* What the kernel finds on the disk is the host's tree.
Mounts(listing) ==
  LET found == mount(main(listing))
      named == found.sectors \o AllSectors(found.files)
  IN  /\ found.magic
      /\ Found(found.files) = Tree(listing)
      /\ IsInjective(named) /\ Range(named) \cap found.reserved = {}
      /\ found.sector_bits = found.reserved \cup Range(named)
=============================================================================
