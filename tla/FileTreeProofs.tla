---------------------------- MODULE FileTreeProofs ----------------------------
(***************************************************************************)
(* Theorems about FileSystem, for every number of descriptors, sectors and *)
(* names and every image a builder may have written.  First the sectors:   *)
(* each has one owner, and the counter counts them.  Then the tree: the    *)
(* lists of the directories and the parent_directory pointers agree, no    *)
(* call holds a descriptor that another has deleted, no sector leaks, and  *)
(* no entry reaches the disk before the bits of the sectors it names.      *)
(* Last, with the history of FileSystemAudit, the contents: what was       *)
(* written is what is read, and a full disk has changed nothing.           *)
(***************************************************************************)
EXTENDS FileSystemAudit, FiniteSetTheorems, SequenceTheorems, WellFoundedInduction, TLAPS

-----------------------------------------------------------------------------
(* The call stack.                                                         *)

LEMMA ActivationType ==
  ASSUME NEW label \in Label, NEW f \in Desc
  PROVE  Activation(label, f) \in Frame
BY DEF Activation, Frame, AllNames

LEMMA FrameUpdates ==
  ASSUME NEW frame \in Frame
  PROVE  /\ \A l \in Label : [frame EXCEPT !.pc = l] \in Frame
         /\ \A i \in Nat : [frame EXCEPT !.n = i] \in Frame
         /\ \A arr \in Seq(Token) : [frame EXCEPT !.array = arr] \in Frame
         /\ \A i \in Nat, f \in Desc : [frame EXCEPT !.n = i, !.to = f] \in Frame
         /\ \A f \in Desc : [frame EXCEPT !.to = f] \in Frame
         /\ \A i \in Nat, nm \in AllNames :
              [frame EXCEPT !.n = i, !.name = nm] \in Frame
         /\ frame.file \in Desc /\ frame.to \in Desc /\ frame.n \in Nat
         /\ frame.name \in AllNames /\ frame.array \in Seq(Token)
BY DEF Frame

LEMMA ResizeType ==
  ASSUME NEW f \in Desc, NEW new_size \in Nat
  PROVE  Resize(f, new_size) \in Frame
BY ActivationType, FrameUpdates DEF Resize, Label

LEMMA WriteType ==
  ASSUME NEW f \in Desc, NEW arr \in Seq(Token)
  PROVE  Write(f, arr) \in Frame
BY ActivationType, FrameUpdates DEF Write, Label

LEMMA FlushType ==
  ASSUME NEW f \in Desc
  PROVE  Flush(f) \in Frame
BY ActivationType DEF Flush, Label

LEMMA CallType ==
  ASSUME NEW frame \in Frame, NEW rest \in Seq(Frame)
  PROVE  Call(frame, rest) \in Seq(Frame)
BY DEF Call

LEMMA CallWriteType ==
  ASSUME NEW f \in Desc, NEW arr \in Seq(Token), NEW rest \in Seq(Frame)
  PROVE  CallWrite(f, arr, rest) \in Seq(Frame)
BY ResizeType, WriteType DEF CallWrite

LEMMA TopType ==
  ASSUME stack \in Seq(Frame), stack # <<>>
  PROVE  /\ Top \in Frame /\ stack[1] \in Frame /\ stack[1] = Top
         /\ \A frame \in Frame : [stack EXCEPT ![1] = frame] \in Seq(Frame)
         /\ Return \in Seq(Frame)
BY DEF Top, Return

LEMMA GotoType ==
  ASSUME stack \in Seq(Frame), stack # <<>>, NEW label \in Label
  PROVE  Goto(label) \in Seq(Frame)
<1>1. Goto(label) = [stack EXCEPT ![1] = [stack[1] EXCEPT !.pc = label]]
  BY DEF Goto
<1> QED BY <1>1, TopType, FrameUpdates

LEMMA NextType ==
  ASSUME stack \in Seq(Frame), stack # <<>>, NEW k \in Nat
  PROVE  [stack EXCEPT ![1].n = k] \in Seq(Frame)
<1>1. [stack EXCEPT ![1].n = k] = [stack EXCEPT ![1] = [stack[1] EXCEPT !.n = k]]
  OBVIOUS
<1> QED BY <1>1, TopType, FrameUpdates

-----------------------------------------------------------------------------
(* Serialize: the entries of the children, one behind the other.           *)

LEMMA EntryType ==
  ASSUME TypeOK, NEW f \in Desc
  PROVE  /\ Entry(f) \in Seq(Token)
         /\ Len(Entry(f)) = 1 + Len(sectors[f])
<1> DEFINE head == <<"head", name[f], f \in Dirs, size[f]>>
           refs == [j \in 1 .. Len(sectors[f]) |-> <<"ref", sectors[f][j]>>]
<1>1. head \in Token
  <2>1. \A dir \in BOOLEAN, nm \in AllNames, sz \in Nat :
          <<"head", nm, dir, sz>> \in {"head"} \X AllNames \X BOOLEAN \X Nat
    OBVIOUS
  <2>2. (f \in Dirs) \in BOOLEAN
    OBVIOUS
  <2>3. name[f] \in AllNames /\ size[f] \in Nat
    BY DEF TypeOK
  <2>4. head \in {"head"} \X AllNames \X BOOLEAN \X Nat
    BY <2>1, <2>2, <2>3, Zenon
  <2> QED BY <2>4, Zenon DEF Token
<1>2. sectors[f] \in Seq(Sector)
  BY DEF TypeOK
<1>3. \A s \in Sector : <<"ref", s>> \in Token
  BY DEF Token
<1>4. refs \in Seq(Token) /\ Len(refs) = Len(sectors[f])
  <2> HIDE DEF Token
  <2> QED BY <1>2, <1>3
<1>5. <<head>> \in Seq(Token) /\ Len(<<head>>) = 1
  BY <1>1
<1> HIDE DEF head, refs
<1>6. <<head>> \o refs \in Seq(Token) /\ Len(<<head>> \o refs) = 1 + Len(sectors[f])
  BY <1>2, <1>4, <1>5
<1> QED BY <1>6 DEF Entry, head, refs

Before(d, i) == {p \in (1 .. i - 1) \X (0 .. DiskSize) :
                   p[2] <= Len(sectors[files[d][p[1]]])}

LEMMA OffsetType ==
  ASSUME NEW d, NEW i \in Nat
  PROVE  IsFiniteSet(Before(d, i)) /\ Offset(d, i) \in Nat
<1>1. IsFiniteSet((1 .. i - 1) \X (0 .. DiskSize))
  <2>1. IsFiniteSet(1 .. i - 1) /\ IsFiniteSet(0 .. DiskSize)
    BY FS_Interval, SizesAssumption
  <2> QED BY <2>1, FS_Product
<1>2. IsFiniteSet(Before(d, i))
  BY <1>1, FS_Subset DEF Before
<1> QED BY <1>2, FS_CardinalityType DEF Offset, Before

LEMMA PairsOf ==
  ASSUME NEW i, NEW n \in Nat
  PROVE  IsFiniteSet({i} \X (0 .. n)) /\ Cardinality({i} \X (0 .. n)) = n + 1
<1>1. IsFiniteSet(0 .. n) /\ Cardinality(0 .. n) = n + 1
  BY FS_Interval
<1>2. IsFiniteSet({i}) /\ Cardinality({i}) = 1
  BY FS_Singleton
<1>3. IsFiniteSet({i} \X (0 .. n)) /\ Cardinality({i} \X (0 .. n)) = 1 * (n + 1)
  BY ONLY <1>1, <1>2, FS_Product
<1> QED BY <1>3

LEMMA ListedChild ==
  ASSUME TypeOK, NEW d \in Desc, NEW i \in DOMAIN files[d]
  PROVE  i \in Nat /\ i + 1 \in Nat /\ files[d][i] \in Desc
<1>1. files[d] \in Seq(Desc)
  BY DEF TypeOK
<1> QED BY ONLY <1>1, i \in DOMAIN files[d]

\* The entry of the i-th child takes at most one token more than sectors.
LEMMA OffsetStep ==
  ASSUME TypeOK, NEW d \in Desc, NEW i \in DOMAIN files[d]
  PROVE  Offset(d, i + 1) <= Offset(d, i) + 1 + Len(sectors[files[d][i]])
<1> DEFINE len == Len(sectors[files[d][i]])
           last == IF len < DiskSize THEN len ELSE DiskSize
           own == {i} \X (0 .. last)
<1>1. i \in Nat \ {0} /\ files[d][i] \in Desc
  BY DEF TypeOK
<1>2. len \in Nat /\ last \in Nat /\ last <= len
  BY <1>1, SizesAssumption DEF TypeOK
<1>3. IsFiniteSet(own) /\ Cardinality(own) = last + 1
  <2> HIDE DEF last
  <2> QED BY <1>2, PairsOf
<1>4. Before(d, i + 1) \subseteq Before(d, i) \cup own
  BY <1>1, <1>2, SizesAssumption DEF Before
<1>5. Before(d, i) \subseteq Before(d, i + 1)
  BY <1>1 DEF Before
<1> HIDE DEF own, last
<1>6. IsFiniteSet(Before(d, i)) /\ IsFiniteSet(Before(d, i) \cup own)
  BY <1>1, <1>3, OffsetType, FS_Union
<1>7. Cardinality(Before(d, i) \cup own) <= Cardinality(Before(d, i)) + last + 1
  <2>1. IsFiniteSet(Before(d, i) \cap own)
    BY <1>6, FS_Subset
  <2>2. Cardinality(Before(d, i) \cap own) \in Nat /\ Cardinality(Before(d, i)) \in Nat
    BY <1>6, <2>1, FS_CardinalityType
  <2>3. Cardinality(Before(d, i) \cup own)
          = Cardinality(Before(d, i)) + Cardinality(own) - Cardinality(Before(d, i) \cap own)
    BY <1>3, <1>6, FS_Union
  <2> QED BY <1>2, <1>3, <2>2, <2>3
<1>8. Cardinality(Before(d, i + 1)) <= Cardinality(Before(d, i) \cup own)
  BY <1>4, <1>6, FS_Subset
<1>9. Offset(d, i + 1) = Cardinality(Before(d, i + 1)) /\ Offset(d, i) = Cardinality(Before(d, i))
  BY DEF Offset, Before
<1>10. Offset(d, i + 1) \in Nat /\ Offset(d, i) \in Nat
  BY <1>1, OffsetType
<1>11. Cardinality(Before(d, i) \cup own) \in Nat
  BY <1>6, FS_CardinalityType
<1> QED BY <1>2, <1>7, <1>8, <1>9, <1>10, <1>11

\* The least-number principle, from the well-foundedness of <.
LEMMA DomainNat ==
  ASSUME NEW S, NEW list \in Seq(S)
  PROVE  \A i \in DOMAIN list : i \in Nat
OBVIOUS

LEMMA LeastNatural ==
  ASSUME NEW S \in SUBSET Nat, S # {}
  PROVE  \E m \in S : \A k \in S : m <= k
<1>1. PICK m \in S : \A k \in S : ~ (<<k, m>> \in OpToRel(<, Nat))
  BY NatLessThanWellFounded, WFMin, Zenon
<1>2. \A k \in S : ~ (k < m)
  <2>1. \A x, y \in Nat : x < y => <<x, y>> \in OpToRel(<, Nat)
    BY Zenon DEF OpToRel
  <2> QED BY <1>1, <2>1, Zenon
<1> QED BY <1>2

\* Every token of the serialization belongs to the entry of one child.
LEMMA SerializeCovers ==
  ASSUME TypeOK, NEW d \in Desc, NEW t \in 1 .. Offset(d, Len(files[d]) + 1)
  PROVE  \E i \in DOMAIN files[d] : Offset(d, i) < t /\ t <= Offset(d, i + 1)
<1> DEFINE S == {i \in Nat : i > 0 /\ t <= Offset(d, i)}
           len == Len(files[d])
<1>1. len \in Nat /\ DOMAIN files[d] = 1 .. len
  BY DEF TypeOK
<1>2. len + 1 \in S
  BY <1>1
<1>3. PICK m \in S : \A k \in S : m <= k
  <2> HIDE DEF S
  <2>1. S \in SUBSET Nat
    BY DEF S
  <2> QED BY <1>2, <2>1, LeastNatural
<1>4. m # 1
  <2>1. Before(d, 1) = {}
    BY DEF Before
  <2>2. Offset(d, 1) = 0
    BY <2>1, FS_EmptySet DEF Offset, Before
  <2> QED BY <2>2
<1>5. m - 1 \in DOMAIN files[d] /\ ~ (t <= Offset(d, m - 1))
  BY <1>1, <1>2, <1>3, <1>4
<1>6. Offset(d, m - 1) \in Nat
  BY <1>5, <1>1, OffsetType
<1>7. Offset(d, (m - 1) + 1) = Offset(d, m)
  OBVIOUS
<1>8. Offset(d, m - 1) < t /\ t <= Offset(d, (m - 1) + 1)
  <2>1. t \in Int
    BY <1>1, OffsetType
  <2> QED BY <1>5, <1>6, <1>7, <2>1
<1> QED BY <1>5, <1>8

LEMMA SerializeType ==
  ASSUME TypeOK, NEW d \in Desc
  PROVE  Serialize(d) \in Seq(Token)
<1> DEFINE len == Offset(d, Len(files[d]) + 1)
           child(t) == CHOOSE i \in DOMAIN files[d] :
                         Offset(d, i) < t /\ t <= Offset(d, i + 1)
           token(t) == Entry(files[d][child(t)])[t - Offset(d, child(t))]
<1>1. len \in Nat
  <2>1. Len(files[d]) + 1 \in Nat
    BY DEF TypeOK
  <2> QED BY <2>1, OffsetType
<1>2. ASSUME NEW t \in 1 .. len
      PROVE  token(t) \in Token
  <2> DEFINE i == child(t)
             f == files[d][i]
  <2>1. i \in DOMAIN files[d] /\ Offset(d, i) < t /\ t <= Offset(d, i + 1)
    BY SerializeCovers
  <2> HIDE DEF i
  <2>2. i \in Nat /\ f \in Desc
    BY <2>1, ListedChild DEF f
  <2>3. Offset(d, i) \in Nat /\ Offset(d, i + 1) \in Nat
    BY <2>2, OffsetType
  <2>4. Offset(d, i + 1) <= Offset(d, i) + 1 + Len(sectors[f])
    BY <2>1, OffsetStep
  <2>5. Len(sectors[f]) \in Nat
    BY <2>2 DEF TypeOK
  <2>6. t - Offset(d, i) \in 1 .. 1 + Len(sectors[f])
    BY <1>1, <2>1, <2>3, <2>4, <2>5
  <2>7. Entry(f) \in Seq(Token) /\ Len(Entry(f)) = 1 + Len(sectors[f])
    BY <2>2, EntryType
  <2>8. Entry(f)[t - Offset(d, i)] \in Token
    BY <2>6, <2>7
  <2> QED BY <2>8 DEF i
<1>3. Serialize(d) = [t \in 1 .. len |-> token(t)]
  BY DEF Serialize
<1> HIDE DEF token, len
<1> QED BY <1>1, <1>2, <1>3

LEMMA ReadType ==
  ASSUME TypeOK, NEW f \in Desc
  PROVE  Read(f) \in Seq(Token)
<1> DEFINE k(t) == ((t - 1) \div SectorSize) + 1
           token(t) == IF k(t) \in DOMAIN sectors[f]
                         THEN disk[sectors[f][k(t)]][((t - 1) % SectorSize) + 1]
                         ELSE Junk
<1>1. size[f] \in Nat
  BY DEF TypeOK
<1>2. Junk \in Token
  BY DEF Token
<1>3. ASSUME NEW t \in 1 .. size[f]
      PROVE  token(t) \in Token
  <2>1. ((t - 1) % SectorSize) + 1 \in 1 .. SectorSize
    BY <1>1, SizesAssumption
  <2>2. CASE k(t) \in DOMAIN sectors[f]
    <3> DEFINE s == sectors[f][k(t)]
    <3>1. s \in Sector
      <4> HIDE DEF k
      <4> QED BY <2>2 DEF TypeOK
    <3> HIDE DEF s
    <3>2. disk[s] \in Block
      BY <3>1 DEF TypeOK
    <3>3. disk[s][((t - 1) % SectorSize) + 1] \in Token
      BY <2>1, <3>2 DEF Block
    <3> QED BY <2>2, <3>3 DEF s
  <2>3. CASE k(t) \notin DOMAIN sectors[f]
    BY <1>2, <2>3
  <2> QED BY <2>2, <2>3
<1>4. Read(f) = [t \in 1 .. size[f] |-> token(t)]
  BY DEF Read
<1> HIDE DEF token
<1> QED BY <1>1, <1>3, <1>4

LEMMA EraseType ==
  ASSUME NEW S, NEW seq \in Seq(S), NEW index \in Nat
  PROVE  Erase(seq, index) \in Seq(S)
BY DEF Erase

LEMMA SectorCountType ==
  ASSUME NEW n \in Nat
  PROVE  SectorCount(n) \in Nat
BY SizesAssumption DEF SectorCount

LEMMA DiscardType ==
  ASSUME TypeOK, NEW d \in Desc, NEW index \in DOMAIN files[d]
  PROVE  Discard(d, index) \in Frame
<1>1. index \in Nat /\ files[d][index] \in Desc
  BY DEF TypeOK
<1>2. Activation("remove", d) \in Frame
  BY ActivationType DEF Label
<1> QED BY <1>1, <1>2, FrameUpdates DEF Discard

LEMMA DeleteType ==
  ASSUME NEW d \in Desc, NEW nm \in AllNames
  PROVE  Delete(d, nm) \in Frame
<1>1. Activation("delete", d) \in Frame
  BY ActivationType DEF Label
<1> QED BY <1>1, FrameUpdates DEF Delete

LEMMA CopyType ==
  ASSUME NEW d \in Desc, NEW e \in Desc
  PROVE  Copy(d, e) \in Frame
<1>1. Activation("copy", d) \in Frame
  BY ActivationType DEF Label
<1> QED BY <1>1, FrameUpdates DEF Copy

-----------------------------------------------------------------------------
(* The bits of sectors.                                                    *)

LEMMA SectorsFinite ==
  ASSUME NEW S \in SUBSET Sector
  PROVE  IsFiniteSet(S) /\ Cardinality(S) \in Nat
<1>1. IsFiniteSet(Sector)
  BY SizesAssumption, FS_Interval DEF Sector
<1>2. IsFiniteSet(S)
  BY <1>1, FS_Subset
<1> QED BY <1>2, FS_CardinalityType

LEMMA SetBitsType ==
  ASSUME TypeOK, NEW S \in SUBSET Sector, SetBits(S)
  PROVE  sector_bits' \in SUBSET Sector /\ sectors_taken' \in Int
<1>1. S \ sector_bits \in SUBSET Sector
  OBVIOUS
<1>2. Cardinality(S \ sector_bits) \in Nat
  BY <1>1, SectorsFinite
<1> QED BY <1>2 DEF SetBits, TypeOK

LEMMA ClearBitsType ==
  ASSUME TypeOK, NEW S \in SUBSET Sector, ClearBits(S)
  PROVE  sector_bits' \in SUBSET Sector /\ sectors_taken' \in Int
<1>1. S \cap sector_bits \in SUBSET Sector
  OBVIOUS
<1>2. Cardinality(S \cap sector_bits) \in Nat
  BY <1>1, SectorsFinite
<1> QED BY <1>2 DEF ClearBits, TypeOK

LEMMA DroppedType ==
  ASSUME TypeOK, NEW f \in Desc, NEW count \in Nat
  PROVE  Dropped(f, count) \in SUBSET Sector
BY DEF Dropped, TypeOK

-----------------------------------------------------------------------------
(* Every variable keeps its type.                                          *)

LEMMA InitType == Init => TypeOK
<1> SUFFICES ASSUME Init PROVE TypeOK
  OBVIOUS
<1>1. Image.sectors \in [Desc -> Seq(Sector)]
  <2>1. \A seq \in Seq(Sector \ Reserved) : seq \in Seq(Sector)
    OBVIOUS
  <2> QED BY <2>1, ImageAssumption
<1>2. Reserved \subseteq Sector
  BY SizesAssumption DEF Reserved, Sector
<1>3. Owned \subseteq Sector
  BY <1>1 DEF Init, Owned, Range
<1>4. sector_bits \in SUBSET Sector /\ sectors_taken \in Int
  <2>1. sector_bits \in SUBSET Sector
    BY <1>2, <1>3 DEF Init
  <2> QED BY <2>1, SectorsFinite DEF Init
<1>5. superblock \in [size : Nat, sectors : Seq(Sector), magic : BOOLEAN]
  BY <1>1, ImageAssumption, TreeAssumption DEF Init
<1>6. stack \in Seq(Frame)
  BY DEF Init
<1> QED BY <1>1, <1>4, <1>5, <1>6, ImageAssumption DEF Init, TypeOK

LEMMA StepType == TypeOK /\ Step => TypeOK'
<1> SUFFICES ASSUME TypeOK, Step PROVE TypeOK'
  OBVIOUS
<1> USE DEF tree, bits, ondisk
<1>1. stack \in Seq(Frame) /\ stack # <<>>
  <2>1. \A label : At(label) => stack # <<>>
    BY DEF At
  <2> QED BY <2>1 DEF TypeOK, Step, WriteSector, WriteDone, ResizeSame,
       ResizeKeep, ResizeShrink, ResizeGrow, GrowSector, GrowDone, DiskFull,
       ResizeParent, ResizeBits, FlushMetadata, RemoveChild, RemoveErase,
       DeleteNext, CopyData
<1>2. /\ Top \in Frame /\ stack[1] = Top /\ Return \in Seq(Frame)
      /\ Top.file \in Desc /\ Top.to \in Desc /\ Top.n \in Nat
      /\ Top.array \in Seq(Token)
  BY <1>1, TopType, FrameUpdates
<1>3. \A label \in Label : Goto(label) \in Seq(Frame)
  BY <1>1, GotoType
<1>4. CASE WriteSector
  <2> DEFINE f == Top.file
             base == Top.n * SectorSize
             block == [j \in 1 .. SectorSize |->
                         IF base + j <= Min({size[f], Len(Top.array)})
                           THEN Top.array[base + j] ELSE Junk]
  <2>1. block \in Block
    <3>1. ASSUME NEW j \in 1 .. SectorSize,
                 base + j <= Min({size[f], Len(Top.array)})
          PROVE  Top.array[base + j] \in Token
      <4>1. Min({size[f], Len(Top.array)}) <= Len(Top.array)
        <5>1. size[f] \in Nat /\ Len(Top.array) \in Nat
          BY <1>2 DEF TypeOK
        <5> QED BY <5>1 DEF Min
      <4>2. base \in Nat /\ Len(Top.array) \in Nat /\ size[f] \in Nat
        <5>1. Top.n \in Nat /\ Len(Top.array) \in Nat
          BY <1>2
        <5>2. base \in Nat
          BY ONLY <5>1, SizesAssumption
        <5>3. size[f] \in Nat
          BY <1>2 DEF TypeOK
        <5> QED BY ONLY <5>1, <5>2, <5>3
      <4>3. Min({size[f], Len(Top.array)}) \in Nat
        BY <4>2 DEF Min
      <4>4. base + j \in 1 .. Len(Top.array)
        <5> HIDE DEF base
        <5> QED BY <3>1, <4>1, <4>2, <4>3, SizesAssumption
      <4> QED BY <1>2, <4>4
    <3>2. Junk \in Token
      BY DEF Token
    <3> QED BY <3>1, <3>2 DEF Block
  <2>2. disk' \in [Sector -> Block]
    <3> HIDE DEF block
    <3>1. disk' = [disk EXCEPT ![sectors[f][Top.n + 1]] = block]
      BY <1>4 DEF WriteSector, block
    <3> QED BY <2>1, <3>1 DEF TypeOK
  <2>3. stack' \in Seq(Frame)
    <3>1. stack' = [stack EXCEPT ![1].n = stack[1].n + 1]
      BY <1>4 DEF WriteSector
    <3>2. stack' = [stack EXCEPT ![1] = [stack[1] EXCEPT !.n = stack[1].n + 1]]
      BY <3>1
    <3>3. [stack[1] EXCEPT !.n = stack[1].n + 1] \in Frame
      <4>1. stack[1] \in Frame /\ stack[1].n + 1 \in Nat
        BY <1>2
      <4> QED BY <4>1, FrameUpdates
    <3> QED BY <1>1, <3>2, <3>3, TopType
  <2> QED BY <1>4, <2>2, <2>3 DEF WriteSector, TypeOK
<1>5. CASE WriteDone
  BY <1>2, <1>5 DEF WriteDone, TypeOK
<1>6. CASE ResizeSame
  BY <1>2, <1>6 DEF ResizeSame, TypeOK
<1>7. CASE ResizeKeep
  <2>1. stack' \in Seq(Frame)
    BY <1>3, <1>7 DEF ResizeKeep, Label
  <2>2. size' \in [Desc -> Nat]
    BY <1>2, <1>7 DEF ResizeKeep, TypeOK
  <2> QED BY <1>7, <2>1, <2>2 DEF ResizeKeep, TypeOK
<1>8. CASE ResizeShrink
  <2> DEFINE f == Top.file
             count == SectorCount(Top.n)
  <2>1. stack' \in Seq(Frame)
    BY <1>3, <1>8 DEF ResizeShrink, Label
  <2>2. size' \in [Desc -> Nat]
    BY <1>2, <1>8 DEF ResizeShrink, TypeOK
  <2>3. count \in Nat
    BY <1>2, SectorCountType
  <2>4. sector_bits' \in SUBSET Sector /\ sectors_taken' \in Int
    <3>1. Dropped(f, count) \in SUBSET Sector
      BY <1>2, <2>3, DroppedType
    <3>2. ClearBits(Dropped(f, count))
      BY <1>8 DEF ResizeShrink
    <3> QED BY <3>1, <3>2, ClearBitsType
  <2>5. sectors' \in [Desc -> Seq(Sector)]
    <3>1. sectors' = [sectors EXCEPT ![f] = IF Len(sectors[f]) > count
                        THEN SubSeq(sectors[f], 1, count) ELSE sectors[f]]
      BY <1>8 DEF ResizeShrink
    <3>2. sectors[f] \in Seq(Sector)
      BY <1>2 DEF TypeOK
    <3> HIDE DEF count
    <3>3. Len(sectors[f]) > count => SubSeq(sectors[f], 1, count) \in Seq(Sector)
      BY <2>3, <3>2
    <3> QED BY <3>1, <3>2, <3>3 DEF TypeOK
  <2> QED BY <1>8, <2>1, <2>2, <2>4, <2>5 DEF ResizeShrink, TypeOK
<1>9. CASE ResizeGrow
  <2>1. stack' \in Seq(Frame)
    BY <1>3, <1>9 DEF ResizeGrow, Label
  <2>2. size' \in [Desc -> Nat]
    BY <1>2, <1>9 DEF ResizeGrow, TypeOK
  <2> QED BY <1>9, <2>1, <2>2 DEF ResizeGrow, TypeOK
<1>10. CASE GrowSector
  <2> PICK s \in Free : /\ SetBits({s})
                        /\ sectors' = [sectors EXCEPT ![Top.file] = Append(@, s)]
    BY <1>10 DEF GrowSector
  <2>1. s \in Sector
    BY DEF Free, Searched
  <2>2. sector_bits' \in SUBSET Sector /\ sectors_taken' \in Int
    BY <2>1, SetBitsType
  <2>3. sectors' \in [Desc -> Seq(Sector)]
    <3>1. sectors[Top.file] \in Seq(Sector)
      BY <1>2 DEF TypeOK
    <3>2. Append(sectors[Top.file], s) \in Seq(Sector)
      BY <2>1, <3>1
    <3> QED BY <3>2 DEF TypeOK
  <2> QED BY <1>10, <2>2, <2>3 DEF GrowSector, TypeOK
<1>11. CASE GrowDone
  BY <1>3, <1>11 DEF GrowDone, TypeOK, Label
<1>12. CASE DiskFull
  BY <1>12 DEF DiskFull, TypeOK
<1>13. CASE ResizeParent
  <2>1. stack' \in Seq(Frame)
    <3>1. Goto("bits") \in Seq(Frame)
      BY <1>3 DEF Label
    <3>2. Flush(parent_directory[Top.file]) \in Frame
      BY <1>2, FlushType DEF TypeOK
    <3> QED BY <1>13, <3>1, <3>2, CallType DEF ResizeParent
  <2>2. superblock' \in [size : Nat, sectors : Seq(Sector), magic : BOOLEAN]
    <3>1. size[Root] \in Nat /\ sectors[Root] \in Seq(Sector)
      BY TreeAssumption DEF TypeOK
    <3>2. RootMetadata \in [size : Nat, sectors : Seq(Sector), magic : BOOLEAN]
      <4>1. (superblock.magic /\ Len(sectors[Root]) <= RootRefs) \in BOOLEAN
        OBVIOUS
      <4> QED BY <3>1, <4>1, Zenon DEF RootMetadata
    <3> QED BY <1>13, <3>2 DEF ResizeParent, TypeOK
  <2> QED BY <1>13, <2>1, <2>2 DEF ResizeParent, TypeOK
<1>14. CASE ResizeBits
  BY <1>2, <1>14 DEF ResizeBits, TypeOK
<1>15. CASE FlushMetadata
  <2>1. Serialize(Top.file) \in Seq(Token)
    BY <1>2, SerializeType
  <2>2. stack' \in Seq(Frame)
    BY <1>2, <1>15, <2>1, CallWriteType DEF FlushMetadata
  <2> QED BY <1>15, <2>2 DEF FlushMetadata, TypeOK
<1>16. CASE RemoveChild
  <2>1. stack' \in Seq(Frame)
    <3>1. CASE Top.to \in Dirs /\ files[Top.to] # <<>>
      <4>1. 1 \in DOMAIN files[Top.to]
        BY <1>2, <3>1 DEF TypeOK
      <4>2. Discard(Top.to, 1) \in Frame
        BY <1>2, <4>1, DiscardType
      <4> QED BY <1>1, <1>16, <3>1, <4>2, CallType DEF RemoveChild
    <3>2. CASE ~ (Top.to \in Dirs /\ files[Top.to] # <<>>)
      <4>1. Goto("erase") \in Seq(Frame)
        BY <1>3 DEF Label
      <4>2. Resize(Top.to, 0) \in Frame
        BY <1>2, ResizeType
      <4> QED BY <1>16, <3>2, <4>1, <4>2, CallType DEF RemoveChild
    <3> QED BY <3>1, <3>2
  <2> QED BY <1>16, <2>1 DEF RemoveChild, TypeOK
<1>17. CASE RemoveErase
  <2> DEFINE d == Top.file
             f == files[d][Top.n]
  <2>1. stack' \in Seq(Frame)
    <3>1. Flush(d) \in Frame
      BY <1>2, FlushType
    <3> QED BY <1>2, <1>17, <3>1, CallType DEF RemoveErase
  <2>2. files' \in [Desc -> Seq(Desc)]
    <3>1. Erase(files[d], Top.n) \in Seq(Desc)
      BY <1>2, EraseType DEF TypeOK
    <3> DEFINE erased == [files EXCEPT ![d] = Erase(files[d], Top.n)]
    <3>2. erased \in [Desc -> Seq(Desc)]
      BY <3>1 DEF TypeOK
    <3>3. files' = [erased EXCEPT ![f] = <<>>]
      BY <1>17 DEF RemoveErase
    <3>4. <<>> \in Seq(Desc)
      OBVIOUS
    <3> HIDE DEF erased, f
    <3> QED BY <3>2, <3>3, <3>4
  <2>3. live' \in SUBSET Desc /\ size' \in [Desc -> Nat]
    BY <1>17 DEF RemoveErase, TypeOK
  <2>4. parent_directory' \in [Desc -> Desc]
    BY <1>17, TreeAssumption DEF RemoveErase, TypeOK
  <2>5. name' \in [Desc -> AllNames]
    <3>1. NoName \in AllNames
      BY DEF AllNames
    <3> QED BY <1>17, <3>1 DEF RemoveErase, TypeOK
  <2>6. sectors' \in [Desc -> Seq(Sector)]
    <3>1. <<>> \in Seq(Sector)
      OBVIOUS
    <3> QED BY <1>17, <3>1 DEF RemoveErase, TypeOK
  <2> QED BY <1>17, <2>1, <2>2, <2>3, <2>4, <2>5, <2>6 DEF RemoveErase, TypeOK
<1>18. CASE DeleteNext
  <2> DEFINE d == Top.file
             matches == {i \in DOMAIN files[d] : i >= Top.n /\ name[files[d][i]] = Top.name}
  <2>0. \A i \in DOMAIN files[d] : i \in Nat
    <3>1. files[d] \in Seq(Desc)
      BY <1>2 DEF TypeOK
    <3> HIDE DEF d
    <3> QED BY <3>1, DomainNat
  <2>1. stack' \in Seq(Frame)
    <3>1. CASE matches = {}
      BY <1>2, <1>18, <3>1 DEF DeleteNext
    <3>2. CASE matches # {}
      <4>1. Min(matches) \in matches
        <5>1. matches \in SUBSET Nat
          BY <2>0
        <5> HIDE DEF matches
        <5>2. \E m \in matches : \A k \in matches : m <= k
          BY <3>2, <5>1, LeastNatural
        <5> QED BY <5>2 DEF Min
      <4>2. Min(matches) \in DOMAIN files[d] /\ Min(matches) \in Nat
        <5>1. \A i \in matches : i \in DOMAIN files[d] /\ i \in Nat
          BY <2>0
        <5> HIDE DEF matches
        <5> QED BY <4>1, <5>1
      <4>3. Discard(d, Min(matches)) \in Frame
        BY <1>2, <4>2, DiscardType
      <4>4. [stack EXCEPT ![1].n = Min(matches) + 1] \in Seq(Frame)
        BY <1>1, <4>2, NextType
      <4> QED BY <1>18, <3>2, <4>3, <4>4, CallType DEF DeleteNext
    <3> QED BY <3>1, <3>2
  <2> QED BY <1>18, <2>1 DEF DeleteNext, TypeOK
<1>19. CASE CopyData
  <2>1. Read(Top.file) \in Seq(Token)
    BY <1>2, ReadType
  <2>2. stack' \in Seq(Frame)
    BY <1>2, <1>19, <2>1, CallWriteType DEF CopyData
  <2> QED BY <1>19, <2>2 DEF CopyData, TypeOK
<1> QED BY <1>4, <1>5, <1>6, <1>7, <1>8, <1>9, <1>10, <1>11, <1>12, <1>13, <1>14,
       <1>15, <1>16, <1>17, <1>18, <1>19 DEF Step

LEMMA AddFileType ==
  ASSUME TypeOK, NEW d \in Desc, NEW nm \in Names, NEW f \in Unused, AddFile(d, nm, f)
  PROVE  /\ live' \in SUBSET Desc
         /\ parent_directory' \in [Desc -> Desc]
         /\ name' \in [Desc -> AllNames]
         /\ files' \in [Desc -> Seq(Desc)]
<1>1. f \in Desc /\ nm \in AllNames
  BY DEF Unused, AllNames
<1>2. Append(files[d], f) \in Seq(Desc)
  BY <1>1 DEF TypeOK
<1> QED BY <1>1, <1>2 DEF AddFile, TypeOK

LEMMA RequestType == TypeOK /\ Request => TypeOK'
<1> SUFFICES ASSUME TypeOK, Request PROVE TypeOK'
  OBVIOUS
<1> USE DEF tree, bits, ondisk
<1>1. OpenDirs \subseteq Desc /\ OpenFiles \subseteq Desc
  BY TreeAssumption DEF OpenDirs, OpenFiles, TypeOK
<1>2. \A frame \in Frame : <<frame>> \in Seq(Frame)
  OBVIOUS
<1>3. ASSUME NEW d \in OpenDirs, NEW nm \in Names, CreateFile(d, nm)
      PROVE  TypeOK'
  <2>1. PICK f \in Unused : AddFile(d, nm, f)
    BY <1>3 DEF CreateFile
  <2>2. d \in Desc
    BY <1>1
  <2>3. stack' \in Seq(Frame)
    BY <1>2, <1>3, <2>2, FlushType DEF CreateFile
  <2>4. /\ live' \in SUBSET Desc /\ parent_directory' \in [Desc -> Desc]
        /\ name' \in [Desc -> AllNames] /\ files' \in [Desc -> Seq(Desc)]
    BY <2>1, <2>2, AddFileType
  <2> QED BY <1>3, <2>3, <2>4 DEF CreateFile, TypeOK
<1>4. ASSUME NEW f \in OpenFiles, NEW n \in 0 .. MaxFile, NEW v \in Data,
             WriteFile(f, [i \in 1 .. n |-> <<"data", v>>])
      PROVE  TypeOK'
  <2>1. <<"data", v>> \in Token
    BY DEF Token
  <2>2. [i \in 1 .. n |-> <<"data", v>>] \in Seq(Token)
    <3>1. n \in Nat
      BY SizesAssumption
    <3> DEFINE tok == <<"data", v>>
    <3>2. tok \in Token
      BY <2>1
    <3> HIDE DEF tok
    <3>3. [i \in 1 .. n |-> tok] \in Seq(Token)
      BY <3>1, <3>2
    <3> QED BY <3>3 DEF tok
  <2>3. stack' \in Seq(Frame)
    <3>1. <<>> \in Seq(Frame)
      OBVIOUS
    <3> QED BY <1>1, <1>4, <2>2, <3>1, CallWriteType DEF WriteFile
  <2> QED BY <1>4, <2>3 DEF WriteFile, TypeOK
<1>5. ASSUME NEW f \in OpenFiles, DeleteFile(f)
      PROVE  TypeOK'
  <2>1. parent_directory[f] \in Desc /\ name[f] \in AllNames
    BY <1>1 DEF TypeOK
  <2>2. stack' \in Seq(Frame)
    BY <1>2, <1>5, <2>1, DeleteType DEF DeleteFile
  <2> QED BY <1>5, <2>2 DEF DeleteFile, TypeOK
<1>6. ASSUME NEW d \in OpenDirs, NEW index \in DOMAIN files[d], RemoveFile(d, index)
      PROVE  TypeOK'
  <2>1. stack' \in Seq(Frame)
    BY <1>1, <1>2, <1>6, DiscardType DEF RemoveFile
  <2> QED BY <1>6, <2>1 DEF RemoveFile, TypeOK
<1>7. ASSUME NEW original \in OpenFiles, NEW d \in OpenDirs, NEW nm \in Names,
             CopyFile(original, d, nm)
      PROVE  TypeOK'
  <2>1. d \in Desc /\ original \in Desc
    BY <1>1
  <2>2. ASSUME NEW copy \in Find(d, nm), stack' = <<Copy(original, copy)>>, UNCHANGED tree
        PROVE  TypeOK'
    <3>1. copy \in Desc
      BY <2>1 DEF Find, TypeOK
    <3>2. stack' \in Seq(Frame)
      BY <1>2, <2>1, <2>2, <3>1, CopyType
    <3> QED BY <1>7, <2>2, <3>2 DEF CopyFile, TypeOK
  <2>3. ASSUME NEW copy \in Unused, AddFile(d, nm, copy),
               stack' = <<Flush(d), Copy(original, copy)>>
        PROVE  TypeOK'
    <3>1. copy \in Desc
      BY DEF Unused
    <3>2. stack' \in Seq(Frame)
      <4>1. Flush(d) \in Frame /\ Copy(original, copy) \in Frame
        BY <2>1, <3>1, FlushType, CopyType
      <4> QED BY <2>3, <4>1
    <3>3. /\ live' \in SUBSET Desc /\ parent_directory' \in [Desc -> Desc]
          /\ name' \in [Desc -> AllNames] /\ files' \in [Desc -> Seq(Desc)]
      BY <2>1, <2>3, AddFileType
    <3> QED BY <1>7, <3>2, <3>3 DEF CopyFile, TypeOK
  <2> QED BY <1>7, <2>2, <2>3 DEF CopyFile
<1>8. ASSUME NEW d \in OpenDirs, NEW e \in OpenDirs, NEW nm \in Names,
             NEW index \in DOMAIN files[d], MoveFile(d, index, e, nm)
      PROVE  TypeOK'
  <2> DEFINE f == files[d][index]
             erased == [files EXCEPT ![d] = Erase(files[d], index)]
  <2>1. d \in Desc /\ e \in Desc /\ nm \in AllNames
    BY <1>1 DEF AllNames
  <2>2. f \in Desc /\ index \in Nat
    BY <2>1, ListedChild
  <2>3. files' \in [Desc -> Seq(Desc)]
    <3>1. Erase(files[d], index) \in Seq(Desc)
      BY <2>1, <2>2, EraseType DEF TypeOK
    <3>2. erased \in [Desc -> Seq(Desc)]
      BY <3>1 DEF TypeOK
    <3>3. files' = [erased EXCEPT ![e] = Append(erased[e], f)]
      BY <1>8 DEF MoveFile
    <3> HIDE DEF erased, f
    <3>4. Append(erased[e], f) \in Seq(Desc)
      BY <2>1, <2>2, <3>2
    <3> QED BY <3>2, <3>3, <3>4
  <2>4. parent_directory' \in [Desc -> Desc] /\ name' \in [Desc -> AllNames]
    BY <1>8, <2>1, <2>2 DEF MoveFile, TypeOK
  <2>5. stack' \in Seq(Frame)
    <3>1. Flush(d) \in Frame /\ Flush(e) \in Frame
      BY <2>1, FlushType
    <3> QED BY <1>8, <3>1 DEF MoveFile
  <2> QED BY <1>8, <2>3, <2>4, <2>5 DEF MoveFile, TypeOK
<1> QED BY <1>3, <1>4, <1>5, <1>6, <1>7, <1>8 DEF Request

LEMMA StutterType == TypeOK /\ UNCHANGED vars => TypeOK'
BY DEF TypeOK, vars

\* Every variable of the file system keeps its type in every call: the frames
\* on the stack, the arrays the flushes serialize and the blocks written.
THEOREM TypeCorrect == Spec => []TypeOK
<1>1. Init => TypeOK
  BY InitType
<1>2. TypeOK /\ [Next]_vars => TypeOK'
  BY RequestType, StepType, StutterType DEF Next
<1> QED BY <1>1, <1>2, PTL DEF Spec

-----------------------------------------------------------------------------
(* No sector belongs to two files.  The invariant is inductive together    *)
(* with this: a sector that belongs to anything has its bit set, so that   *)
(* getFreeSector cannot hand it out.                                       *)
OwnedAreTaken == Reserved \cup Owned \subseteq sector_bits

SectorsInv == SectorsExclusive /\ OwnedAreTaken

LEMMA InitSectors == Init => SectorsInv
<1> SUFFICES ASSUME Init PROVE SectorsInv
  OBVIOUS
<1>1. sectors = Image.sectors
  BY DEF Init
<1>2. Owned \cap Reserved = {}
  <2>1. \A f \in Desc : Image.sectors[f] \in Seq(Sector \ Reserved)
    BY ImageAssumption
  <2>2. ASSUME NEW f \in Desc
        PROVE  Range(Image.sectors[f]) \cap Reserved = {}
    BY <2>1 DEF Range
  <2> QED BY <1>1, <2>2 DEF Owned
<1>3. OwnedAreTaken
  BY DEF Init, OwnedAreTaken
<1> QED BY <1>1, <1>2, <1>3, ImageAssumption DEF SectorsInv, SectorsExclusive

LEMMA SameSectors ==
  ASSUME SectorsInv, UNCHANGED <<sectors, sector_bits>>
  PROVE  SectorsInv'
BY DEF SectorsInv, SectorsExclusive, OwnedAreTaken, Owned, Range

\* Taking a sector whose bit is clear.
LEMMA TakeSector ==
  ASSUME TypeOK, SectorsInv, NEW f \in Desc, NEW s \in Sector, s \notin sector_bits,
         sectors' = [sectors EXCEPT ![f] = Append(@, s)],
         sector_bits' = sector_bits \cup {s}
  PROVE  SectorsInv'
<1>1. \A g \in Desc : sectors[g] \in Seq(Sector)
  BY DEF TypeOK
<1>2. \A g \in Desc : g # f => sectors'[g] = sectors[g]
  BY DEF TypeOK
<1>3. sectors'[f] = Append(sectors[f], s)
  BY DEF TypeOK
<1>4. Range(sectors'[f]) = Range(sectors[f]) \cup {s}
  BY <1>1, <1>3 DEF Range
<1>5. \A g \in Desc : s \notin Range(sectors[g])
  BY DEF SectorsInv, OwnedAreTaken, Owned
<1>6. s \notin Reserved
  BY DEF SectorsInv, OwnedAreTaken
<1>7. Owned' = Owned \cup {s}
  BY <1>2, <1>4 DEF Owned
<1>8. OwnedAreTaken'
  BY <1>7 DEF SectorsInv, OwnedAreTaken, Reserved
<1>9. Owned' \cap Reserved = {}
  BY <1>6, <1>7 DEF SectorsInv, SectorsExclusive
<1>10. ASSUME NEW g \in Desc, NEW i \in DOMAIN sectors'[g], NEW j \in DOMAIN sectors'[g],
              sectors'[g][i] = sectors'[g][j]
       PROVE  i = j
  <2>1. CASE g # f
    BY <1>2, <1>10, <2>1 DEF SectorsInv, SectorsExclusive
  <2>2. CASE g = f
    <3>1. \A k \in DOMAIN sectors[f] : sectors[f][k] # s
      BY <1>5 DEF Range
    <3>2. \A k, l \in DOMAIN sectors[f] : sectors[f][k] = sectors[f][l] => k = l
      BY DEF SectorsInv, SectorsExclusive
    <3> QED BY <1>1, <1>3, <1>10, <2>2, <3>1, <3>2
  <2> QED BY <2>1, <2>2
<1>11. ASSUME NEW g \in Desc, NEW h \in Desc, g # h
       PROVE  Range(sectors'[g]) \cap Range(sectors'[h]) = {}
  <2>1. Range(sectors[g]) \cap Range(sectors[h]) = {}
    BY <1>11 DEF SectorsInv, SectorsExclusive
  <2>2. \A e \in Desc : e # f => Range(sectors'[e]) = Range(sectors[e])
    BY <1>2, Zenon
  <2>3. s \notin Range(sectors[g]) /\ s \notin Range(sectors[h])
    BY <1>5
  <2>4. CASE g = f
    <3>1. Range(sectors'[h]) = Range(sectors[h])
      BY <1>11, <2>2, <2>4, Zenon
    <3>2. Range(sectors'[g]) = Range(sectors[g]) \cup {s}
      BY <1>4, <2>4, Zenon
    <3> QED BY <2>1, <2>3, <3>1, <3>2, Zenon
  <2>5. CASE h = f
    <3>1. Range(sectors'[g]) = Range(sectors[g])
      BY <1>11, <2>2, <2>5, Zenon
    <3>2. Range(sectors'[h]) = Range(sectors[h]) \cup {s}
      BY <1>4, <2>5, Zenon
    <3> QED BY <2>1, <2>3, <3>1, <3>2, Zenon
  <2>6. CASE g # f /\ h # f
    BY <2>1, <2>2, <2>6, Zenon
  <2> QED BY <2>4, <2>5, <2>6
<1> QED BY <1>8, <1>9, <1>10, <1>11 DEF SectorsInv, SectorsExclusive, Reserved

\* Giving sectors back: what stays in the lists keeps its bit.
LEMMA GiveSectors ==
  ASSUME TypeOK, SectorsInv, sector_bits' \subseteq sector_bits,
         sectors' \in [Desc -> Seq(Sector)],
         \A g \in Desc : /\ DOMAIN sectors'[g] \subseteq DOMAIN sectors[g]
                         /\ \A i \in DOMAIN sectors'[g] : sectors'[g][i] = sectors[g][i],
         \A s \in sector_bits \ sector_bits' : s \notin Reserved /\ s \notin Owned'
  PROVE  SectorsInv'
<1>1. \A g \in Desc : Range(sectors'[g]) \subseteq Range(sectors[g])
  BY DEF Range
<1>2. Owned' \subseteq Owned
  BY <1>1 DEF Owned
<1>3. OwnedAreTaken'
  BY <1>2 DEF SectorsInv, OwnedAreTaken, Reserved
<1>4. Owned' \cap Reserved = {}
  BY <1>2 DEF SectorsInv, SectorsExclusive
<1>5. \A g \in Desc : \A i, j \in DOMAIN sectors'[g] :
         sectors'[g][i] = sectors'[g][j] => i = j
  BY DEF SectorsInv, SectorsExclusive
<1>6. \A g, h \in Desc : g # h => Range(sectors'[g]) \cap Range(sectors'[h]) = {}
  BY <1>1 DEF SectorsInv, SectorsExclusive
<1> QED BY <1>3, <1>4, <1>5, <1>6 DEF SectorsInv, SectorsExclusive, Reserved

LEMMA ShrinkSectors ==
  ASSUME TypeOK, SectorsInv, ResizeShrink, Top.file \in Desc, Top.n \in Nat,
         sectors' \in [Desc -> Seq(Sector)]
  PROVE  SectorsInv'
<1> DEFINE f == Top.file
           count == SectorCount(Top.n)
<1>1. count \in Nat
  BY SectorCountType
<1>2. sectors[f] \in Seq(Sector)
  BY DEF TypeOK
<1>3. sectors' = [sectors EXCEPT ![f] = IF Len(sectors[f]) > count
                    THEN SubSeq(sectors[f], 1, count) ELSE sectors[f]]
  BY DEF ResizeShrink
<1>4. sector_bits' = sector_bits \ Dropped(f, count)
  BY DEF ResizeShrink, ClearBits
<1> HIDE DEF count
<1>5. \A g \in Desc : g # f => sectors'[g] = sectors[g]
  BY <1>3 DEF TypeOK
<1>6. /\ DOMAIN sectors'[f] = {j \in DOMAIN sectors[f] : j <= count}
      /\ \A i \in DOMAIN sectors'[f] : sectors'[f][i] = sectors[f][i]
  <2>1. sectors'[f] = IF Len(sectors[f]) > count
                        THEN SubSeq(sectors[f], 1, count) ELSE sectors[f]
    BY <1>3 DEF TypeOK
  <2>2. CASE Len(sectors[f]) > count
    BY <1>1, <1>2, <2>1, <2>2
  <2>3. CASE ~ (Len(sectors[f]) > count)
    BY <1>1, <1>2, <2>1, <2>3
  <2> QED BY <2>2, <2>3
<1>7. \A s \in Dropped(f, count) : \E j \in DOMAIN sectors[f] : j > count /\ s = sectors[f][j]
  BY DEF Dropped
<1>8. ASSUME NEW s \in Dropped(f, count)
      PROVE  s \notin Reserved /\ s \notin Owned'
  <2>1. PICK j \in DOMAIN sectors[f] : j > count /\ s = sectors[f][j]
    BY <1>7
  <2>2. s \in Range(sectors[f])
    BY <2>1 DEF Range
  <2>3. s \notin Reserved
    BY <2>2 DEF SectorsInv, SectorsExclusive, Owned
  <2>4. \A g \in Desc : g # f => s \notin Range(sectors[g])
    BY <2>2 DEF SectorsInv, SectorsExclusive
  <2>5. \A i \in DOMAIN sectors'[f] : sectors'[f][i] # s
    <3>1. \A i \in DOMAIN sectors[f] : i <= count => i # j
      BY <1>1, <1>2, <2>1
    <3> QED BY <1>6, <2>1, <3>1 DEF SectorsInv, SectorsExclusive
  <2>6. \A g \in Desc : s \notin Range(sectors'[g])
    BY <1>5, <2>4, <2>5 DEF Range
  <2> QED BY <2>3, <2>6 DEF Owned
<1>9. \A g \in Desc : /\ DOMAIN sectors'[g] \subseteq DOMAIN sectors[g]
                      /\ \A i \in DOMAIN sectors'[g] : sectors'[g][i] = sectors[g][i]
  BY <1>5, <1>6
<1> QED BY <1>4, <1>8, <1>9, GiveSectors

LEMMA EraseSectors ==
  ASSUME TypeOK, SectorsInv, RemoveErase, sectors' \in [Desc -> Seq(Sector)]
  PROVE  SectorsInv'
<1> DEFINE f == files[Top.file][Top.n]
<1>1. sectors' = [sectors EXCEPT ![f] = <<>>] /\ sector_bits' = sector_bits
  BY DEF RemoveErase, bits
<1> HIDE DEF f
<1>2. \A g \in Desc : sectors'[g] = IF g = f THEN <<>> ELSE sectors[g]
  BY <1>1 DEF TypeOK
<1>3. \A g \in Desc : /\ DOMAIN sectors'[g] \subseteq DOMAIN sectors[g]
                      /\ \A i \in DOMAIN sectors'[g] : sectors'[g][i] = sectors[g][i]
  BY <1>2
<1> QED BY <1>1, <1>3, GiveSectors

LEMMA NextSectors == TypeOK /\ TypeOK' /\ SectorsInv /\ [Next]_vars => SectorsInv'
<1> SUFFICES ASSUME TypeOK, TypeOK', SectorsInv, [Next]_vars PROVE SectorsInv'
  OBVIOUS
<1>1. sectors' \in [Desc -> Seq(Sector)]
  BY DEF TypeOK
<1>2. \A label : At(label) => Top.file \in Desc /\ Top.n \in Nat
  <2>1. \A label : At(label) => stack # <<>>
    BY DEF At
  <2> QED BY <2>1, TopType, FrameUpdates DEF TypeOK
<1>3. CASE ResizeShrink
  <2>1. Top.file \in Desc /\ Top.n \in Nat
    BY <1>2, <1>3 DEF ResizeShrink
  <2> QED BY <1>1, <1>3, <2>1, ShrinkSectors
<1>4. CASE GrowSector
  <2>1. PICK s \in Free : /\ SetBits({s})
                          /\ sectors' = [sectors EXCEPT ![Top.file] = Append(@, s)]
    BY <1>4 DEF GrowSector
  <2>2. s \in Sector /\ s \notin sector_bits
    BY DEF Free, Searched
  <2>3. Top.file \in Desc
    BY <1>2, <1>4 DEF GrowSector
  <2> QED BY <2>1, <2>2, <2>3, TakeSector DEF SetBits
<1>5. CASE RemoveErase
  BY <1>1, <1>5, EraseSectors
<1>6. CASE Request
  <2>1. UNCHANGED <<sectors, sector_bits>>
    BY <1>6 DEF Request, CreateFile, WriteFile, DeleteFile, RemoveFile, CopyFile,
         MoveFile, bits
  <2> QED BY <2>1, SameSectors
<1>7. CASE \/ WriteSector \/ WriteDone \/ ResizeSame \/ ResizeKeep \/ ResizeGrow
           \/ GrowDone \/ DiskFull \/ ResizeParent \/ ResizeBits \/ FlushMetadata
           \/ RemoveChild \/ DeleteNext \/ CopyData \/ UNCHANGED vars
  <2>1. UNCHANGED <<sectors, sector_bits>>
    BY <1>7 DEF WriteSector, WriteDone, ResizeSame, ResizeKeep, ResizeGrow, GrowDone,
         DiskFull, ResizeParent, ResizeBits, FlushMetadata, RemoveChild, DeleteNext,
         CopyData, vars, bits
  <2> QED BY <2>1, SameSectors
<1> QED BY <1>3, <1>4, <1>5, <1>6, <1>7 DEF Next, Step

\* No sector is ever part of two files, twice of one, or of a file and of the
\* superblock or the bitmap, whatever the sequence of calls.
THEOREM SectorsStayExclusive == Spec => []SectorsExclusive
<1>1. Init => SectorsInv
  BY InitSectors
<1>2. TypeOK /\ TypeOK' /\ SectorsInv /\ [Next]_vars => SectorsInv'
  BY NextSectors
<1>3. SectorsInv => SectorsExclusive
  BY DEF SectorsInv
<1> QED BY <1>1, <1>2, <1>3, TypeCorrect, PTL DEF Spec

-----------------------------------------------------------------------------
(* sectors_taken.                                                          *)

LEMMA SetBitsCounted ==
  ASSUME TypeOK, CounterAgrees, NEW S \in SUBSET Sector, SetBits(S)
  PROVE  CounterAgrees'
<1>1. IsFiniteSet(sector_bits) /\ IsFiniteSet(S) /\ Cardinality(sector_bits) \in Nat
  BY SectorsFinite DEF TypeOK
<1>2. IsFiniteSet(S \ sector_bits) /\ Cardinality(S \ sector_bits) \in Nat
  BY <1>1, FS_Subset, FS_CardinalityType
<1>3. sector_bits \cap (S \ sector_bits) = {} /\ Cardinality({}) = 0
  BY FS_EmptySet
<1>4. sector_bits \cup S = sector_bits \cup (S \ sector_bits)
  OBVIOUS
<1>5. Cardinality(sector_bits \cup (S \ sector_bits))
        = Cardinality(sector_bits) + Cardinality(S \ sector_bits)
            - Cardinality(sector_bits \cap (S \ sector_bits))
  BY <1>1, <1>2, FS_Union
<1>6. Cardinality(sector_bits \cup S) = Cardinality(sector_bits) + Cardinality(S \ sector_bits)
  <2> DEFINE new == S \ sector_bits
  <2>1. Cardinality(sector_bits \cap new) = 0
    BY <1>3, Zenon
  <2>2. Cardinality(sector_bits \cup new) = Cardinality(sector_bits) + Cardinality(new)
    <3>1. Cardinality(new) \in Nat
      BY <1>2
    <3>2. Cardinality(sector_bits \cup new)
            = Cardinality(sector_bits) + Cardinality(new) - Cardinality(sector_bits \cap new)
      BY <1>5
    <3> HIDE DEF new
    <3> QED BY <1>1, <2>1, <3>1, <3>2
  <2> QED BY <1>4, <2>2, Zenon
<1> QED BY <1>6 DEF SetBits, CounterAgrees

LEMMA ClearBitsCounted ==
  ASSUME TypeOK, CounterAgrees, NEW S \in SUBSET Sector, ClearBits(S)
  PROVE  CounterAgrees'
<1>1. IsFiniteSet(sector_bits)
  BY SectorsFinite DEF TypeOK
<1>2. Cardinality(sector_bits \ S) = Cardinality(sector_bits) - Cardinality(sector_bits \cap S)
  BY <1>1, FS_Difference
<1>3. sector_bits \cap S = S \cap sector_bits
  OBVIOUS
<1> QED BY <1>2, <1>3 DEF ClearBits, CounterAgrees

LEMMA NextCounter ==
  ASSUME TypeOK, CounterAgrees, [Next]_vars
  PROVE  CounterAgrees'
<1>1. \A label : At(label) => Top.file \in Desc /\ Top.n \in Nat
  <2>1. \A label : At(label) => stack # <<>>
    BY DEF At
  <2> QED BY <2>1, TopType, FrameUpdates DEF TypeOK
<1>2. CASE ResizeShrink
  <2>1. Top.file \in Desc /\ SectorCount(Top.n) \in Nat
    BY <1>1, <1>2, SectorCountType DEF ResizeShrink
  <2>2. Dropped(Top.file, SectorCount(Top.n)) \in SUBSET Sector
    BY <2>1, DroppedType
  <2>3. ClearBits(Dropped(Top.file, SectorCount(Top.n)))
    BY <1>2 DEF ResizeShrink
  <2> QED BY <2>2, <2>3, ClearBitsCounted
<1>3. CASE GrowSector
  <2>1. PICK s \in Free : SetBits({s})
    BY <1>3 DEF GrowSector
  <2>2. {s} \in SUBSET Sector
    BY DEF Free, Searched
  <2> QED BY <2>1, <2>2, SetBitsCounted
<1>4. CASE Request
  <2>1. UNCHANGED bits
    BY <1>4 DEF Request, CreateFile, WriteFile, DeleteFile, RemoveFile, CopyFile, MoveFile
  <2> QED BY <2>1 DEF bits, CounterAgrees
<1>5. CASE \/ WriteSector \/ WriteDone \/ ResizeSame \/ ResizeKeep \/ ResizeGrow
           \/ GrowDone \/ DiskFull \/ ResizeParent \/ ResizeBits \/ FlushMetadata
           \/ RemoveChild \/ RemoveErase \/ DeleteNext \/ CopyData \/ UNCHANGED vars
  <2>1. UNCHANGED bits
    BY <1>5 DEF WriteSector, WriteDone, ResizeSame, ResizeKeep, ResizeGrow, GrowDone,
         DiskFull, ResizeParent, ResizeBits, FlushMetadata, RemoveChild, RemoveErase,
         DeleteNext, CopyData, vars, bits
  <2> QED BY <2>1 DEF bits, CounterAgrees
<1> QED BY <1>2, <1>3, <1>4, <1>5 DEF Next, Step

\* getSectorsTaken is always the number of set bits, although the count and
\* the bits are changed one by one and only the bits are ever read back.
THEOREM CounterStaysCorrect == Spec => []CounterAgrees
<1>1. Init => CounterAgrees
  BY DEF Init, CounterAgrees
<1>2. TypeOK /\ CounterAgrees /\ [Next]_vars => CounterAgrees'
  BY NextCounter
<1> QED BY <1>1, <1>2, TypeCorrect, PTL DEF Spec

-----------------------------------------------------------------------------
(* The inductive invariant, part one: the tree.                            *)

Children(d) == {f \in live \ {Root} : parent_directory[f] = d}

Linked ==
  /\ Root \in live /\ parent_directory[Root] = Root
  /\ \A f \in live : parent_directory[f] \in Dirs \cap live
  /\ \A d \in Desc : IsInjective(files[d])
  /\ \A d \in Desc : Range(files[d]) = Children(d)

\* Whoever follows parent_directory leaves every set that is without the root.
Acyclic ==
  \A S \in SUBSET (live \ {Root}) :
    S # {} => \E f \in S : parent_directory[f] \notin S

(* Part two: the calls.  Of the frames that remove, the innermost is       *)
(* called by one that removes the directory it works in, and so on: they   *)
(* form a path upwards in the tree.                                        *)
Removing == {"remove", "erase"}

\* What a frame refers to exists: its file, the copy it is to write, the entry
\* it removes, which has no children any more when the sectors are given back.
Holds(k) ==
  /\ stack[k].file \in live
  /\ stack[k].pc = "copy" => stack[k].to \in live
  /\ stack[k].pc \in Removing =>
       /\ stack[k].n \in DOMAIN files[stack[k].file]
       /\ files[stack[k].file][stack[k].n] = stack[k].to
  /\ stack[k].pc = "erase" => files[stack[k].to] = <<>>

\* The callers of a frame.
Calls(k) ==
  /\ stack[k].pc \in {"delete", "copy"} => k = Len(stack)
  /\ stack[k].pc \in Removing /\ k # Len(stack) =>
       \/ stack[k + 1].pc = "remove" /\ stack[k + 1].to = stack[k].file
       \/ stack[k + 1].pc = "delete" /\ stack[k + 1].file = stack[k].file
  /\ \A j \in DOMAIN stack :
       j > k /\ stack[k].pc \in Removing => stack[j].pc \in {"remove", "delete"}

StackInv == \A k \in DOMAIN stack : Holds(k) /\ Calls(k)

TreeInv == Linked /\ Acyclic /\ StackInv

-----------------------------------------------------------------------------
(* Lists of entries.                                                       *)

LEMMA AppendRange ==
  ASSUME NEW S, NEW seq \in Seq(S), NEW x \in S
  PROVE  /\ Range(Append(seq, x)) = Range(seq) \cup {x}
         /\ IsInjective(seq) /\ x \notin Range(seq) => IsInjective(Append(seq, x))
<1> DEFINE new == Append(seq, x)
<1>0. /\ Len(seq) \in Nat /\ DOMAIN seq = 1 .. Len(seq)
      /\ DOMAIN new = 1 .. Len(seq) + 1 /\ new[Len(seq) + 1] = x
      /\ \A i \in 1 .. Len(seq) : new[i] = seq[i]
  OBVIOUS
<1> HIDE DEF new
<1>1. Range(new) = Range(seq) \cup {x}
  <2>1. \A i \in DOMAIN new : i \in DOMAIN seq \/ i = Len(seq) + 1
    BY <1>0
  <2>2. Len(seq) + 1 \in DOMAIN new /\ \A i \in DOMAIN seq : i \in DOMAIN new
    BY <1>0
  <2> QED BY <1>0, <2>1, <2>2 DEF Range
<1>2. ASSUME IsInjective(seq), x \notin Range(seq)
      PROVE  IsInjective(new)
  <2>1. \A i \in DOMAIN new : i \in DOMAIN seq \/ i = Len(seq) + 1
    BY <1>0
  <2>2. \A i \in DOMAIN seq : seq[i] # x
    BY <1>2 DEF Range
  <2> QED BY <1>0, <1>2, <2>1, <2>2 DEF IsInjective
<1> QED BY <1>1, <1>2 DEF new

LEMMA EraseRange ==
  ASSUME NEW S, NEW seq \in Seq(S), NEW index \in DOMAIN seq, IsInjective(seq)
  PROVE  /\ Range(Erase(seq, index)) = Range(seq) \ {seq[index]}
         /\ IsInjective(Erase(seq, index))
<1> DEFINE new == Erase(seq, index)
<1>1. /\ DOMAIN new = 1 .. Len(seq) - 1
      /\ \A k \in DOMAIN new : new[k] = IF k < index THEN seq[k] ELSE seq[k + 1]
  BY DEF Erase
<1>2. /\ Len(seq) \in Nat /\ DOMAIN seq = 1 .. Len(seq) /\ index \in 1 .. Len(seq)
      /\ \A i, j \in DOMAIN seq : seq[i] = seq[j] => i = j
  BY DEF IsInjective
<1> HIDE DEF new
<1>3. \A i \in DOMAIN seq : i # index => \E k \in DOMAIN new : new[k] = seq[i]
  <2> SUFFICES ASSUME NEW i \in DOMAIN seq, i # index
               PROVE  \E k \in DOMAIN new : new[k] = seq[i]
    OBVIOUS
  <2>1. CASE i < index
    BY <1>1, <1>2, <2>1
  <2>2. CASE i > index
    <3>1. i - 1 \in DOMAIN new /\ new[i - 1] = seq[(i - 1) + 1] /\ (i - 1) + 1 = i
      BY <1>1, <1>2, <2>2
    <3> QED BY <3>1
  <2> QED BY <1>2, <2>1, <2>2
<1>4. \A k \in DOMAIN new : \E i \in DOMAIN seq : i # index /\ new[k] = seq[i]
  <2> SUFFICES ASSUME NEW k \in DOMAIN new
               PROVE  \E i \in DOMAIN seq : i # index /\ new[k] = seq[i]
    OBVIOUS
  <2>1. CASE k < index
    BY <1>1, <1>2, <2>1
  <2>2. CASE ~ (k < index)
    <3>1. k + 1 \in DOMAIN seq /\ k + 1 # index /\ new[k] = seq[k + 1]
      BY <1>1, <1>2, <2>2
    <3> QED BY <3>1
  <2> QED BY <2>1, <2>2
<1>5. Range(new) = Range(seq) \ {seq[index]}
  BY <1>2, <1>3, <1>4 DEF Range
<1>6. \A k, l \in DOMAIN new : new[k] = new[l] => k = l
  <2> SUFFICES ASSUME NEW k \in DOMAIN new, NEW l \in DOMAIN new, new[k] = new[l]
               PROVE  k = l
    OBVIOUS
  <2>1. k \in Nat /\ l \in Nat /\ k + 1 \in DOMAIN seq /\ l + 1 \in DOMAIN seq
        /\ k \in DOMAIN seq /\ l \in DOMAIN seq
    BY <1>1, <1>2
  <2>2. new[k] = IF k < index THEN seq[k] ELSE seq[k + 1]
    BY <1>1
  <2>3. new[l] = IF l < index THEN seq[l] ELSE seq[l + 1]
    BY <1>1
  <2>4. CASE k < index /\ l < index
    BY <1>2, <2>1, <2>2, <2>3, <2>4
  <2>5. CASE k < index /\ ~ (l < index)
    <3>1. k = l + 1
      BY <1>2, <2>1, <2>2, <2>3, <2>5
    <3> QED BY <1>2, <2>1, <2>5, <3>1
  <2>6. CASE ~ (k < index) /\ l < index
    <3>1. k + 1 = l
      BY <1>2, <2>1, <2>2, <2>3, <2>6
    <3> QED BY <1>2, <2>1, <2>6, <3>1
  <2>7. CASE ~ (k < index) /\ ~ (l < index)
    <3>1. k + 1 = l + 1
      BY <1>2, <2>1, <2>2, <2>3, <2>7
    <3> QED BY <2>1, <3>1
  <2> QED BY <2>4, <2>5, <2>6, <2>7
<1> QED BY <1>5, <1>6 DEF new, IsInjective

-----------------------------------------------------------------------------
(* The tree.                                                               *)

\* A descriptor that is freed, or no directory, has an empty list.
LEMMA NoChildren ==
  ASSUME TypeOK, Linked, NEW d \in Desc
  PROVE  /\ d \notin Dirs \cap live => Range(files[d]) = {}
         /\ (Range(files[d]) = {}) = (files[d] = <<>>)
<1>1. d \notin Dirs \cap live => Range(files[d]) = {}
  BY DEF Linked, Children
<1>2. files[d] \in Seq(Desc)
  BY DEF TypeOK
<1>3. (Range(files[d]) = {}) = (files[d] = <<>>)
  <2>1. files[d] = <<>> => Range(files[d]) = {}
    BY <1>2 DEF Range
  <2>2. files[d] # <<>> => files[d][1] \in Range(files[d])
    BY <1>2 DEF Range
  <2> QED BY <2>1, <2>2
<1> QED BY <1>1, <1>3

LEMMA EntryLinked ==
  ASSUME TypeOK, Linked, NEW d \in Desc, NEW i \in DOMAIN files[d]
  PROVE  /\ files[d][i] \in live \ {Root} /\ parent_directory[files[d][i]] = d
         /\ d \in Dirs \cap live
<1>1. files[d][i] \in Range(files[d])
  BY DEF Range
<1>2. files[d][i] \in Children(d)
  BY <1>1 DEF Linked
<1> QED BY <1>2 DEF Linked, Children

LEMMA FindLinked ==
  ASSUME TypeOK, Linked, NEW d \in Desc, NEW nm, NEW f \in Find(d, nm)
  PROVE  f \in live \ {Root} /\ parent_directory[f] = d
<1>1. PICK i \in DOMAIN files[d] : f = files[d][i]
  BY DEF Find
<1> QED BY <1>1, EntryLinked

\* openFile reaches allocated descriptors only.
LEMMA OpenLinked ==
  ASSUME TypeOK, Linked
  PROVE  OpenDirs \subseteq Dirs \cap live /\ OpenFiles \subseteq live
<1>1. Opened(Dirs \cap live)
  <2>1. Root \in Dirs \cap live
    BY TreeAssumption DEF Linked
  <2>2. ASSUME NEW d \in Dirs \cap live, NEW f \in Dirs, f \in Find(d, name[f])
        PROVE  f \in live
    <3>1. d \in Desc
      BY TreeAssumption
    <3> QED BY <2>2, <3>1, FindLinked
  <2> QED BY <2>1, <2>2 DEF Opened
<1>2. OpenDirs \subseteq Dirs \cap live
  BY <1>1 DEF OpenDirs
<1> QED BY <1>2 DEF OpenFiles

\* The directories above d: closed, and within every closed set.
LEMMA AboveRises ==
  ASSUME TypeOK, NEW d \in Desc
  PROVE  /\ d \in Above(d)
         /\ \A e \in Above(d) : e \in Desc /\ parent_directory[e] \in Above(d)
         /\ \A S \in SUBSET Desc : Rising(d, S) => Above(d) \subseteq S
<1>1. d \in Above(d)
  BY DEF Above, Rising
<1>2. ASSUME NEW e \in Above(d)
      PROVE  e \in Desc /\ parent_directory[e] \in Above(d)
  <2>1. e \in Desc /\ parent_directory[e] \in Desc
    BY DEF Above, TypeOK
  <2> QED BY <2>1 DEF Above, Rising
<1> QED BY <1>1, <1>2 DEF Above

\* No path upwards comes back.
LEMMA NotAboveItself ==
  ASSUME TypeOK, Linked, Acyclic, NEW f \in live \ {Root}
  PROVE  parent_directory[f] # f /\ f \notin Above(parent_directory[f])
<1>1. parent_directory[f] # f
  <2>1. {f} \in SUBSET (live \ {Root}) /\ {f} # {}
    OBVIOUS
  <2>2. \E g \in {f} : parent_directory[g] \notin {f}
    BY <2>1, Zenon DEF Acyclic
  <2> QED BY <2>2
<1>2. SUFFICES ASSUME f \in Above(parent_directory[f]) PROVE FALSE
  BY <1>1
<1> DEFINE D == {g \in live \ {Root} : f \in Above(g)}
<1>3. D # {} /\ D \in SUBSET (live \ {Root})
  <2>1. f \in Above(f)
    BY AboveRises DEF TypeOK
  <2> QED BY <2>1
<1>4. ASSUME NEW g \in D
      PROVE  parent_directory[g] \in D
  <2>1. g \in Desc /\ parent_directory[g] \in Desc /\ parent_directory[g] \in live
        /\ f \in Desc /\ f \in Above(g)
    BY DEF TypeOK, Linked
  <2>2. f \in Above(parent_directory[g])
    <3>1. CASE g = f
      BY <1>2, <3>1
    <3>2. CASE g # f
      <4> DEFINE T == {g} \cup Above(parent_directory[g])
      <4>1. T \in SUBSET Desc
        BY <2>1, AboveRises
      <4>2. Rising(g, T)
        <5>1. parent_directory[g] \in Above(parent_directory[g])
          BY <2>1, AboveRises
        <5>2. \A e \in Above(parent_directory[g]) : parent_directory[e] \in Above(parent_directory[g])
          BY <2>1, AboveRises
        <5> QED BY <5>1, <5>2 DEF Rising
      <4>3. Above(g) \subseteq T
        BY <2>1, <4>1, <4>2, AboveRises
      <4> QED BY <2>1, <3>2, <4>3
    <3> QED BY <3>1, <3>2
  <2>3. parent_directory[g] # Root
    <3>1. Rising(Root, {Root})
      BY DEF Rising, Linked
    <3>2. Above(Root) \subseteq {Root}
      BY <3>1, TreeAssumption, AboveRises
    <3> QED BY <2>2, <3>2
  <2> QED BY <2>1, <2>2, <2>3
<1> HIDE DEF D
<1> QED BY <1>3, <1>4 DEF Acyclic

\* createFile: a new leaf.
LEMMA AddFileTree ==
  ASSUME TypeOK, Linked, Acyclic, NEW d \in Dirs \cap live, NEW nm, NEW f \in Unused,
         AddFile(d, nm, f)
  PROVE  Linked' /\ Acyclic' /\ live' = live \cup {f}
<1>1. f \in Desc /\ f \notin live /\ f \notin Dirs /\ d \in Desc /\ d # f
  BY TreeAssumption DEF Unused
<1>2. live' = live \cup {f}
  BY DEF AddFile
<1>3. \A g \in Desc : parent_directory'[g] = IF g = f THEN d ELSE parent_directory[g]
  BY DEF AddFile, TypeOK
<1>4. files' = [files EXCEPT ![d] = Append(files[d], f)]
  BY DEF AddFile
<1>5. \A g \in Desc : Children(g)' = IF g = d THEN Children(g) \cup {f} ELSE Children(g)
  <2>1. \A h \in live : h # f /\ h \in Desc
    BY <1>1 DEF TypeOK
  <2>2. f # Root
    BY <1>1 DEF Linked
  <2> QED BY <1>1, <1>2, <1>3, <2>1, <2>2 DEF Children
<1>6. ASSUME NEW g \in Desc
      PROVE  IsInjective(files'[g]) /\ Range(files'[g]) = Children(g)'
  <2>1. CASE g # d
    <3>1. files'[g] = files[g]
      BY <1>4, <2>1 DEF TypeOK
    <3> QED BY <1>5, <2>1, <3>1 DEF Linked
  <2>2. CASE g = d
    <3>1. files'[d] = Append(files[d], f) /\ files[d] \in Seq(Desc)
      BY <1>1, <1>4 DEF TypeOK
    <3>2. IsInjective(files[d]) /\ Range(files[d]) = Children(d) /\ f \notin Children(d)
      BY <1>1 DEF Linked, Children
    <3>3. /\ Range(Append(files[d], f)) = Range(files[d]) \cup {f}
          /\ IsInjective(Append(files[d], f))
      BY <1>1, <3>1, <3>2, AppendRange
    <3>4. Children(d)' = Children(d) \cup {f}
      BY <1>1, <1>5
    <3> QED BY <2>2, <3>1, <3>2, <3>3, <3>4, Zenon
  <2> QED BY <2>1, <2>2
<1>7. \A g \in live' : parent_directory'[g] \in Dirs \cap live'
  BY <1>1, <1>2, <1>3 DEF Linked, TypeOK
<1>8. Linked'
  <2>1. Root \in live' /\ parent_directory'[Root] = Root
    BY <1>1, <1>2, <1>3, TreeAssumption DEF Linked
  <2> QED BY <1>6, <1>7, <2>1 DEF Linked
<1>9. ASSUME NEW S \in SUBSET (live' \ {Root}), S # {}
      PROVE  \E g \in S : parent_directory'[g] \notin S
  <2>1. CASE S = {f}
    BY <1>1, <1>3, <2>1
  <2>2. CASE S # {f}
    <3> DEFINE T == S \ {f}
    <3>1. T \in SUBSET (live \ {Root}) /\ T # {}
      BY <1>2, <1>9, <2>2
    <3>2. PICK g \in T : parent_directory[g] \notin T
      BY <3>1, Zenon DEF Acyclic
    <3>3. g \in live /\ g \in Desc /\ g # f /\ parent_directory[g] \in live
      BY <3>1 DEF Linked, TypeOK
    <3> QED BY <1>1, <1>3, <3>2, <3>3
  <2> QED BY <2>1, <2>2
<1> QED BY <1>2, <1>8, <1>9 DEF Acyclic

\* moveFile: a subtree gets another parent, which does not belong to it.
LEMMA MoveFileTree ==
  ASSUME Careful, TypeOK, Linked, Acyclic, NEW d \in Dirs \cap live,
         NEW index \in DOMAIN files[d], NEW e \in Dirs \cap live, NEW nm,
         MoveFile(d, index, e, nm)
  PROVE  Linked' /\ Acyclic'
<1> DEFINE f == files[d][index]
           erased == [files EXCEPT ![d] = Erase(files[d], index)]
<1>1. d \in Desc /\ e \in Desc
  BY TreeAssumption
<1>2. f \in live \ {Root} /\ parent_directory[f] = d /\ f \in Desc
  BY <1>1, EntryLinked DEF TypeOK
<1>3. f \notin Above(e)
  BY DEF MoveFile
<1>4. live' = live
  BY DEF MoveFile
<1>5. files' = [erased EXCEPT ![e] = Append(erased[e], f)]
  BY DEF MoveFile
<1>6. parent_directory' = [parent_directory EXCEPT ![f] = e]
  BY DEF MoveFile
<1>7. /\ files[d] \in Seq(Desc) /\ index \in DOMAIN files[d]
      /\ IsInjective(files[d]) /\ Range(files[d]) = Children(d)
  BY <1>1 DEF TypeOK, Linked
<1>8. /\ Erase(files[d], index) \in Seq(Desc)
      /\ IsInjective(Erase(files[d], index))
      /\ Range(Erase(files[d], index)) = Children(d) \ {f}
  <2>1. index \in Nat
    BY <1>7
  <2> QED BY <1>7, <2>1, EraseRange, EraseType
<1> HIDE DEF f
<1>9. \A g \in Desc : parent_directory'[g] = IF g = f THEN e ELSE parent_directory[g]
  BY <1>2, <1>6 DEF TypeOK
<1>10. ASSUME NEW g \in Desc
       PROVE  /\ erased[g] \in Seq(Desc) /\ IsInjective(erased[g])
              /\ Range(erased[g]) = Children(g) \ {f}
  <2>1. CASE g = d
    BY <1>8, <2>1 DEF TypeOK
  <2>2. CASE g # d
    <3>1. erased[g] = files[g] /\ files[g] \in Seq(Desc)
      BY <2>2 DEF TypeOK
    <3>2. IsInjective(files[g]) /\ Range(files[g]) = Children(g)
      BY DEF Linked
    <3>3. f \notin Children(g)
      BY <1>2, <2>2 DEF Children
    <3> HIDE DEF erased
    <3> QED BY <3>1, <3>2, <3>3
  <2> QED BY <2>1, <2>2
<1>11. DOMAIN erased = Desc
  BY DEF TypeOK
<1> HIDE DEF erased
<1>12. \A g \in Desc : Children(g)' = IF g = e THEN (Children(g) \ {f}) \cup {f}
                                                ELSE Children(g) \ {f}
  <2>1. \A h \in live : h \in Desc
    BY DEF TypeOK
  <2> QED BY <1>2, <1>4, <1>9, <2>1 DEF Children
<1>13. ASSUME NEW g \in Desc
       PROVE  IsInjective(files'[g]) /\ Range(files'[g]) = Children(g)'
  <2>1. CASE g # e
    <3>1. files'[g] = erased[g]
      BY <1>5, <1>11, <2>1
    <3> QED BY <1>10, <1>12, <2>1, <3>1
  <2>2. CASE g = e
    <3>1. files'[e] = Append(erased[e], f)
      BY <1>1, <1>5, <1>11
    <3>2. f \notin Range(erased[e])
      BY <1>1, <1>10
    <3>3. erased[e] \in Seq(Desc) /\ IsInjective(erased[e])
          /\ Range(erased[e]) = Children(e) \ {f}
      BY <1>1, <1>10
    <3>4. /\ Range(Append(erased[e], f)) = Range(erased[e]) \cup {f}
          /\ IsInjective(Append(erased[e], f))
      BY <1>2, <3>2, <3>3, AppendRange
    <3>5. Children(e)' = (Children(e) \ {f}) \cup {f}
      BY <1>1, <1>12
    <3> QED BY <2>2, <3>1, <3>3, <3>4, <3>5, Zenon
  <2> QED BY <2>1, <2>2
<1>14. Linked'
  <2>1. Root \in live' /\ parent_directory'[Root] = Root
    BY <1>2, <1>4, <1>9, TreeAssumption DEF Linked
  <2>2. \A g \in live' : parent_directory'[g] \in Dirs \cap live'
    BY <1>4, <1>9 DEF Linked, TypeOK
  <2> QED BY <1>13, <2>1, <2>2 DEF Linked
<1>15. ASSUME NEW S \in SUBSET (live' \ {Root}), S # {},
              \A g \in S : parent_directory'[g] \in S
       PROVE  FALSE
  <2>1. S \in SUBSET (live \ {Root}) /\ \A g \in S : g \in Desc
    BY <1>4 DEF TypeOK
  <2>2. f \in S
    <3>1. PICK g \in S : parent_directory[g] \notin S
      BY <1>15, <2>1, Zenon DEF Acyclic
    <3> QED BY <1>9, <1>15, <2>1, <3>1
  <2> DEFINE T == S \cap Above(e)
  <2>3. e \in T
    <3>1. e \in S
      BY <1>2, <1>9, <1>15, <2>2
    <3> QED BY <1>1, <3>1, AboveRises
  <2>4. T \in SUBSET (live \ {Root}) /\ T # {}
    BY <2>1, <2>3
  <2>5. PICK g \in T : parent_directory[g] \notin T
    BY <2>4, Zenon DEF Acyclic
  <2>6. g \in S /\ g \in Above(e) /\ g # f /\ g \in Desc
    BY <1>3, <2>1, <2>5
  <2>7. parent_directory[g] \in S
    BY <1>9, <1>15, <2>6
  <2>8. parent_directory[g] \in Above(e)
    BY <1>1, <2>6, AboveRises
  <2> QED BY <2>5, <2>7, <2>8
<1> QED BY <1>14, <1>15 DEF Acyclic

\* removeFile: a leaf less.
LEMMA RemoveEraseTree ==
  ASSUME TypeOK, Linked, Acyclic, NEW d \in Desc, NEW index \in DOMAIN files[d],
         NEW f, f = files[d][index], files[f] = <<>>,
         live' = live \ {f},
         files' = [files EXCEPT ![d] = Erase(files[d], index), ![f] = <<>>],
         parent_directory' = [parent_directory EXCEPT ![f] = Root]
  PROVE  Linked' /\ Acyclic'
<1>1. f \in live \ {Root} /\ parent_directory[f] = d /\ d \in Dirs \cap live /\ f \in Desc
  BY EntryLinked DEF TypeOK
<1>2. f # d
  BY <1>1, NotAboveItself
<1>3. \A g \in Desc : parent_directory'[g] = IF g = f THEN Root ELSE parent_directory[g]
  BY <1>1 DEF TypeOK
<1>4. Children(f) = {}
  <2>1. Range(files[f]) = {}
    BY <1>1, NoChildren
  <2> QED BY <1>1, <2>1 DEF Linked
<1>5. \A g \in Desc : Children(g)' = Children(g) \ {f}
  <2>1. \A h \in live : h \in Desc
    BY DEF TypeOK
  <2> QED BY <1>1, <1>3, <2>1 DEF Children
<1>6. ASSUME NEW g \in Desc
      PROVE  IsInjective(files'[g]) /\ Range(files'[g]) = Children(g)'
  <2>1. CASE g = f
    <3>1. files'[g] = <<>>
      BY <1>1, <2>1 DEF TypeOK
    <3>2. Range(files'[g]) = {} /\ IsInjective(files'[g])
      <4>1. Range(<<>>) = {} /\ IsInjective(<<>>)
        <5>1. DOMAIN <<>> = {}
          OBVIOUS
        <5> QED BY <5>1 DEF Range, IsInjective
      <4> QED BY <3>1, <4>1, Zenon
    <3>3. Children(g)' = {}
      BY <1>1, <1>4, <1>5, <2>1
    <3> QED BY <3>2, <3>3, Zenon
  <2>2. CASE g = d
    <3>1. files'[g] = Erase(files[d], index)
      BY <1>1, <1>2, <2>2 DEF TypeOK
    <3>2. files[d] \in Seq(Desc) /\ IsInjective(files[d]) /\ Range(files[d]) = Children(d)
      BY DEF TypeOK, Linked
    <3>3. /\ Range(Erase(files[d], index)) = Range(files[d]) \ {f}
          /\ IsInjective(Erase(files[d], index))
      BY <3>2, EraseRange
    <3>4. Children(d)' = Children(d) \ {f}
      BY <1>5
    <3> QED BY <2>2, <3>1, <3>2, <3>3, <3>4, Zenon
  <2>3. CASE g # f /\ g # d
    <3>1. files'[g] = files[g]
      BY <1>1, <2>3 DEF TypeOK
    <3>2. f \notin Children(g)
      BY <1>1, <2>3 DEF Children
    <3>3. IsInjective(files[g]) /\ Range(files[g]) = Children(g)
      BY DEF Linked
    <3>4. Children(g)' = Children(g)
      BY <1>5, <3>2
    <3> QED BY <3>1, <3>3, <3>4, Zenon
  <2> QED BY <2>1, <2>2, <2>3
<1>7. Root \in live' /\ parent_directory'[Root] = Root
  BY <1>1, <1>3, TreeAssumption DEF Linked
<1>8. ASSUME NEW g \in live'
      PROVE  parent_directory'[g] \in Dirs \cap live'
  <2>1. g \in live /\ g # f /\ g \in Desc /\ parent_directory'[g] = parent_directory[g]
    BY <1>3 DEF TypeOK
  <2>2. parent_directory[g] \in Dirs \cap live
    BY <2>1 DEF Linked
  <2>3. parent_directory[g] # f
    <3>1. g # Root => g \notin Children(f)
      BY <1>4
    <3> QED BY <1>1, <2>1, <3>1 DEF Children, Linked
  <2> QED BY <2>1, <2>2, <2>3
<1>9. Linked'
  BY <1>6, <1>7, <1>8 DEF Linked
<1>10. ASSUME NEW S \in SUBSET (live' \ {Root}), S # {}
       PROVE  \E g \in S : parent_directory'[g] \notin S
  <2>1. S \in SUBSET (live \ {Root}) /\ \A g \in S : g # f /\ g \in Desc
    BY DEF TypeOK
  <2>2. PICK g \in S : parent_directory[g] \notin S
    BY <1>10, <2>1, Zenon DEF Acyclic
  <2> QED BY <1>3, <2>1, <2>2
<1> QED BY <1>9, <1>10 DEF Acyclic

-----------------------------------------------------------------------------
(* The call stack.                                                         *)

LEMMA ConcatFacts ==
  ASSUME NEW S, NEW s \in Seq(S), NEW t \in Seq(S)
  PROVE  /\ Len(s \o t) = Len(s) + Len(t) /\ Len(s) \in Nat
         /\ DOMAIN (s \o t) = 1 .. Len(s) + Len(t)
         /\ \A k \in 1 .. Len(s) : (s \o t)[k] = s[k]
         /\ \A k \in 1 .. Len(s) + Len(t) : k > Len(s) => (s \o t)[k] = t[k - Len(s)]
OBVIOUS

LEMMA ConcatTail ==
  ASSUME NEW S, NEW new \in Seq(S), NEW old \in Seq(S), old # <<>>
  PROVE  /\ Len(new \o Tail(old)) = Len(new) + Len(old) - 1
         /\ DOMAIN (new \o Tail(old)) = 1 .. Len(new) + Len(old) - 1
         /\ \A k \in 1 .. Len(new) : (new \o Tail(old))[k] = new[k]
         /\ \A k \in 1 .. Len(new) + Len(old) - 1 :
              k > Len(new) => (new \o Tail(old))[k] = old[k - Len(new) + 1]
<1> DEFINE rest == Tail(old)
<1>1. /\ rest \in Seq(S) /\ Len(rest) = Len(old) - 1 /\ Len(old) \in Nat
      /\ \A k \in 1 .. Len(old) - 1 : rest[k] = old[k + 1]
  OBVIOUS
<1> HIDE DEF rest
<1>2. /\ Len(new \o rest) = Len(new) + Len(rest) /\ Len(new) \in Nat
      /\ DOMAIN (new \o rest) = 1 .. Len(new) + Len(rest)
      /\ \A k \in 1 .. Len(new) : (new \o rest)[k] = new[k]
      /\ \A k \in 1 .. Len(new) + Len(rest) :
           k > Len(new) => (new \o rest)[k] = rest[k - Len(new)]
  BY <1>1, ConcatFacts
<1>3. \A k \in 1 .. Len(new) + Len(old) - 1 :
        k > Len(new) => (new \o rest)[k] = old[k - Len(new) + 1]
  <2> SUFFICES ASSUME NEW k \in 1 .. Len(new) + Len(old) - 1, k > Len(new)
               PROVE  (new \o rest)[k] = old[k - Len(new) + 1]
    OBVIOUS
  <2>1. k - Len(new) \in 1 .. Len(old) - 1
    BY <1>1, <1>2
  <2> QED BY <1>1, <1>2, <2>1
<1> QED BY <1>1, <1>2, <1>3 DEF rest

LEMMA HeadReplaced ==
  ASSUME NEW S, NEW x \in S, NEW old \in Seq(S), old # <<>>
  PROVE  /\ Len(<<x>> \o Tail(old)) = Len(old) /\ DOMAIN (<<x>> \o Tail(old)) = 1 .. Len(old)
         /\ (<<x>> \o Tail(old))[1] = x /\ Len(old) >= 1
         /\ \A k \in 1 .. Len(old) : k > 1 => (<<x>> \o Tail(old))[k] = old[k]
<1> DEFINE new == <<x>>
<1>1. new \in Seq(S) /\ Len(new) = 1 /\ new[1] = x /\ Len(old) \in Nat /\ Len(old) >= 1
  OBVIOUS
<1> DEFINE all == new \o Tail(old)
<1> HIDE DEF new
<1>2. /\ Len(all) = Len(new) + Len(old) - 1 /\ DOMAIN all = 1 .. Len(new) + Len(old) - 1
      /\ \A k \in 1 .. Len(new) : all[k] = new[k]
      /\ \A k \in 1 .. Len(new) + Len(old) - 1 : k > Len(new) => all[k] = old[k - Len(new) + 1]
  BY <1>1, ConcatTail
<1> HIDE DEF all
<1>3. ASSUME NEW k \in 1 .. Len(old), k > 1 PROVE all[k] = old[k]
  <2>1. k \in 1 .. Len(new) + Len(old) - 1 /\ k > Len(new) /\ k - Len(new) + 1 = k
    BY <1>1, <1>3
  <2> QED BY <1>2, <2>1
<1>4. Len(all) = Len(old) /\ DOMAIN all = 1 .. Len(old) /\ all[1] = x
  BY <1>1, <1>2
<1> QED BY ONLY <1>1, <1>3, <1>4 DEF new, all

LEMMA StackTypes ==
  ASSUME TypeOK
  PROVE  /\ stack \in Seq(Frame) /\ Len(stack) \in Nat /\ DOMAIN stack = 1 .. Len(stack)
         /\ \A k \in DOMAIN stack : /\ stack[k] \in Frame /\ stack[k].file \in Desc
                                    /\ stack[k].to \in Desc /\ stack[k].n \in Nat
<1>1. stack \in Seq(Frame)
  BY DEF TypeOK
<1>2. Len(stack) \in Nat /\ DOMAIN stack = 1 .. Len(stack)
  BY <1>1
<1>3. \A k \in DOMAIN stack : stack[k] \in Frame
  BY <1>1
<1> QED BY <1>1, <1>2, <1>3 DEF Frame

LEMMA TopFrame ==
  ASSUME TypeOK, stack # <<>>
  PROVE  /\ 1 \in DOMAIN stack /\ stack[1] = Top /\ Top \in Frame
         /\ Top.to \in Desc /\ Top.file \in Desc /\ Top.n \in Nat
<1>1. stack \in Seq(Frame) /\ 1 \in DOMAIN stack
  BY DEF TypeOK
<1>2. stack[1] = Top /\ Top \in Frame
  BY <1>1, TopType
<1> QED BY <1>1, <1>2, FrameUpdates

\* What a frame removes is in the tree, below the file of the frame.
LEMMA RemovedLinked ==
  ASSUME TypeOK, Linked, StackInv, NEW k \in DOMAIN stack, stack[k].pc \in Removing
  PROVE  /\ stack[k].to \in live \ {Root}
         /\ parent_directory[stack[k].to] = stack[k].file
<1>1. /\ stack[k].n \in DOMAIN files[stack[k].file]
      /\ files[stack[k].file][stack[k].n] = stack[k].to
  BY DEF StackInv, Holds
<1>2. stack[k].file \in Desc
  BY StackTypes
<1> QED BY <1>1, <1>2, EntryLinked

\* The frames that remove form a path upwards in the tree: none of them works
\* in the directory that a frame above it removes.
LEMMA PathUpwards ==
  ASSUME TypeOK, Linked, Acyclic, StackInv,
         NEW i \in DOMAIN stack, NEW j \in DOMAIN stack, i <= j,
         stack[i].pc \in Removing, stack[j].pc \in Removing
  PROVE  stack[j].file # stack[i].to
<1> SUFFICES ASSUME stack[j].file = stack[i].to PROVE FALSE
  OBVIOUS
<1> DEFINE S == {stack[m].to : m \in i .. j}
<1>1. i \in Nat /\ j \in Nat /\ j <= Len(stack) /\ Len(stack) \in Nat
      /\ DOMAIN stack = 1 .. Len(stack)
  BY StackTypes
<1>2. ASSUME NEW m \in i .. j
      PROVE  m \in DOMAIN stack /\ stack[m].pc \in Removing
  <2>1. m \in DOMAIN stack /\ m \in Nat
    BY <1>1, <1>2
  <2>2. CASE m = i
    BY <2>1, <2>2
  <2>3. CASE m # i /\ m # j
    <3>1. m > i /\ m # Len(stack)
      BY <1>1, <2>1, <2>3
    <3>2. stack[m].pc \in {"remove", "delete"}
      BY <2>1, <3>1 DEF StackInv, Calls
    <3>3. stack[m].pc # "delete"
      BY <2>1, <3>1 DEF StackInv, Calls
    <3> QED BY <2>1, <3>2, <3>3 DEF Removing
  <2>4. CASE m = j
    BY <2>1, <2>4
  <2> QED BY <2>2, <2>3, <2>4
<1>3. S # {} /\ S \in SUBSET (live \ {Root})
  <2>1. \A m \in i .. j : stack[m].to \in live \ {Root}
    BY <1>2, RemovedLinked
  <2>2. i \in i .. j
    BY <1>1
  <2> QED BY <2>1, <2>2
<1>4. ASSUME NEW m \in i .. j
      PROVE  parent_directory[stack[m].to] \in S
  <2>1. m \in DOMAIN stack /\ stack[m].pc \in Removing
    BY <1>2
  <2>2. parent_directory[stack[m].to] = stack[m].file
    BY <2>1, RemovedLinked
  <2>3. CASE m = j
    <3>1. i \in i .. j
      BY <1>1
    <3> QED BY <2>2, <2>3, <3>1
  <2>4. CASE m # j
    <3>1. m + 1 \in i .. j /\ m # Len(stack)
      <4> DEFINE last == Len(stack)
      <4>1. i \in Nat /\ j \in Nat /\ last \in Nat /\ j <= last /\ m \in i .. j /\ m # j
        BY <1>1, <2>4
      <4> HIDE DEF last
      <4>2. m + 1 \in i .. j /\ m # last
        BY ONLY <4>1
      <4> QED BY <4>2 DEF last
    <3>2. \/ stack[m + 1].pc = "remove" /\ stack[m + 1].to = stack[m].file
          \/ stack[m + 1].pc = "delete" /\ stack[m + 1].file = stack[m].file
      BY <2>1, <3>1 DEF StackInv, Calls
    <3>3. stack[m + 1].pc \in Removing
      BY <1>2, <3>1
    <3>4. stack[m + 1].to = stack[m].file
      BY <3>2, <3>3 DEF Removing
    <3> QED BY <2>2, <3>1, <3>4
  <2> QED BY <2>3, <2>4
<1>5. \A g \in S : parent_directory[g] \in S
  BY <1>4
<1> HIDE DEF S
<1> QED BY <1>3, <1>5, Zenon DEF Acyclic

\* Frames that only change their place on the stack.
LEMMA SameFrames ==
  ASSUME TypeOK, StackInv, UNCHANGED <<live, files>>, NEW k \in DOMAIN stack',
         DOMAIN stack' = 1 .. Len(stack'), NEW up \in Int, Len(stack') = Len(stack) + up,
         \A j \in DOMAIN stack' :
           j >= k => j - up \in DOMAIN stack /\ stack'[j] = stack[j - up]
  PROVE  Holds(k)' /\ Calls(k)'
<1> DEFINE m == k - up
<1>1. /\ Len(stack) \in Nat /\ DOMAIN stack = 1 .. Len(stack)
      /\ k \in Int /\ k <= Len(stack') /\ Len(stack') \in Int
  BY StackTypes
<1>2. /\ m \in DOMAIN stack /\ stack'[k] = stack[m]
      /\ (k = Len(stack') <=> m = Len(stack))
  BY <1>1
<1>3. k # Len(stack') => stack'[k + 1] = stack[m + 1]
  <2> SUFFICES ASSUME k # Len(stack') PROVE stack'[k + 1] = stack[m + 1]
    OBVIOUS
  <2>1. k + 1 \in DOMAIN stack' /\ k + 1 >= k /\ (k + 1) - up = m + 1
    BY <1>1
  <2> QED BY <2>1
<1>4. ASSUME NEW j \in DOMAIN stack', j > k
      PROVE  \E l \in DOMAIN stack : l > m /\ stack'[j] = stack[l]
  <2>1. j - up \in DOMAIN stack /\ j - up > m /\ stack'[j] = stack[j - up]
    BY <1>1, <1>4
  <2> QED BY <2>1
<1> HIDE DEF m
<1>5. Holds(m) /\ Calls(m)
  BY <1>2 DEF StackInv
<1>6. Holds(k)'
  BY <1>2, <1>5 DEF Holds
<1>7. Calls(k)'
  BY <1>2, <1>3, <1>4, <1>5 DEF Calls
<1> QED BY <1>6, <1>7

\* Frames that do not remove come and go at the top.
LEMMA ReplaceTop ==
  ASSUME TypeOK, StackInv, stack # <<>>, UNCHANGED <<live, files>>,
         NEW new \in Seq(Frame), stack' = new \o Tail(stack),
         \A k \in DOMAIN new : /\ new[k].pc \notin Removing \cup {"delete", "copy"}
                               /\ new[k].file \in live
  PROVE  StackInv'
<1> DEFINE n == Len(new)
<1>1. /\ stack \in Seq(Frame) /\ Len(stack) \in Nat /\ n \in Nat
      /\ DOMAIN stack = 1 .. Len(stack) /\ DOMAIN new = 1 .. n
  BY StackTypes
<1>2. /\ Len(stack') = n + Len(stack) - 1 /\ DOMAIN stack' = 1 .. n + Len(stack) - 1
      /\ \A k \in 1 .. n : stack'[k] = new[k]
      /\ \A k \in DOMAIN stack' : k > n => stack'[k] = stack[k - n + 1]
  BY <1>1, ConcatTail
<1> HIDE DEF n
<1>3. \A k \in DOMAIN stack' : k <= n => stack'[k] = new[k] /\ k \in DOMAIN new
  BY <1>1, <1>2
<1> SUFFICES ASSUME NEW k \in DOMAIN stack'
             PROVE  Holds(k)' /\ Calls(k)'
  BY DEF StackInv
<1>5. k \in Nat
  BY <1>1, <1>2
<1>6. CASE k <= n
  <2>1. stack'[k].pc \notin Removing \cup {"delete", "copy"} /\ stack'[k].file \in live
    BY <1>3, <1>6
  <2> QED BY <2>1 DEF Holds, Calls, Removing
<1>7. CASE k > n
  <2>1. ASSUME NEW j \in DOMAIN stack', j >= k
        PROVE  j - (n - 1) \in DOMAIN stack /\ stack'[j] = stack[j - (n - 1)]
    <3>1. j > n /\ j - n + 1 = j - (n - 1) /\ j - (n - 1) \in 1 .. Len(stack)
      BY <1>1, <1>2, <1>5, <1>7, <2>1
    <3> QED BY <1>1, <1>2, <3>1
  <2>2. /\ Len(stack') = Len(stack) + (n - 1) /\ n - 1 \in Int
        /\ DOMAIN stack' = 1 .. Len(stack')
    BY <1>1, <1>2
  <2> QED BY <2>1, <2>2, SameFrames
<1> QED BY <1>1, <1>5, <1>6, <1>7

LEMMA PushTwo ==
  ASSUME NEW S, NEW rest \in Seq(S), NEW x \in S, NEW y \in S
  PROVE  <<x>> \o (<<y>> \o rest) = <<x, y>> \o rest
<1>1. <<x>> \in Seq(S) /\ <<y>> \in Seq(S)
  OBVIOUS
<1>3. <<x>> \o <<y>> = <<x, y>>
  <2>1. /\ Len(<<x>> \o <<y>>) = 2 /\ <<x>> \o <<y>> \in Seq(S)
        /\ (<<x>> \o <<y>>)[1] = x /\ (<<x>> \o <<y>>)[2] = y
    OBVIOUS
  <2>2. \A s \in Seq(S) : Len(s) = 2 => s = <<s[1], s[2]>>
    OBVIOUS
  <2> QED BY <2>1, <2>2
<1>2. (<<x>> \o <<y>>) \o rest = <<x>> \o (<<y>> \o rest)
  BY <1>1, ConcatAssociative
<1> QED BY <1>1, <1>2, <1>3, Zenon

LEMMA ReplaceHead ==
  ASSUME NEW S, NEW old \in Seq(S), old # <<>>, NEW x \in S
  PROVE  [old EXCEPT ![1] = x] = <<x>> \o Tail(old)
OBVIOUS

LEMMA StackShapes ==
  ASSUME TypeOK, stack # <<>>
  PROVE  /\ Return = <<>> \o Tail(stack)
         /\ stack = <<Top>> \o Tail(stack)
         /\ \A label \in Label : Goto(label) = <<[Top EXCEPT !.pc = label]>> \o Tail(stack)
         /\ \A i \in Nat : [stack EXCEPT ![1].n = i] = <<[Top EXCEPT !.n = i]>> \o Tail(stack)
         /\ \A frame \in Frame : Call(frame, Return) = <<frame>> \o Tail(stack)
         /\ \A frame \in Frame, label \in Label :
              Call(frame, Goto(label)) = <<frame, [Top EXCEPT !.pc = label]>> \o Tail(stack)
         /\ \A f \in Desc, arr \in Seq(Token) :
              CallWrite(f, arr, Return) = <<Resize(f, Len(arr)), Write(f, arr)>> \o Tail(stack)
<1>1. /\ stack \in Seq(Frame) /\ Tail(stack) \in Seq(Frame) /\ Top \in Frame
      /\ Return = Tail(stack) /\ stack[1] = Top
  BY TopType DEF TypeOK, Return
<1>2. \A x \in Frame : [stack EXCEPT ![1] = x] = <<x>> \o Tail(stack)
  BY <1>1, ReplaceHead
<1>3. Return = <<>> \o Tail(stack)
  <2> DEFINE rest == Tail(stack)
  <2>1. rest \in Seq(Frame)
    BY <1>1
  <2> HIDE DEF rest
  <2>2. <<>> \o rest = rest
    BY <2>1
  <2> QED BY <1>1, <2>2 DEF rest
<1>4. stack = <<Top>> \o Tail(stack)
  <2>1. [stack EXCEPT ![1] = Top] = stack
    BY <1>1
  <2> QED BY <1>1, <1>2, <2>1
<1>5. ASSUME NEW label \in Label
      PROVE  Goto(label) = <<[Top EXCEPT !.pc = label]>> \o Tail(stack)
  <2>1. Goto(label) = [stack EXCEPT ![1] = [Top EXCEPT !.pc = label]]
    BY <1>1 DEF Goto
  <2> QED BY <1>1, <1>2, <2>1, FrameUpdates
<1>6. ASSUME NEW i \in Nat
      PROVE  [stack EXCEPT ![1].n = i] = <<[Top EXCEPT !.n = i]>> \o Tail(stack)
  <2>1. [stack EXCEPT ![1].n = i] = [stack EXCEPT ![1] = [Top EXCEPT !.n = i]]
    BY <1>1
  <2> QED BY <1>1, <1>2, <2>1, FrameUpdates
<1>7. ASSUME NEW frame \in Frame, NEW label \in Label
      PROVE  Call(frame, Goto(label)) = <<frame, [Top EXCEPT !.pc = label]>> \o Tail(stack)
  <2> DEFINE second == [Top EXCEPT !.pc = label]
  <2>1. second \in Frame
    BY <1>1, FrameUpdates
  <2>2. Goto(label) = <<second>> \o Tail(stack)
    BY <1>5
  <2> HIDE DEF second
  <2>3. <<frame>> \o (<<second>> \o Tail(stack)) = <<frame, second>> \o Tail(stack)
    BY <1>1, <2>1, PushTwo
  <2> QED BY <2>2, <2>3 DEF Call, second
<1>8. \A frame \in Frame : Call(frame, Return) = <<frame>> \o Tail(stack)
  BY <1>1 DEF Call
<1>9. \A f \in Desc, arr \in Seq(Token) :
        CallWrite(f, arr, Return) = <<Resize(f, Len(arr)), Write(f, arr)>> \o Tail(stack)
  BY <1>1 DEF CallWrite
<1> QED BY <1>3, <1>4, <1>5, <1>6, <1>7, <1>8, <1>9

\* The frame is to make its file empty, or has just made it empty.
Emptying(frame) ==
  /\ frame.pc \in {"resize", "parent", "bits"}
  /\ IF frame.pc = "resize" THEN frame.n = 0 ELSE size[frame.file] = 0

\* A frame that erases has just called the resize that is to empty its file.
EraseFresh ==
  \A k \in DOMAIN stack :
    /\ stack[k].pc # "grow"
    /\ stack[k].pc = "erase" =>
         k = 2 /\ Emptying(stack[1]) /\ stack[1].file = stack[2].to

\* What a step of a frame that removes nothing does to the stack and the sizes.
Turns(new) ==
  /\ new \in Seq(Frame) /\ stack' = new \o Tail(stack)
  /\ \A k \in DOMAIN new :
       /\ new[k].pc \notin Removing \cup {"delete", "copy"}
       /\ \/ new[k].file \in {Top.file, parent_directory[Top.file]}
          \/ Top.pc = "copy" /\ new[k].file = Top.to
       /\ new[k].pc = "grow" => /\ Len(new) = 1
                                /\ ResizeGrow \/ GrowSector \/ DiskFull
  /\ \A g \in Desc : g # Top.file => size'[g] = size[g]
  /\ Emptying(Top) =>
       /\ size'[Top.file] = 0
       /\ new # <<>> => /\ new[Len(new)].file = Top.file
                        /\ new[Len(new)].pc \in {"parent", "bits"}
       /\ \A k \in DOMAIN new :
            k # Len(new) => new[k].file = parent_directory[Top.file]

Transfer ==
  \/ WriteSector \/ WriteDone \/ ResizeSame \/ ResizeKeep \/ ResizeShrink
  \/ ResizeGrow \/ GrowSector \/ GrowDone \/ DiskFull \/ ResizeParent
  \/ ResizeBits \/ FlushMetadata \/ CopyData

LEMMA NoSectors == SectorCount(0) = 0 /\ \A n \in Nat : SectorCount(n) >= 0
BY SizesAssumption DEF SectorCount

LEMMA TransferTurns ==
  ASSUME TypeOK, Transfer
  PROVE  /\ \E new \in Seq(Frame) : Turns(new)
         /\ stack # <<>> /\ Top.pc \notin Removing \cup {"delete"}
         /\ UNCHANGED tree
<1>1. stack # <<>> /\ Top.pc \notin Removing \cup {"delete"}
  BY DEF Transfer, WriteSector, WriteDone, ResizeSame, ResizeKeep, ResizeShrink,
     ResizeGrow, GrowSector, GrowDone, DiskFull, ResizeParent, ResizeBits,
     FlushMetadata, CopyData, At, Removing
<1>2. UNCHANGED tree
  BY DEF Transfer, WriteSector, WriteDone, ResizeSame, ResizeKeep, ResizeShrink,
     ResizeGrow, GrowSector, GrowDone, DiskFull, ResizeParent, ResizeBits,
     FlushMetadata, CopyData
<1>3. /\ Top \in Frame /\ Top.file \in Desc /\ Top.to \in Desc /\ Top.n \in Nat
      /\ Tail(stack) \in Seq(Frame) /\ parent_directory[Top.file] \in Desc
      /\ size \in [Desc -> Nat]
  BY <1>1, TopType, FrameUpdates DEF TypeOK, Return
<1> SUFFICES \E new \in Seq(Frame) : Turns(new)
  BY <1>1, <1>2
<1>4. \A label \in Label : /\ [Top EXCEPT !.pc = label] \in Frame
                           /\ [Top EXCEPT !.pc = label].pc = label
                           /\ [Top EXCEPT !.pc = label].file = Top.file
  BY <1>3 DEF Frame
<1>5. \A i \in Nat : /\ [Top EXCEPT !.n = i] \in Frame
                     /\ [Top EXCEPT !.n = i].pc = Top.pc
                     /\ [Top EXCEPT !.n = i].file = Top.file
  BY <1>3 DEF Frame
\* A step that leaves one frame.
<1>6. ASSUME NEW frame \in Frame, stack' = <<frame>> \o Tail(stack),
             frame.file = Top.file, frame.pc \notin Removing \cup {"delete", "copy"},
             frame.pc = "grow" => ResizeGrow \/ GrowSector \/ DiskFull,
             \A g \in Desc : g # Top.file => size'[g] = size[g],
             Emptying(Top) => size'[Top.file] = 0 /\ frame.pc \in {"parent", "bits"}
      PROVE  \E new \in Seq(Frame) : Turns(new)
  <2>1. <<frame>> \in Seq(Frame) /\ DOMAIN <<frame>> = {1} /\ Len(<<frame>>) = 1
        /\ <<frame>>[1] = frame
    OBVIOUS
  <2>2. Turns(<<frame>>)
    BY <1>6, <2>1 DEF Turns
  <2> QED BY <2>1, <2>2
\* A step that returns.
<1>7. ASSUME stack' = Return,
             \A g \in Desc : g # Top.file => size'[g] = size[g],
             Emptying(Top) => size'[Top.file] = 0
      PROVE  \E new \in Seq(Frame) : Turns(new)
  <2>1. <<>> \in Seq(Frame) /\ DOMAIN <<>> = {}
    OBVIOUS
  <2>2. stack' = <<>> \o Tail(stack)
    BY <1>1, <1>7, StackShapes
  <2>3. Turns(<<>>)
    BY <1>7, <2>1, <2>2 DEF Turns
  <2> QED BY <2>1, <2>3
\* A step that calls write() of a file.
<1>8. ASSUME NEW f \in Desc, NEW arr \in Seq(Token), stack' = CallWrite(f, arr, Return),
             f = Top.file \/ (Top.pc = "copy" /\ f = Top.to),
             UNCHANGED size, Top.pc \in {"flush", "copy"}
      PROVE  \E new \in Seq(Frame) : Turns(new)
  <2> DEFINE new == <<Resize(f, Len(arr)), Write(f, arr)>>
  <2>1. /\ Resize(f, Len(arr)) \in Frame /\ Write(f, arr) \in Frame
        /\ Resize(f, Len(arr)).file = f /\ Write(f, arr).file = f
        /\ Resize(f, Len(arr)).pc = "resize" /\ Write(f, arr).pc = "write"
    <3>1. Len(arr) \in Nat
      OBVIOUS
    <3> QED BY <3>1, ResizeType, WriteType DEF Resize, Write, Activation
  <2>2. /\ new \in Seq(Frame) /\ DOMAIN new = {1, 2} /\ new[1] = Resize(f, Len(arr))
        /\ new[2] = Write(f, arr)
    BY <2>1
  <2>3. stack' = new \o Tail(stack)
    BY <1>1, <1>8, StackShapes
  <2> HIDE DEF new
  <2>4. ~ Emptying(Top)
    BY <1>8 DEF Emptying
  <2>5. Turns(new)
    BY <1>8, <2>1, <2>2, <2>3, <2>4 DEF Turns, Removing
  <2> QED BY <2>2, <2>5
<1>9. CASE WriteSector
  <2> DEFINE i == Top.n + 1
             frame == [Top EXCEPT !.n = i]
  <2>1. i \in Nat
    BY <1>3
  <2>2. stack' = [stack EXCEPT ![1].n = i]
    <3>1. stack[1] = Top
      BY <1>1, TopType DEF TypeOK
    <3> QED BY <1>9, <3>1 DEF WriteSector
  <2> HIDE DEF i
  <2>3. stack' = <<frame>> \o Tail(stack)
    BY <1>1, <2>1, <2>2, StackShapes
  <2>4. frame \in Frame /\ frame.pc = Top.pc /\ frame.file = Top.file
    BY <1>5, <2>1
  <2> HIDE DEF frame
  <2>5. Top.pc = "write"
    BY <1>9 DEF WriteSector, At
  <2>6. size' = size
    BY <1>9 DEF WriteSector
  <2>7. ~ Emptying(Top)
    BY <2>5 DEF Emptying
  <2>8. frame.pc \notin Removing \cup {"delete", "copy", "grow"}
    BY <2>4, <2>5 DEF Removing
  <2> QED BY <1>6, <2>3, <2>4, <2>6, <2>7, <2>8
<1>10. CASE WriteDone
  <2>1. Top.pc = "write" /\ stack' = Return /\ size' = size
    BY <1>10 DEF WriteDone, At
  <2>2. ~ Emptying(Top)
    BY <2>1 DEF Emptying
  <2> QED BY <1>7, <2>1, <2>2
<1>11. CASE ResizeSame
  <2>1. /\ Top.pc = "resize" /\ Top.n = size[Top.file] /\ stack' = Return
        /\ size' = size
    BY <1>11 DEF ResizeSame, At
  <2>2. Emptying(Top) => size'[Top.file] = 0
    BY <2>1 DEF Emptying
  <2> QED BY <1>7, <2>1, <2>2
<1>12. CASE ResizeKeep \/ ResizeShrink
  <2> DEFINE frame == [Top EXCEPT !.pc = "parent"]
  <2>1. /\ Top.pc = "resize" /\ size' = [size EXCEPT ![Top.file] = Top.n]
        /\ stack' = Goto("parent")
    BY <1>12 DEF ResizeKeep, ResizeShrink, At
  <2>2. stack' = <<frame>> \o Tail(stack)
    BY <1>1, <2>1, StackShapes DEF Label
  <2>3. \A g \in Desc : size'[g] = IF g = Top.file THEN Top.n ELSE size[g]
    BY <1>3, <2>1
  <2>4. frame \in Frame /\ frame.pc = "parent" /\ frame.file = Top.file
    BY <1>4 DEF Label
  <2> HIDE DEF frame
  <2>5. Emptying(Top) => size'[Top.file] = 0
    BY <1>3, <2>1, <2>3 DEF Emptying
  <2>6. frame.pc \notin Removing \cup {"delete", "copy", "grow"}
    BY <2>4 DEF Removing
  <2> QED BY <1>6, <2>2, <2>3, <2>4, <2>5, <2>6
<1>13. CASE ResizeGrow
  <2> DEFINE frame == [Top EXCEPT !.pc = "grow"]
  <2>1. /\ Top.pc = "resize" /\ size' = [size EXCEPT ![Top.file] = Top.n]
        /\ stack' = Goto("grow") /\ SectorCount(Top.n) > SectorCount(size[Top.file])
    BY <1>13 DEF ResizeGrow, At
  <2>2. stack' = <<frame>> \o Tail(stack)
    BY <1>1, <2>1, StackShapes DEF Label
  <2>3. \A g \in Desc : size'[g] = IF g = Top.file THEN Top.n ELSE size[g]
    BY <1>3, <2>1
  <2>4. Top.n # 0
    <3>1. size[Top.file] \in Nat
      BY <1>3
    <3>2. SectorCount(size[Top.file]) >= 0 /\ SectorCount(size[Top.file]) \in Nat
      BY <3>1, NoSectors, SectorCountType
    <3> QED BY <2>1, <3>2, NoSectors
  <2>5. ~ Emptying(Top)
    BY <2>1, <2>4 DEF Emptying
  <2>6. frame \in Frame /\ frame.pc = "grow" /\ frame.file = Top.file
    BY <1>4 DEF Label
  <2> HIDE DEF frame
  <2>7. frame.pc \notin Removing \cup {"delete", "copy"}
    BY <2>6 DEF Removing
  <2> QED BY <1>6, <1>13, <2>2, <2>3, <2>5, <2>6, <2>7
<1>14. CASE GrowSector \/ DiskFull
  <2>1. Top.pc = "grow" /\ UNCHANGED <<stack, size>>
    BY <1>14 DEF GrowSector, DiskFull, At
  <2>2. stack' = <<Top>> \o Tail(stack)
    BY <1>1, <2>1, StackShapes
  <2>3. ~ Emptying(Top) /\ Top.pc \notin Removing \cup {"delete", "copy"}
    BY <2>1 DEF Emptying, Removing
  <2> QED BY <1>3, <1>6, <1>14, <2>1, <2>2, <2>3
<1>15. CASE GrowDone
  <2> DEFINE frame == [Top EXCEPT !.pc = "parent"]
  <2>1. Top.pc = "grow" /\ UNCHANGED size /\ stack' = Goto("parent")
    BY <1>15 DEF GrowDone, At
  <2>2. stack' = <<frame>> \o Tail(stack)
    BY <1>1, <2>1, StackShapes DEF Label
  <2>3. frame \in Frame /\ frame.pc = "parent" /\ frame.file = Top.file
    BY <1>4 DEF Label
  <2> HIDE DEF frame
  <2>4. ~ Emptying(Top) /\ frame.pc \notin Removing \cup {"delete", "copy", "grow"}
    BY <2>1, <2>3 DEF Emptying, Removing
  <2> QED BY <1>6, <2>1, <2>2, <2>3, <2>4
<1>16. CASE ResizeParent
  <2> DEFINE p == parent_directory[Top.file]
             second == [Top EXCEPT !.pc = "bits"]
             new == <<Flush(p), second>>
  <2>1. Top.pc = "parent" /\ UNCHANGED size /\ stack' = Call(Flush(p), Goto("bits"))
    BY <1>16 DEF ResizeParent, At
  <2>2. /\ Flush(p) \in Frame /\ Flush(p).file = p /\ Flush(p).pc = "flush"
    BY <1>3, FlushType DEF Flush, Activation
  <2>3. second \in Frame /\ second.pc = "bits" /\ second.file = Top.file
    BY <1>4 DEF Label
  <2>4. stack' = new \o Tail(stack)
    BY <1>1, <2>1, <2>2, StackShapes DEF Label
  <2> HIDE DEF second, p
  <2>5. /\ new \in Seq(Frame) /\ DOMAIN new = {1, 2} /\ new[1] = Flush(p)
        /\ new[2] = second /\ Len(new) = 2
    BY <2>2, <2>3
  <2> HIDE DEF new
  <2>6. Emptying(Top) => size'[Top.file] = 0
    BY <2>1 DEF Emptying
  <2>7. \A k \in DOMAIN new : /\ new[k].pc \notin Removing \cup {"delete", "copy", "grow"}
                              /\ k # Len(new) => new[k].file = parent_directory[Top.file]
                              /\ new[k].file \in {Top.file, parent_directory[Top.file]}
    BY <2>2, <2>3, <2>5 DEF p, Removing
  <2>8. new[Len(new)].file = Top.file /\ new[Len(new)].pc \in {"parent", "bits"}
    BY <2>3, <2>5
  <2>9. \A g \in Desc : g # Top.file => size'[g] = size[g]
    BY <2>1
  <2>10. Turns(new)
    BY <2>4, <2>5, <2>6, <2>7, <2>8, <2>9 DEF Turns
  <2> QED BY <2>5, <2>10
<1>17. CASE ResizeBits
  <2>1. Top.pc = "bits" /\ stack' = Return /\ size' = size
    BY <1>17 DEF ResizeBits, At
  <2>2. Emptying(Top) => size'[Top.file] = 0
    BY <2>1 DEF Emptying
  <2> QED BY <1>7, <2>1, <2>2
<1>18. CASE FlushMetadata
  <2> DEFINE arr == Serialize(Top.file)
  <2>1. arr \in Seq(Token)
    BY <1>3, SerializeType
  <2>2. /\ Top.pc = "flush" /\ UNCHANGED size
        /\ stack' = CallWrite(Top.file, arr, Return)
    BY <1>18 DEF FlushMetadata, At
  <2> HIDE DEF arr
  <2> QED BY <1>3, <1>8, <2>1, <2>2
<1>19. CASE CopyData
  <2> DEFINE arr == Read(Top.file)
  <2>1. arr \in Seq(Token)
    BY <1>3, ReadType
  <2>2. /\ Top.pc = "copy" /\ UNCHANGED size
        /\ stack' = CallWrite(Top.to, arr, Return)
    BY <1>19 DEF CopyData, At
  <2> HIDE DEF arr
  <2> QED BY <1>3, <1>8, <2>1, <2>2
<1> QED BY <1>9, <1>10, <1>11, <1>12, <1>13, <1>14, <1>15, <1>16, <1>17, <1>18,
       <1>19 DEF Transfer

-----------------------------------------------------------------------------
(* Every step keeps the tree and the calls.                                *)

LEMMA InitTree == Init => TreeInv
<1> SUFFICES ASSUME Init PROVE TreeInv
  OBVIOUS
<1>1. /\ live = Image.live /\ parent_directory = Image.parent_directory
      /\ files = Image.files /\ DOMAIN stack = {}
  BY DEF Init
<1>2. Linked
  BY <1>1, LoadAssumption DEF Linked, Children
<1>3. Acyclic
  BY <1>1, LoadAssumption DEF Acyclic
<1>4. StackInv
  BY <1>1 DEF StackInv
<1> QED BY <1>2, <1>3, <1>4 DEF TreeInv

LEMMA SameTree ==
  ASSUME Linked, Acyclic, UNCHANGED tree
  PROVE  Linked' /\ Acyclic'
BY DEF Linked, Acyclic, Children, tree

LEMMA TransferTree ==
  ASSUME TypeOK, TreeInv, Transfer
  PROVE  TreeInv'
<1>1. stack # <<>> /\ Top.pc \notin Removing \cup {"delete"} /\ UNCHANGED tree
  BY TransferTurns
<1>2. PICK new \in Seq(Frame) : Turns(new)
  BY TransferTurns
<1>3. stack[1] = Top /\ 1 \in DOMAIN stack /\ Top.file \in live
  <2>1. 1 \in DOMAIN stack /\ stack[1] = Top
    BY <1>1, TopType DEF TypeOK
  <2> QED BY <2>1 DEF TreeInv, StackInv, Holds
<1>4. ASSUME NEW k \in DOMAIN new
      PROVE  /\ new[k].pc \notin Removing \cup {"delete", "copy"}
             /\ new[k].file \in live
  <2>1. new[k].pc \notin Removing \cup {"delete", "copy"}
    BY <1>2 DEF Turns
  <2>2. \/ new[k].file \in {Top.file, parent_directory[Top.file]}
        \/ Top.pc = "copy" /\ new[k].file = Top.to
    BY <1>2 DEF Turns
  <2>3. parent_directory[Top.file] \in live
    BY <1>3 DEF TreeInv, Linked
  <2>4. Top.pc = "copy" => Top.to \in live
    BY <1>3 DEF TreeInv, StackInv, Holds
  <2> QED BY <1>3, <2>1, <2>2, <2>3, <2>4
<1>5. stack' = new \o Tail(stack)
  BY <1>2 DEF Turns
<1>6. UNCHANGED <<live, files>>
  BY <1>1 DEF tree
<1>7. StackInv'
  BY <1>1, <1>4, <1>5, <1>6, ReplaceTop DEF TreeInv
<1> QED BY <1>1, <1>7, SameTree DEF TreeInv

\* A frame that removes, at the top, may call the removal of a child.
LEMMA RemoveChildTree ==
  ASSUME TypeOK, TreeInv, RemoveChild
  PROVE  TreeInv' /\ EraseFresh'
<1> USE DEF TreeInv
<1>1. stack # <<>> /\ Top.pc = "remove" /\ UNCHANGED tree
  BY DEF RemoveChild, At
<1>2. /\ 1 \in DOMAIN stack /\ stack[1] = Top /\ Top \in Frame /\ Top.to \in Desc
      /\ Top.file \in Desc
  BY <1>1, TopFrame
<1>3. Holds(1) /\ Calls(1)
  BY <1>2 DEF StackInv
<1>4. Top.to \in live \ {Root} /\ Top.to \in Desc
  BY <1>1, <1>2, RemovedLinked DEF Removing
<1>5. UNCHANGED <<live, files>> /\ Linked' /\ Acyclic'
  BY <1>1, SameTree DEF tree
<1>6. /\ stack \in Seq(Frame) /\ Len(stack) \in Nat /\ Len(stack) >= 1
      /\ DOMAIN stack = 1 .. Len(stack)
  BY <1>2, StackTypes
<1>7. CASE Top.to \in Dirs /\ files[Top.to] # <<>>
  <2> DEFINE child == Discard(Top.to, 1)
  <2>1. stack' = <<child>> \o stack
    BY <1>7 DEF RemoveChild, Call
  <2>2. 1 \in DOMAIN files[Top.to]
    BY <1>2, <1>7 DEF TypeOK
  <2>3. child \in Frame
    BY <1>2, <2>2, DiscardType
  <2>4. /\ child.pc = "remove" /\ child.file = Top.to /\ child.n = 1
        /\ child.to = files[Top.to][1]
    BY DEF Discard, Activation
  <2> HIDE DEF child
  <2>5. /\ Len(stack') = Len(stack) + 1 /\ DOMAIN stack' = 1 .. Len(stack) + 1
        /\ stack'[1] = child
        /\ \A k \in 2 .. Len(stack) + 1 : stack'[k] = stack[k - 1]
    BY <1>6, <2>1, <2>3
  <2>6. \A k \in DOMAIN stack : k > 1 => stack[k].pc \in {"remove", "delete"}
    BY <1>1, <1>2, <1>3 DEF Calls, Removing
  <2>7. Holds(1)'
    BY <1>4, <1>5, <2>2, <2>4, <2>5 DEF Holds, Removing
  <2>8. Calls(1)'
    <3>1. stack'[2] = stack[1]
      BY <1>6, <2>5
    <3>2. \A j \in DOMAIN stack' : j > 1 => stack'[j].pc \in {"remove", "delete"}
      <4> SUFFICES ASSUME NEW j \in DOMAIN stack', j > 1
                   PROVE  stack'[j].pc \in {"remove", "delete"}
        OBVIOUS
      <4>1. stack'[j] = stack[j - 1] /\ j - 1 \in DOMAIN stack
        BY <1>6, <2>5
      <4>2. CASE j = 2
        BY <1>1, <1>2, <3>1, <4>2
      <4>3. CASE j # 2
        BY <1>6, <2>5, <2>6, <4>1, <4>3
      <4> QED BY <4>2, <4>3
    <3> QED BY <1>1, <1>2, <2>4, <2>5, <3>1, <3>2 DEF Calls
  <2>9. ASSUME NEW k \in DOMAIN stack', k > 1
        PROVE  Holds(k)' /\ Calls(k)'
    <3>1. ASSUME NEW j \in DOMAIN stack', j >= k
          PROVE  j - 1 \in DOMAIN stack /\ stack'[j] = stack[j - 1]
      BY <1>6, <2>5, <2>9, <3>1
    <3> QED BY <1>5, <1>6, <2>5, <3>1, SameFrames
  <2>10. StackInv'
    <3> SUFFICES ASSUME NEW k \in DOMAIN stack' PROVE Holds(k)' /\ Calls(k)'
      BY DEF StackInv
    <3>1. k = 1 \/ k > 1
      BY <1>6, <2>5
    <3> QED BY <2>7, <2>8, <2>9, <3>1
  <2>11. EraseFresh'
    <3> SUFFICES ASSUME NEW k \in DOMAIN stack'
                 PROVE  stack'[k].pc \notin {"grow", "erase"}
      BY DEF EraseFresh
    <3>1. k = 1 \/ k = 2 \/ k > 2
      BY <1>6, <2>5
    <3>2. CASE k > 2
      <4>1. k - 1 \in DOMAIN stack /\ k - 1 > 1 /\ stack'[k] = stack[k - 1]
        BY <1>6, <2>5, <3>2
      <4> QED BY <2>6, <4>1
    <3>3. CASE k = 2
      <4>1. stack'[2] = stack[1]
        BY <1>6, <2>5
      <4> QED BY <1>1, <1>2, <3>3, <4>1
    <3> QED BY <2>4, <2>5, <3>1, <3>2, <3>3
  <2> QED BY <1>5, <2>10, <2>11
<1>8. CASE ~ (Top.to \in Dirs /\ files[Top.to] # <<>>)
  <2> DEFINE first == Resize(Top.to, 0)
             second == [Top EXCEPT !.pc = "erase"]
  <2>1. /\ first \in Frame /\ first.pc = "resize" /\ first.file = Top.to /\ first.n = 0
    BY <1>2, ResizeType DEF Resize, Activation
  <2>2. /\ second \in Frame /\ second.pc = "erase" /\ second.file = Top.file
        /\ second.to = Top.to /\ second.n = Top.n
    BY <1>2 DEF Frame, Label
  <2>3. stack' = <<first, second>> \o Tail(stack)
    <3>1. stack' = Call(first, Goto("erase"))
      BY <1>8 DEF RemoveChild
    <3> QED BY <1>1, <2>1, <3>1, StackShapes DEF Label
  <2> HIDE DEF first, second
  <2>4. /\ Len(stack') = Len(stack) + 1 /\ DOMAIN stack' = 1 .. Len(stack) + 1
        /\ stack'[1] = first /\ stack'[2] = second
        /\ \A k \in 3 .. Len(stack) + 1 : stack'[k] = stack[k - 1]
    <3> DEFINE new == <<first, second>>
    <3>1. new \in Seq(Frame) /\ Len(new) = 2 /\ new[1] = first /\ new[2] = second
      BY <2>1, <2>2
    <3> HIDE DEF new
    <3>2. stack' = new \o Tail(stack)
      BY <2>3 DEF new
    <3>3. /\ Len(stack') = Len(new) + Len(stack) - 1
          /\ DOMAIN stack' = 1 .. Len(new) + Len(stack) - 1
          /\ \A k \in 1 .. Len(new) : stack'[k] = new[k]
          /\ \A k \in 1 .. Len(new) + Len(stack) - 1 :
               k > Len(new) => stack'[k] = stack[k - Len(new) + 1]
      <4>1. new \in Seq(Frame) /\ stack \in Seq(Frame) /\ stack # <<>>
        BY <1>1, <1>6, <3>1
      <4> QED BY <3>2, <4>1, ConcatTail
    <3>4. \A k \in 3 .. Len(stack) + 1 : stack'[k] = stack[k - 1]
      <4> SUFFICES ASSUME NEW k \in 3 .. Len(stack) + 1 PROVE stack'[k] = stack[k - 1]
        OBVIOUS
      <4>1. k \in 1 .. Len(new) + Len(stack) - 1 /\ k > Len(new) /\ k - Len(new) + 1 = k - 1
        BY <1>6, <3>1
      <4> QED BY <3>3, <4>1
    <3> QED BY <1>6, <3>1, <3>3, <3>4
  <2>5. files[Top.to] = <<>>
    <3>1. Top.to \notin Dirs => Range(files[Top.to]) = {}
      BY <1>4, NoChildren
    <3>2. (Range(files[Top.to]) = {}) = (files[Top.to] = <<>>)
      BY <1>4, NoChildren
    <3> QED BY <1>8, <3>1, <3>2
  <2>6. Holds(1)' /\ Calls(1)'
    BY <1>4, <1>5, <2>1, <2>4 DEF Holds, Calls, Removing
  <2>7. Holds(2)'
    BY <1>1, <1>2, <1>3, <1>5, <2>2, <2>4, <2>5 DEF Holds, Removing
  <2>8. Calls(2)'
    <3>1. 2 = Len(stack') <=> 1 = Len(stack)
      BY <1>6, <2>4
    <3>2. 1 # Len(stack) => stack'[3] = stack[2]
      BY <1>6, <2>4
    <3>3. ASSUME NEW j \in DOMAIN stack', j > 2
          PROVE  stack'[j].pc \in {"remove", "delete"}
      <4>1. j - 1 \in DOMAIN stack /\ j - 1 > 1 /\ stack'[j] = stack[j - 1]
        BY <1>6, <2>4, <3>3
      <4> QED BY <1>1, <1>2, <1>3, <4>1 DEF Calls, Removing
    <3> QED BY <1>1, <1>2, <1>3, <2>2, <2>4, <3>1, <3>2, <3>3 DEF Calls, Removing
  <2>9. ASSUME NEW k \in DOMAIN stack', k > 2
        PROVE  Holds(k)' /\ Calls(k)'
    <3>1. ASSUME NEW j \in DOMAIN stack', j >= k
          PROVE  j - 1 \in DOMAIN stack /\ stack'[j] = stack[j - 1]
      BY <1>6, <2>4, <2>9, <3>1
    <3> QED BY <1>5, <1>6, <2>4, <3>1, SameFrames
  <2>10. StackInv'
    <3> SUFFICES ASSUME NEW k \in DOMAIN stack' PROVE Holds(k)' /\ Calls(k)'
      BY DEF StackInv
    <3>1. k = 1 \/ k = 2 \/ k > 2
      BY <1>6, <2>4
    <3> QED BY <2>6, <2>7, <2>8, <2>9, <3>1
  <2>11. EraseFresh'
    <3> SUFFICES ASSUME NEW k \in DOMAIN stack'
                 PROVE  /\ stack'[k].pc # "grow"
                        /\ stack'[k].pc = "erase" => k = 2
      <4>1. Emptying(stack[1])' /\ stack'[1].file = stack'[2].to
        BY <2>1, <2>2, <2>4 DEF Emptying
      <4> QED BY <4>1 DEF EraseFresh
    <3>1. k = 1 \/ k = 2 \/ k > 2
      BY <1>6, <2>4
    <3>2. CASE k > 2
      <4>1. k - 1 \in DOMAIN stack /\ k - 1 > 1 /\ stack'[k] = stack[k - 1]
        BY <1>6, <2>4, <3>2
      <4>2. stack[k - 1].pc \in {"remove", "delete"}
        BY <1>1, <1>2, <1>3, <4>1 DEF Calls, Removing
      <4> QED BY <4>1, <4>2
    <3> QED BY <2>1, <2>2, <2>4, <3>1, <3>2
  <2> QED BY <1>5, <2>10, <2>11
<1> QED BY <1>7, <1>8

\* removeFile frees the descriptor and takes it out of the list: the frames
\* below work in directories further up, so that theirs are still there.
LEMMA RemoveEraseStep ==
  ASSUME TypeOK, TreeInv, RemoveErase
  PROVE  TreeInv' /\ EraseFresh'
<1> DEFINE d == Top.file
           f == Top.to
<1>1. stack # <<>> /\ Top.pc = "erase"
  BY DEF RemoveErase, At
<1>2. /\ 1 \in DOMAIN stack /\ stack[1] = Top /\ Top \in Frame /\ f \in Desc
      /\ d \in Desc
  BY <1>1, TopFrame
<1>3. Linked /\ Acyclic /\ StackInv /\ Holds(1) /\ Calls(1)
  BY <1>2 DEF TreeInv, StackInv
<1>4. Top.n \in DOMAIN files[d] /\ files[d][Top.n] = f /\ files[f] = <<>>
  BY <1>1, <1>2, <1>3 DEF Holds, Removing
<1>5. f \in live \ {Root} /\ parent_directory[f] = d /\ d \in live
  BY <1>2, <1>3, <1>4, EntryLinked
<1>6. /\ live' = live \ {f}
      /\ files' = [files EXCEPT ![d] = Erase(files[d], Top.n), ![f] = <<>>]
      /\ parent_directory' = [parent_directory EXCEPT ![f] = Root]
  BY <1>4 DEF RemoveErase
<1>7. Linked' /\ Acyclic'
  BY <1>2, <1>3, <1>4, <1>6, RemoveEraseTree
<1>8. /\ stack \in Seq(Frame) /\ Len(stack) \in Nat /\ DOMAIN stack = 1 .. Len(stack)
      /\ Len(stack) >= 1
  BY <1>2, StackTypes
<1>9. /\ Flush(d) \in Frame /\ Flush(d).file = d /\ Flush(d).pc = "flush"
  BY <1>2, FlushType DEF Flush, Activation
<1>10. /\ Len(stack') = Len(stack) /\ DOMAIN stack' = DOMAIN stack
       /\ stack'[1] = Flush(d)
       /\ \A k \in DOMAIN stack : k > 1 => stack'[k] = stack[k]
  <2> DEFINE x == Flush(d)
  <2>1. x \in Frame /\ stack' = <<x>> \o Tail(stack)
    BY <1>9 DEF RemoveErase, Call, Return
  <2> HIDE DEF x
  <2>2. /\ Len(stack') = Len(stack) /\ DOMAIN stack' = 1 .. Len(stack) /\ stack'[1] = x
        /\ \A k \in 1 .. Len(stack) : k > 1 => stack'[k] = stack[k]
    BY <1>1, <1>8, <2>1, HeadReplaced
  <2> QED BY <1>8, <2>2 DEF x
<1>11. \A k \in DOMAIN stack : k > 1 => stack[k].pc \in {"remove", "delete"}
  BY <1>1, <1>2, <1>3 DEF Calls, Removing
<1> HIDE DEF f, d
\* A removing frame below works neither in d nor in what is removed.
<1>12. ASSUME NEW k \in DOMAIN stack, k > 1, stack[k].pc = "remove"
       PROVE  stack[k].file # f /\ stack[k].file # d
  <2>1. stack[k].file # f
    BY <1>1, <1>2, <1>3, <1>8, <1>12, PathUpwards DEF Removing, f
  <2>2. 2 \in DOMAIN stack /\ 1 # Len(stack)
    BY <1>8, <1>12
  <2>3. stack[2].pc = "remove"
    <3>1. CASE k = 2
      BY <1>12, <3>1
    <3>2. CASE k # 2
      <4>1. 2 # Len(stack)
        BY <1>8, <1>12, <3>2
      <4>2. stack[2].pc # "delete"
        BY <1>3, <2>2, <4>1 DEF StackInv, Calls
      <4> QED BY <1>11, <2>2, <4>2
    <3> QED BY <3>1, <3>2
  <2>4. stack[2].to = d
    BY <1>1, <1>2, <1>3, <2>2, <2>3 DEF Calls, Removing, d
  <2>5. stack[k].file # d
    <3>1. k \in Nat /\ 2 <= k
      BY <1>8, <1>12
    <3> QED BY <1>3, <1>12, <2>2, <2>3, <2>4, <3>1, PathUpwards DEF Removing
  <2> QED BY <2>1, <2>5
<1>13. ASSUME NEW k \in DOMAIN stack, k > 1
       PROVE  Holds(k)'
  <2>1. stack'[k] = stack[k] /\ Holds(k) /\ Calls(k)
    BY <1>3, <1>10, <1>13 DEF StackInv
  <2>2. CASE stack[k].pc = "remove"
    <3>1. stack[k].file # f /\ stack[k].file # d
      BY <1>12, <1>13, <2>2
    <3>2. stack[k].file \in Desc
      BY StackTypes
    <3>3. files'[stack[k].file] = files[stack[k].file]
      BY <1>6, <3>1, <3>2 DEF TypeOK
    <3>4. stack[k].file \in live'
      BY <1>6, <2>1, <3>1 DEF Holds
    <3> QED BY <2>1, <2>2, <3>3, <3>4 DEF Holds, Removing
  <2>3. CASE stack[k].pc = "delete"
    <3>1. k = Len(stack) /\ k \in Nat
      BY <1>8, <2>1, <2>3 DEF Calls
    <3> DEFINE j == k - 1
    <3>2. /\ j \in DOMAIN stack /\ j # Len(stack) /\ j + 1 = k /\ (j = 1 \/ j > 1)
      <4>1. Len(stack) \in Nat /\ Len(stack) > 1
        BY <1>8, <1>13, <3>1
      <4>2. j \in 1 .. Len(stack) /\ j # Len(stack) /\ j + 1 = Len(stack)
            /\ (j = 1 \/ j > 1)
        BY <3>1, <4>1
      <4> QED BY <1>8, <3>1, <4>2
    <3> HIDE DEF j
    <3>3. Holds(j) /\ Calls(j)
      BY <1>3, <3>2 DEF StackInv
    <3>4. stack[j].pc \in Removing /\ (j > 1 => stack[j].pc = "remove")
      <4>1. stack[j].pc # "delete"
        BY <3>2, <3>3 DEF Calls
      <4>2. j > 1 => stack[j].pc = "remove"
        BY <1>11, <3>2, <4>1
      <4> QED BY <1>1, <1>2, <3>2, <4>2 DEF Removing
    <3>5. stack[k].file = stack[j].file
      BY <2>3, <3>2, <3>3, <3>4 DEF Calls
    <3>6. stack[j].file # f
      <4>1. CASE j = 1
        <5>1. d # f
          BY <1>3, <1>5, NotAboveItself
        <5> QED BY <1>2, <4>1, <5>1 DEF d
      <4>2. CASE j > 1
        BY <1>12, <3>2, <3>4, <4>2
      <4> QED BY <3>2, <4>1, <4>2
    <3>7. stack[k].file \in live'
      BY <1>6, <2>1, <3>5, <3>6 DEF Holds
    <3> QED BY <2>1, <2>3, <3>7 DEF Holds, Removing
  <2> QED BY <1>11, <1>13, <2>2, <2>3
<1>14. ASSUME NEW k \in DOMAIN stack, k > 1
       PROVE  Calls(k)'
  <2>1. stack'[k] = stack[k] /\ Calls(k)
    BY <1>3, <1>10, <1>14 DEF StackInv
  <2>2. k # Len(stack) => k + 1 \in DOMAIN stack /\ stack'[k + 1] = stack[k + 1]
    BY <1>8, <1>10, <1>14
  <2>3. \A j \in DOMAIN stack : j > k => stack'[j] = stack[j]
    BY <1>8, <1>10, <1>14
  <2> QED BY <1>10, <2>1, <2>2, <2>3 DEF Calls
<1>15. Holds(1)' /\ Calls(1)'
  <2>1. d \in live'
    <3>1. d # f
      BY <1>3, <1>5, NotAboveItself
    <3> QED BY <1>5, <1>6, <3>1
  <2> QED BY <1>9, <1>10, <2>1 DEF Holds, Calls, Removing
<1>16. StackInv'
  <2> SUFFICES ASSUME NEW k \in DOMAIN stack PROVE Holds(k)' /\ Calls(k)'
    BY <1>10 DEF StackInv
  <2>1. k = 1 \/ k > 1
    BY <1>8
  <2> QED BY <1>13, <1>14, <1>15, <2>1
<1>17. EraseFresh'
  <2> SUFFICES ASSUME NEW k \in DOMAIN stack
               PROVE  stack'[k].pc \notin {"grow", "erase"}
    BY <1>10 DEF EraseFresh
  <2>1. k = 1 \/ k > 1
    BY <1>8
  <2> QED BY <1>9, <1>10, <1>11, <2>1
<1> QED BY <1>7, <1>16, <1>17 DEF TreeInv

LEMMA DeleteNextTree ==
  ASSUME TypeOK, TreeInv, DeleteNext
  PROVE  TreeInv' /\ EraseFresh'
<1> DEFINE d == Top.file
           matches == {i \in DOMAIN files[d] : i >= Top.n /\ name[files[d][i]] = Top.name}
<1>1. stack # <<>> /\ Top.pc = "delete" /\ UNCHANGED tree
  BY DEF DeleteNext, At
<1>2. /\ 1 \in DOMAIN stack /\ stack[1] = Top /\ Top \in Frame /\ d \in Desc
  BY <1>1, TopFrame
<1>3. Linked /\ Acyclic /\ StackInv /\ Holds(1) /\ Calls(1)
  BY <1>2 DEF TreeInv, StackInv
<1>4. /\ Len(stack) = 1 /\ DOMAIN stack = {1} /\ stack \in Seq(Frame)
  <2>1. /\ stack \in Seq(Frame) /\ Len(stack) \in Nat /\ DOMAIN stack = 1 .. Len(stack)
    BY StackTypes
  <2>2. 1 = Len(stack)
    BY <1>1, <1>2, <1>3 DEF Calls
  <2>3. 1 .. 1 = {1}
    OBVIOUS
  <2> QED BY <2>1, <2>2, <2>3
<1>5. UNCHANGED <<live, files>> /\ Linked' /\ Acyclic'
  BY <1>1, <1>3, SameTree DEF tree
<1>6. CASE matches = {}
  <2>1. stack' = Tail(stack)
    BY <1>6 DEF DeleteNext, Return
  <2>2. DOMAIN stack' = {}
    BY <1>4, <2>1
  <2>3. StackInv' /\ EraseFresh'
    BY <2>2 DEF StackInv, EraseFresh
  <2> QED BY <1>5, <2>3 DEF TreeInv
<1>7. CASE matches # {}
  <2> DEFINE i == Min(matches)
             child == Discard(d, i)
             rest == [stack EXCEPT ![1].n = i + 1]
  <2>1. i \in DOMAIN files[d] /\ i \in Nat
    <3>1. files[d] \in Seq(Desc)
      BY <1>2 DEF TypeOK
    <3>2. \A k \in matches : k \in DOMAIN files[d] /\ k \in Nat
      BY <3>1, DomainNat
    <3> HIDE DEF matches
    <3>3. \E m \in matches : \A k \in matches : m <= k
      BY <1>7, <3>2, LeastNatural
    <3>4. Min(matches) \in matches
      BY <3>3 DEF Min
    <3> QED BY <3>2, <3>4
  <2>2. stack' = <<child>> \o rest
    BY <1>7 DEF DeleteNext, Call
  <2>3. /\ child \in Frame /\ child.pc = "remove" /\ child.file = d /\ child.n = i
        /\ child.to = files[d][i]
    <3>1. child \in Frame
      BY <1>2, <2>1, DiscardType
    <3> QED BY <3>1 DEF Discard, Activation
  <2> HIDE DEF i, child, matches
  <2>4. /\ rest \in Seq(Frame) /\ Len(rest) = 1 /\ rest[1].pc = "delete"
        /\ rest[1].file = d
    <3>1. i + 1 \in Nat
      BY <2>1
    <3>2. rest \in Seq(Frame)
      BY <1>1, <1>4, <3>1, NextType
    <3>3. rest[1] = [stack[1] EXCEPT !.n = i + 1] /\ Len(rest) = Len(stack)
      BY <1>4
    <3>4. rest[1].pc = stack[1].pc /\ rest[1].file = stack[1].file
      BY <1>2, <3>3 DEF Frame
    <3> QED BY <1>1, <1>2, <1>4, <3>2, <3>3, <3>4
  <2> HIDE DEF rest
  <2>5. /\ Len(stack') = 2 /\ DOMAIN stack' = {1, 2} /\ stack'[1] = child
        /\ stack'[2] = rest[1]
    <3> DEFINE new == <<child>>
    <3>1. new \in Seq(Frame) /\ Len(new) = 1 /\ new[1] = child
      BY <2>3
    <3> HIDE DEF new
    <3>2. stack' = new \o rest
      BY <2>2 DEF new
    <3>3. /\ Len(stack') = Len(new) + Len(rest)
          /\ DOMAIN stack' = 1 .. Len(new) + Len(rest)
          /\ \A k \in 1 .. Len(new) : stack'[k] = new[k]
          /\ \A k \in 1 .. Len(new) + Len(rest) :
               k > Len(new) => stack'[k] = rest[k - Len(new)]
      BY <2>4, <3>1, <3>2, ConcatFacts
    <3>4. Len(stack') = 2 /\ DOMAIN stack' = 1 .. 2 /\ 1 .. 2 = {1, 2}
      BY <2>4, <3>1, <3>3
    <3>5. stack'[1] = child
      BY <3>1, <3>3
    <3>6. stack'[2] = rest[2 - 1]
      BY <2>4, <3>1, <3>3
    <3> QED BY <3>4, <3>5, <3>6
  <2>6. Holds(1)' /\ Calls(1)'
    <3>1. d \in live
      BY <1>2, <1>3 DEF Holds
    <3>2. Holds(1)'
      BY <1>5, <2>1, <2>3, <2>5, <3>1 DEF Holds, Removing
    <3>3. Calls(1)'
      BY <2>3, <2>4, <2>5 DEF Calls, Removing
    <3> QED BY <3>2, <3>3
  <2>7. Holds(2)' /\ Calls(2)'
    <3>1. d \in live
      BY <1>2, <1>3 DEF Holds
    <3> HIDE DEF d
    <3>2. Holds(2)'
      BY <1>5, <2>4, <2>5, <3>1 DEF Holds, Removing
    <3>3. Calls(2)'
      BY <2>4, <2>5 DEF Calls, Removing
    <3> QED BY <3>2, <3>3
  <2>8. StackInv'
    BY <2>5, <2>6, <2>7 DEF StackInv
  <2>9. EraseFresh'
    BY <2>3, <2>4, <2>5 DEF EraseFresh
  <2> QED BY <1>5, <2>8, <2>9 DEF TreeInv
<1> QED BY <1>6, <1>7

\* A call begins: one frame, or two, on an empty stack.
LEMMA OneFrame ==
  ASSUME NEW x \in Frame, stack' = <<x>>, x.file \in live',
         x.pc \notin Removing \cup {"grow"}, x.pc = "copy" => x.to \in live'
  PROVE  StackInv' /\ EraseFresh'
<1>1. DOMAIN stack' = {1} /\ Len(stack') = 1 /\ stack'[1] = x
  OBVIOUS
<1>2. Holds(1)' /\ Calls(1)'
  BY <1>1 DEF Holds, Calls, Removing
<1>3. EraseFresh'
  BY <1>1 DEF EraseFresh, Removing
<1> QED BY <1>1, <1>2, <1>3 DEF StackInv

LEMMA TwoFrames ==
  ASSUME NEW x \in Frame, NEW y \in Frame, stack' = <<x, y>>,
         x.file \in live', x.pc \notin Removing \cup {"delete", "copy", "grow"},
         y.file \in live', y.pc \notin Removing \cup {"grow"}, y.pc = "copy" => y.to \in live'
  PROVE  StackInv' /\ EraseFresh'
<1>1. DOMAIN stack' = {1, 2} /\ Len(stack') = 2 /\ stack'[1] = x /\ stack'[2] = y
  OBVIOUS
<1>2. Holds(1)' /\ Calls(1)'
  BY <1>1 DEF Holds, Calls, Removing
<1>3. Holds(2)' /\ Calls(2)'
  BY <1>1 DEF Holds, Calls, Removing
<1>4. EraseFresh'
  BY <1>1 DEF EraseFresh, Removing
<1> QED BY <1>1, <1>2, <1>3, <1>4 DEF StackInv

LEMMA DataArray ==
  ASSUME NEW n \in 0 .. MaxFile, NEW v \in Data
  PROVE  [i \in 1 .. n |-> <<"data", v>>] \in Seq(Token)
<1> DEFINE token == <<"data", v>>
<1>1. token \in Token
  BY DEF Token
<1>2. n \in Nat
  BY SizesAssumption
<1> HIDE DEF token
<1>3. [i \in 1 .. n |-> token] \in Seq(Token)
  BY <1>1, <1>2
<1> QED BY <1>3 DEF token

LEMMA RequestTree ==
  ASSUME Careful, TypeOK, TreeInv, Request
  PROVE  TreeInv' /\ EraseFresh'
<1>1. Linked /\ Acyclic
  BY DEF TreeInv
<1>2. OpenDirs \subseteq Dirs \cap live /\ OpenFiles \subseteq live
  BY <1>1, OpenLinked
<1>3. \A f \in live : f \in Desc /\ parent_directory[f] \in live
  BY <1>1 DEF TypeOK, Linked
<1>4. \A f \in Desc : /\ Flush(f) \in Frame /\ Flush(f).pc = "flush" /\ Flush(f).file = f
  BY FlushType DEF Flush, Activation
<1>5. ASSUME NEW d \in OpenDirs, NEW nm \in Names, CreateFile(d, nm)
      PROVE  TreeInv' /\ EraseFresh'
  <2>1. PICK f \in Unused : AddFile(d, nm, f)
    BY <1>5 DEF CreateFile
  <2>2. Linked' /\ Acyclic' /\ live' = live \cup {f}
    BY <1>1, <1>2, <2>1, AddFileTree
  <2>3. stack' = <<Flush(d)>> /\ d \in live' /\ d \in Desc
    BY <1>2, <1>3, <1>5, <2>2 DEF CreateFile
  <2>4. StackInv' /\ EraseFresh'
    <3> DEFINE x == Flush(d)
    <3>1. x \in Frame /\ x.pc = "flush" /\ x.file = d
      BY <1>4, <2>3
    <3>2. stack' = <<x>>
      BY <2>3
    <3> HIDE DEF x
    <3> QED BY <2>3, <3>1, <3>2, OneFrame DEF Removing
  <2> QED BY <2>2, <2>4 DEF TreeInv
<1>6. ASSUME NEW f \in OpenFiles, NEW arr \in Seq(Token), WriteFile(f, arr)
      PROVE  TreeInv' /\ EraseFresh'
  <2> DEFINE x == Resize(f, Len(arr))
             y == Write(f, arr)
  <2>1. UNCHANGED tree
    BY <1>6 DEF WriteFile
  <2>2. /\ x \in Frame /\ x.pc = "resize" /\ x.file = f
        /\ y \in Frame /\ y.pc = "write" /\ y.file = f
    <3>1. Len(arr) \in Nat /\ f \in Desc
      BY <1>2, <1>3
    <3> QED BY <3>1, ResizeType, WriteType DEF Resize, Write, Activation
  <2>3. stack' = <<x, y>>
    <3>1. stack' = <<x, y>> \o <<>>
      BY <1>6 DEF WriteFile, CallWrite
    <3>2. <<x, y>> \in Seq(Frame)
      BY <2>2
    <3> DEFINE xy == <<x, y>>
    <3> HIDE DEF xy
    <3>3. xy \in Seq(Frame) => xy \o <<>> = xy
      OBVIOUS
    <3> QED BY <3>1, <3>2, <3>3 DEF xy
  <2> HIDE DEF x, y
  <2>4. f \in live'
    BY <1>2, <2>1 DEF tree
  <2>5. StackInv' /\ EraseFresh'
    BY <2>2, <2>3, <2>4, TwoFrames DEF Removing
  <2> QED BY <1>1, <2>1, <2>5, SameTree DEF TreeInv
<1>7. ASSUME NEW f \in OpenFiles, DeleteFile(f)
      PROVE  TreeInv' /\ EraseFresh'
  <2> DEFINE x == Delete(parent_directory[f], name[f])
  <2>1. UNCHANGED tree /\ stack' = <<x>>
    BY <1>7 DEF DeleteFile
  <2>2. x \in Frame /\ x.pc = "delete" /\ x.file = parent_directory[f]
    <3>1. f \in Desc /\ parent_directory[f] \in Desc /\ name[f] \in AllNames
      BY <1>2, <1>3 DEF TypeOK
    <3> QED BY <3>1, DeleteType DEF Delete, Activation
  <2>3. parent_directory[f] \in live'
    BY <1>2, <1>3, <2>1 DEF tree
  <2> HIDE DEF x
  <2>4. StackInv' /\ EraseFresh'
    BY <2>1, <2>2, <2>3, OneFrame DEF Removing
  <2> QED BY <1>1, <2>1, <2>4, SameTree DEF TreeInv
<1>8. ASSUME NEW d \in OpenDirs, NEW index \in DOMAIN files[d], RemoveFile(d, index)
      PROVE  TreeInv' /\ EraseFresh'
  <2> DEFINE x == Discard(d, index)
  <2>1. UNCHANGED tree /\ stack' = <<x>>
    BY <1>8 DEF RemoveFile
  <2>2. d \in live /\ d \in Desc
    BY <1>2, <1>3
  <2>3. /\ x \in Frame /\ x.pc = "remove" /\ x.file = d /\ x.n = index
        /\ x.to = files[d][index]
    <3>1. x \in Frame
      BY <2>2, DiscardType
    <3> QED BY <3>1 DEF Discard, Activation
  <2> HIDE DEF x
  <2>4. DOMAIN stack' = {1} /\ Len(stack') = 1 /\ stack'[1] = x
    BY <2>1
  <2>5. UNCHANGED <<live, files>>
    BY <2>1 DEF tree
  <2>6. Holds(1)' /\ Calls(1)'
    BY <2>2, <2>3, <2>4, <2>5 DEF Holds, Calls, Removing
  <2>7. StackInv' /\ EraseFresh'
    BY <2>3, <2>4, <2>6 DEF StackInv, EraseFresh
  <2> QED BY <1>1, <2>1, <2>7, SameTree DEF TreeInv
<1>9. ASSUME NEW original \in OpenFiles, NEW d \in OpenDirs, NEW nm \in Names,
             CopyFile(original, d, nm)
      PROVE  TreeInv' /\ EraseFresh'
  <2>1. /\ d \in live /\ d \in Desc /\ original \in live /\ original \in Desc
    BY <1>2, <1>3
  <2>2. ASSUME NEW copy \in Desc
        PROVE  /\ Copy(original, copy) \in Frame /\ Copy(original, copy).pc = "copy"
               /\ Copy(original, copy).file = original /\ Copy(original, copy).to = copy
    <3>1. Copy(original, copy) \in Frame
      BY <2>1, CopyType
    <3> QED BY <3>1 DEF Copy, Activation
  <2>3. ASSUME NEW copy \in Find(d, nm), stack' = <<Copy(original, copy)>>, UNCHANGED tree
        PROVE  TreeInv' /\ EraseFresh'
    <3> DEFINE x == Copy(original, copy)
    <3>1. copy \in live /\ copy \in Desc
      BY <1>1, <1>3, <2>1, FindLinked
    <3>2. x \in Frame /\ x.pc = "copy" /\ x.file = original /\ x.to = copy
      BY <2>2, <3>1
    <3>3. stack' = <<x>>
      BY <2>3
    <3>4. live' = live
      BY <2>3 DEF tree
    <3> HIDE DEF x
    <3>5. StackInv' /\ EraseFresh'
      BY <2>1, <3>1, <3>2, <3>3, <3>4, OneFrame DEF Removing
    <3> QED BY <1>1, <2>3, <3>5, SameTree DEF TreeInv
  <2>4. ASSUME NEW copy \in Unused, AddFile(d, nm, copy),
               stack' = <<Flush(d), Copy(original, copy)>>
        PROVE  TreeInv' /\ EraseFresh'
    <3> DEFINE x == Flush(d)
               y == Copy(original, copy)
    <3>1. copy \in Desc
      BY DEF Unused
    <3>2. Linked' /\ Acyclic' /\ live' = live \cup {copy}
      BY <1>1, <1>2, <2>4, AddFileTree
    <3>3. /\ x \in Frame /\ x.pc = "flush" /\ x.file = d
          /\ y \in Frame /\ y.pc = "copy" /\ y.file = original /\ y.to = copy
      BY <1>4, <2>1, <2>2, <3>1
    <3>4. stack' = <<x, y>>
      BY <2>4
    <3> HIDE DEF x, y
    <3>5. StackInv' /\ EraseFresh'
      BY <2>1, <3>2, <3>3, <3>4, TwoFrames DEF Removing
    <3> QED BY <3>2, <3>5 DEF TreeInv
  <2> QED BY <1>9, <2>3, <2>4 DEF CopyFile
<1>10. ASSUME NEW d \in OpenDirs, NEW e \in OpenDirs, NEW nm \in Names,
              NEW index \in DOMAIN files[d], MoveFile(d, index, e, nm)
       PROVE  TreeInv' /\ EraseFresh'
  <2> DEFINE x == Flush(d)
             y == Flush(e)
  <2>1. Linked' /\ Acyclic'
    BY <1>1, <1>2, <1>10, MoveFileTree
  <2>2. stack' = <<x, y>> /\ live' = live
    BY <1>10 DEF MoveFile
  <2>3. d \in live /\ e \in live /\ d \in Desc /\ e \in Desc
    BY <1>2, <1>3
  <2>4. /\ x \in Frame /\ x.pc = "flush" /\ x.file = d
        /\ y \in Frame /\ y.pc = "flush" /\ y.file = e
    BY <1>4, <2>3
  <2> HIDE DEF x, y
  <2>5. StackInv' /\ EraseFresh'
    BY <2>2, <2>3, <2>4, TwoFrames DEF Removing
  <2> QED BY <2>1, <2>5 DEF TreeInv
<1>11. ASSUME NEW f \in OpenFiles, NEW n \in 0 .. MaxFile, NEW v \in Data,
              WriteFile(f, [i \in 1 .. n |-> <<"data", v>>])
       PROVE  TreeInv' /\ EraseFresh'
  <2> DEFINE arr == [i \in 1 .. n |-> <<"data", v>>]
  <2>1. arr \in Seq(Token)
    BY DataArray
  <2>2. WriteFile(f, arr)
    BY <1>11
  <2> HIDE DEF arr
  <2> QED BY <1>6, <2>1, <2>2
<1> QED BY <1>5, <1>7, <1>8, <1>9, <1>10, <1>11 DEF Request

LEMMA StutterTree ==
  ASSUME TreeInv, UNCHANGED vars
  PROVE  TreeInv'
<1>1. UNCHANGED tree /\ UNCHANGED <<live, files, stack>>
  BY DEF vars, tree
<1>2. StackInv'
  BY <1>1 DEF TreeInv, StackInv, Holds, Calls
<1> QED BY <1>1, <1>2, SameTree DEF TreeInv

LEMMA NextTree ==
  ASSUME Careful, TypeOK, TreeInv, [Next]_vars
  PROVE  TreeInv'
<1>1. CASE Request
  BY <1>1, RequestTree
<1>2. CASE Transfer
  BY <1>2, TransferTree
<1>3. CASE RemoveChild
  BY <1>3, RemoveChildTree
<1>4. CASE RemoveErase
  BY <1>4, RemoveEraseStep
<1>5. CASE DeleteNext
  BY <1>5, DeleteNextTree
<1>6. CASE UNCHANGED vars
  BY <1>6, StutterTree
<1> QED BY <1>1, <1>2, <1>3, <1>4, <1>5, <1>6 DEF Next, Step, Transfer

\* The invariant says what the property counts.
LEMMA TreeInvLinks == TypeOK /\ TreeInv => TreeLinked
<1> SUFFICES ASSUME TypeOK, TreeInv PROVE TreeLinked
  OBVIOUS
<1>1. \A k \in DOMAIN stack : stack[k].file \in live
  BY DEF TreeInv, StackInv, Holds
<1>2. Linked
  BY DEF TreeInv
<1>3. ASSUME NEW f \in live \ {Root}
      PROVE  /\ parent_directory[f] \in live
             /\ Cardinality({i \in DOMAIN files[parent_directory[f]] :
                               files[parent_directory[f]][i] = f}) = 1
  <2> DEFINE d == parent_directory[f]
             places == {i \in DOMAIN files[d] : files[d][i] = f}
  <2>1. d \in live /\ d \in Desc
    BY <1>2 DEF Linked, TypeOK
  <2>2. f \in Range(files[d]) /\ IsInjective(files[d])
    <3>1. f \in Children(d)
      BY DEF Children
    <3> QED BY <1>2, <2>1, <3>1 DEF Linked
  <2> HIDE DEF d
  <2>3. PICK i \in DOMAIN files[d] : files[d][i] = f
    BY <2>2 DEF Range
  <2>4. places = {i}
    BY <2>2, <2>3 DEF IsInjective
  <2>5. Cardinality(places) = 1
    BY <2>4, FS_Singleton
  <2> QED BY <2>1, <2>5 DEF d
<1>4. ASSUME NEW d \in live, NEW i \in DOMAIN files[d]
      PROVE  files[d][i] \in live \ {Root} /\ parent_directory[files[d][i]] = d
  <2>1. d \in Desc
    BY DEF TypeOK
  <2> QED BY <1>2, <2>1, EntryLinked
<1> QED BY <1>1, <1>3, <1>4 DEF TreeLinked

\* The lists of the directories and the parent_directory pointers always
\* agree, and no frame on the stack holds a descriptor that was deleted under
\* it, in any sequence of calls in which nobody moves a directory into itself.
THEOREM TreeStaysLinked == Careful => (Spec => []TreeLinked)
<1> SUFFICES ASSUME Careful PROVE Spec => []TreeLinked
  OBVIOUS
<1>1. Init => TreeInv
  BY InitTree
<1>2. TypeOK /\ TreeInv /\ [Next]_vars => TreeInv'
  BY NextTree
<1>3. TypeOK /\ TreeInv => TreeLinked
  BY TreeInvLinks
<1> QED BY <1>1, <1>2, <1>3, TypeCorrect, PTL DEF Spec

-----------------------------------------------------------------------------
(* No sector leaks: a set bit belongs to a file.  A descriptor that is     *)
(* freed must have no sectors left, so the resize that removeFile calls    *)
(* must have emptied it, and nothing between that resize and the erasure   *)
(* may give it a sector again: the flushes in between work on the          *)
(* directories above it, which are other files.                            *)

\* The sectors of a file are those its size needs, but for the file that
\* resize is making longer.
Growing(g) == stack # <<>> /\ Top.pc = "grow" /\ Top.file = g

SizesFit ==
  \A g \in Desc :
    IF Growing(g)
      THEN Top.n = size[g] /\ Len(sectors[g]) <= SectorCount(size[g])
      ELSE Len(sectors[g]) = SectorCount(size[g])

GrowAtTop == \A k \in DOMAIN stack : k > 1 => stack[k].pc # "grow"

\* The frame that erases, at place k of the stack.
Erases(k) ==
  stack[k].pc = "erase" =>
    /\ k = 1 => size[stack[k].to] = 0
    /\ k > 1 => stack[k - 1].file = stack[k].to /\ Emptying(stack[k - 1])
    /\ \A j \in DOMAIN stack : j < k - 1 => stack[j].file \in Above(stack[k].file)

EraseInv == \A k \in DOMAIN stack : Erases(k)

TakenHaveOwner == sector_bits \subseteq Reserved \cup Owned

LeakInv == TreeInv /\ SectorsInv /\ SizesFit /\ GrowAtTop /\ EraseInv /\ TakenHaveOwner

LEMMA InitLeak == TypeOK /\ Init => LeakInv
<1> SUFFICES ASSUME TypeOK, Init PROVE LeakInv
  OBVIOUS
<1>1. /\ size = Image.size /\ sectors = Image.sectors /\ DOMAIN stack = {}
      /\ stack = <<>> /\ sector_bits = Reserved \cup Owned
  BY DEF Init
<1>2. SizesFit
  BY <1>1, LoadAssumption DEF SizesFit, Growing
<1>3. GrowAtTop /\ EraseInv /\ TakenHaveOwner
  BY <1>1 DEF GrowAtTop, EraseInv, TakenHaveOwner
<1> QED BY <1>2, <1>3, InitTree, InitSectors DEF LeakInv

\* The frame of the erasing call, its resize and the flushes above it.
LEMMA TransferErase ==
  ASSUME TypeOK, TreeInv, EraseInv, GrowAtTop, Transfer
  PROVE  EraseInv' /\ GrowAtTop'
<1>1. stack # <<>> /\ Top.pc \notin Removing \cup {"delete"} /\ UNCHANGED tree
  BY TransferTurns
<1>2. PICK new \in Seq(Frame) : Turns(new)
  BY TransferTurns
<1>3. /\ stack \in Seq(Frame) /\ Len(stack) \in Nat /\ DOMAIN stack = 1 .. Len(stack)
      /\ 1 \in DOMAIN stack /\ stack[1] = Top /\ Top.file \in Desc
  BY <1>1, StackTypes, TopFrame
<1> DEFINE n == Len(new)
<1>4. n \in Nat /\ DOMAIN new = 1 .. n
  OBVIOUS
<1>5. /\ Len(stack') = n + Len(stack) - 1 /\ DOMAIN stack' = 1 .. n + Len(stack) - 1
      /\ \A k \in 1 .. n : stack'[k] = new[k]
      /\ \A k \in DOMAIN stack' : k > n => stack'[k] = stack[k - n + 1]
  <2>1. stack' = new \o Tail(stack)
    BY <1>2 DEF Turns
  <2> QED BY <1>1, <1>3, <2>1, ConcatTail
<1> HIDE DEF n
<1>6. \A d : Above(d)' = Above(d)
  BY <1>1 DEF tree, Above, Rising
<1>7. GrowAtTop'
  <2> SUFFICES ASSUME NEW k \in DOMAIN stack', k > 1 PROVE stack'[k].pc # "grow"
    BY DEF GrowAtTop
  <2>1. CASE k <= n
    <3>1. k \in DOMAIN new /\ stack'[k] = new[k] /\ n # 1
      BY <1>4, <1>5, <2>1
    <3> QED BY <1>2, <3>1 DEF Turns, n
  <2>2. CASE k > n
    <3>1. k - n + 1 \in DOMAIN stack /\ k - n + 1 > 1 /\ stack'[k] = stack[k - n + 1]
      BY <1>3, <1>4, <1>5, <2>2
    <3> QED BY <3>1 DEF GrowAtTop
  <2> QED BY <1>4, <1>5, <2>1, <2>2
<1>8. ASSUME NEW k \in DOMAIN stack', stack'[k].pc = "erase"
      PROVE  Erases(k)'
  <2> DEFINE m == k - n + 1
             d == stack[m].file
             f == stack[m].to
  <2>1. k > n
    <3>1. ASSUME k <= n PROVE FALSE
      <4>1. k \in DOMAIN new /\ stack'[k] = new[k]
        BY <1>4, <1>5, <3>1
      <4>2. new[k].pc \notin Removing
        BY <1>2, <4>1 DEF Turns
      <4> QED BY <1>8, <4>1, <4>2 DEF Removing
    <3> QED BY <1>4, <1>5, <3>1
  <2>2. /\ m \in DOMAIN stack /\ m > 1 /\ m \in Nat /\ k \in Nat /\ k = m + n - 1
        /\ stack'[k] = stack[m]
    BY <1>3, <1>4, <1>5, <2>1
  <2> HIDE DEF m
  <2>3. stack[m].pc = "erase" /\ stack[m].pc \in Removing
    BY <1>8, <2>2 DEF Removing
  <2>4. /\ stack[m - 1].file = f /\ Emptying(stack[m - 1])
        /\ \A j \in DOMAIN stack : j < m - 1 => stack[j].file \in Above(d)
    BY <2>2, <2>3 DEF EraseInv, Erases
  <2>5. /\ f \in live \ {Root} /\ parent_directory[f] = d
        /\ d \in Desc /\ f \in Desc
    BY <2>2, <2>3, RemovedLinked, StackTypes DEF TreeInv
  <2>6. f \notin Above(d) /\ f # d
    BY <2>5, NotAboveItself DEF TreeInv
  <2>7. /\ d \in Above(d)
        /\ \A e \in Above(d) : e \in Desc /\ parent_directory[e] \in Above(d)
    BY <2>5, AboveRises
  <2>8. stack'[k].file = d /\ stack'[k].to = f
    BY <2>2
  <2> HIDE DEF d, f
  <2>9. CASE m = 2
    <3>1. Top.file = f /\ Emptying(Top) /\ Top.pc # "copy"
      BY <1>3, <2>4, <2>9 DEF Emptying
    <3>2. size'[f] = 0
      BY <1>2, <3>1 DEF Turns
    <3>3. CASE new = <<>>
      <4>1. n = 0 /\ k = 1
        BY <2>2, <2>9, <3>3 DEF n
      <4>2. ~ (\E j \in DOMAIN stack' : j < k - 1)
        BY <1>3, <1>4, <1>5, <4>1
      <4> QED BY <2>8, <3>2, <4>1, <4>2 DEF Erases
    <3>4. CASE new # <<>>
      <4>1. n \in DOMAIN new /\ n >= 1 /\ k = n + 1 /\ k - 1 = n
        <5>1. n # 0
          BY <3>4 DEF n
        <5> QED BY <1>4, <2>2, <2>9, <5>1
      <4>2. /\ new[n].file = Top.file /\ new[n].pc \in {"parent", "bits"}
            /\ \A j \in DOMAIN new : j # n => new[j].file = parent_directory[Top.file]
        BY <1>2, <3>1, <3>4 DEF Turns, n
      <4>3. stack'[k - 1] = new[n]
        BY <1>4, <1>5, <4>1
      <4>4. stack'[k - 1].file = f /\ Emptying(stack[k - 1])'
        BY <3>1, <3>2, <4>2, <4>3 DEF Emptying
      <4>5. ASSUME NEW j \in DOMAIN stack', j < k - 1
            PROVE  stack'[j].file \in Above(d)
        <5>1. j \in DOMAIN new /\ j # n /\ stack'[j] = new[j]
          BY <1>4, <1>5, <4>1, <4>5
        <5>2. stack'[j].file = d
          BY <2>5, <3>1, <4>2, <5>1
        <5> QED BY <2>7, <5>2
      <4>6. k # 1
        BY <4>1
      <4> QED BY <1>6, <2>8, <4>4, <4>5, <4>6 DEF Erases
    <3> QED BY <3>3, <3>4
  <2>10. CASE m # 2
    <3>1. m > 2 /\ m - 1 \in DOMAIN stack /\ 1 < m - 1 /\ Len(stack) # 1
      BY <1>3, <2>2, <2>10
    <3>2. Top.file \in Above(d) /\ Top.file # f
      BY <1>3, <2>4, <2>6, <3>1
    <3>3. Top.pc # "copy"
      <4>1. Calls(1)
        BY <1>3 DEF TreeInv, StackInv
      <4> QED BY <1>3, <3>1, <4>1 DEF Calls
    <3>4. size'[f] = size[f]
      BY <1>2, <2>5, <3>2 DEF Turns
    <3>5. k - 1 \in DOMAIN stack' /\ k - 1 > n /\ stack'[k - 1] = stack[m - 1] /\ k # 1
      <4>1. k - 1 \in DOMAIN stack' /\ k - 1 > n /\ (k - 1) - n + 1 = m - 1
        BY <1>3, <1>4, <1>5, <2>2, <3>1
      <4> QED BY <1>4, <1>5, <4>1
    <3>6. stack'[k - 1].file = f /\ Emptying(stack[k - 1])'
      BY <2>4, <3>4, <3>5 DEF Emptying
    <3>7. ASSUME NEW j \in DOMAIN stack', j < k - 1
          PROVE  stack'[j].file \in Above(d)
      <4>1. CASE j <= n
        <5>1. j \in DOMAIN new /\ stack'[j] = new[j]
          BY <1>4, <1>5, <4>1
        <5>2. new[j].file \in {Top.file, parent_directory[Top.file]}
          BY <1>2, <3>3, <5>1 DEF Turns
        <5> QED BY <2>7, <3>2, <5>1, <5>2
      <4>2. CASE j > n
        <5>1. /\ stack'[j] = stack[j - n + 1] /\ j - n + 1 \in DOMAIN stack
              /\ j - n + 1 < m - 1
          BY <1>3, <1>4, <1>5, <2>2, <3>7, <4>2
        <5> QED BY <2>4, <5>1
      <4> QED BY <1>4, <1>5, <4>1, <4>2
    <3> QED BY <1>6, <2>8, <3>5, <3>6, <3>7 DEF Erases
  <2> QED BY <2>9, <2>10
<1>9. \A k \in DOMAIN stack' : Erases(k)'
  <2> SUFFICES ASSUME NEW k \in DOMAIN stack' PROVE Erases(k)'
    OBVIOUS
  <2>1. CASE stack'[k].pc = "erase"
    BY <1>8, <2>1
  <2>2. CASE stack'[k].pc # "erase"
    BY <2>2 DEF Erases
  <2> QED BY <2>1, <2>2
<1> QED BY <1>7, <1>9 DEF EraseInv

LEMMA FreshErase ==
  ASSUME TypeOK', EraseFresh'
  PROVE  /\ EraseInv' /\ GrowAtTop'
         /\ \A g : ~ Growing(g)'
<1>1. stack' \in Seq(Frame)
  BY DEF TypeOK
<1>2. DOMAIN stack' = 1 .. Len(stack') /\ Len(stack') \in Nat
  BY <1>1
<1>3. \A k \in DOMAIN stack' : k \in Nat /\ k >= 1
  BY <1>2
<1>4. ASSUME NEW k \in DOMAIN stack'
      PROVE  Erases(k)'
  <2>1. stack'[k].pc = "erase" =>
          k = 2 /\ Emptying(stack[1])' /\ stack'[1].file = stack'[2].to
    BY DEF EraseFresh
  <2>2. \A j \in DOMAIN stack' : ~ (j < 2 - 1)
    BY <1>3
  <2> QED BY <2>1, <2>2 DEF Erases
<1>5. GrowAtTop'
  BY DEF EraseFresh, GrowAtTop
<1>6. ASSUME NEW g, Growing(g)'
      PROVE  FALSE
  <2>1. stack' # <<>> /\ Head(stack').pc = "grow"
    BY <1>6 DEF Growing, Top
  <2>2. 1 \in DOMAIN stack' /\ stack'[1] = Head(stack')
    BY <1>1, <2>1
  <2> QED BY <2>1, <2>2 DEF EraseFresh
<1> QED BY <1>4, <1>5, <1>6 DEF EraseInv

LEMMA NextErase ==
  ASSUME Careful, TypeOK, TypeOK', TreeInv, EraseInv, GrowAtTop, [Next]_vars
  PROVE  EraseInv' /\ GrowAtTop'
<1>1. CASE Request
  BY <1>1, RequestTree, FreshErase
<1>2. CASE Transfer
  BY <1>2, TransferErase
<1>3. CASE RemoveChild
  BY <1>3, RemoveChildTree, FreshErase
<1>4. CASE RemoveErase
  BY <1>4, RemoveEraseStep, FreshErase
<1>5. CASE DeleteNext
  BY <1>5, DeleteNextTree, FreshErase
<1>6. CASE UNCHANGED vars
  <2>1. UNCHANGED <<stack, size>> /\ UNCHANGED parent_directory
    BY <1>6 DEF vars
  <2>2. GrowAtTop'
    BY <2>1 DEF GrowAtTop
  <2>3. \A k : Erases(k) => Erases(k)'
    BY <2>1 DEF Erases, Emptying, Above, Rising
  <2> QED BY <2>1, <2>2, <2>3 DEF EraseInv
<1> QED BY <1>1, <1>2, <1>3, <1>4, <1>5, <1>6 DEF Next, Step, Transfer

\* Sizes and sectors as they were, and no file is growing.
LEMMA SameSizes ==
  ASSUME SizesFit, UNCHANGED <<size, sectors>>, \A g : ~ Growing(g), \A g : ~ Growing(g)'
  PROVE  SizesFit'
BY DEF SizesFit

\* Only two steps leave a growing file; a step that returns finds none below.
LEMMA TransferGrows ==
  ASSUME TypeOK, TypeOK', GrowAtTop, Transfer, ~ (ResizeGrow \/ GrowSector \/ DiskFull)
  PROVE  \A g : ~ Growing(g)'
<1>1. PICK new \in Seq(Frame) : Turns(new)
  BY TransferTurns
<1>2. /\ stack # <<>> /\ stack \in Seq(Frame) /\ Len(stack) \in Nat
      /\ DOMAIN stack = 1 .. Len(stack) /\ stack' \in Seq(Frame)
  BY TransferTurns, StackTypes DEF TypeOK
<1> DEFINE n == Len(new)
<1>3. n \in Nat /\ DOMAIN new = 1 .. n
  OBVIOUS
<1>4. /\ DOMAIN stack' = 1 .. n + Len(stack) - 1
      /\ \A k \in 1 .. n : stack'[k] = new[k]
      /\ \A k \in DOMAIN stack' : k > n => stack'[k] = stack[k - n + 1]
  <2>1. stack' = new \o Tail(stack)
    BY <1>1 DEF Turns
  <2> QED BY <1>2, <2>1, ConcatTail
<1>5. \A k \in DOMAIN new : new[k].pc # "grow"
  BY <1>1 DEF Turns
<1> HIDE DEF n
<1> SUFFICES ASSUME NEW g, Growing(g)' PROVE FALSE
  OBVIOUS
<1>6. stack' # <<>> /\ Head(stack').pc = "grow"
  BY DEF Growing, Top
<1>7. 1 \in DOMAIN stack' /\ stack'[1] = Head(stack')
  BY <1>2, <1>6
<1>8. CASE n = 0
  <2>1. 1 - n + 1 = 2 /\ 1 > n /\ 2 \in DOMAIN stack
    BY <1>2, <1>4, <1>7, <1>8
  <2>2. stack'[1] = stack[2]
    BY <1>4, <1>7, <2>1
  <2> QED BY <1>6, <1>7, <2>1, <2>2 DEF GrowAtTop
<1>9. CASE n # 0
  <2>1. 1 \in DOMAIN new /\ stack'[1] = new[1]
    BY <1>3, <1>4, <1>9
  <2> QED BY <1>5, <1>6, <1>7, <2>1
<1> QED BY <1>8, <1>9

LEMMA TransferSizes ==
  ASSUME TypeOK, TypeOK', GrowAtTop, SizesFit, Transfer
  PROVE  SizesFit'
<1> DEFINE f == Top.file
           count == SectorCount(Top.n)
<1>1. /\ stack # <<>> /\ f \in Desc /\ Top.n \in Nat /\ Top \in Frame
      /\ size \in [Desc -> Nat] /\ sectors \in [Desc -> Seq(Sector)]
  BY TransferTurns, TopFrame DEF TypeOK
<1>2. count \in Nat
  BY <1>1, SectorCountType
<1>3. \A g \in Desc : Len(sectors[g]) \in Nat /\ sectors[g] \in Seq(Sector)
  BY <1>1
<1>4. Top.pc # "grow" =>
        \A g \in Desc : ~ Growing(g) /\ Len(sectors[g]) = SectorCount(size[g])
  BY DEF SizesFit, Growing
<1>5. Top.pc = "grow" =>
        /\ Growing(f) /\ Top.n = size[f] /\ Len(sectors[f]) <= SectorCount(size[f])
        /\ \A g \in Desc : g # f => ~ Growing(g) /\ Len(sectors[g]) = SectorCount(size[g])
  BY <1>1 DEF SizesFit, Growing
<1> HIDE DEF f, count
<1>6. CASE WriteSector \/ WriteDone \/ ResizeSame \/ ResizeParent \/ ResizeBits
             \/ FlushMetadata \/ CopyData
  <2>1. Top.pc # "grow" /\ UNCHANGED <<size, sectors>>
    BY <1>6 DEF WriteSector, WriteDone, ResizeSame, ResizeParent, ResizeBits,
       FlushMetadata, CopyData, At
  <2>2. ~ (ResizeGrow \/ GrowSector \/ DiskFull)
    <3>1. ~ (GrowSector \/ DiskFull)
      BY <2>1 DEF GrowSector, DiskFull, At
    <3>2. ResizeGrow => size' = [size EXCEPT ![f] = Top.n] /\ count > SectorCount(size[f])
      BY DEF ResizeGrow, f, count
    <3>3. size[f] = Top.n => count = SectorCount(size[f])
      BY DEF count
    <3> QED BY <1>1, <1>2, <2>1, <3>1, <3>2, <3>3
  <2>3. \A g : ~ Growing(g)'
    BY <2>2, TransferGrows
  <2>4. \A g : ~ Growing(g)
    BY <2>1 DEF Growing
  <2> QED BY <2>1, <2>3, <2>4, SameSizes
<1>7. CASE GrowDone
  <2>1. /\ Top.pc = "grow" /\ UNCHANGED <<size, sectors>> /\ Len(sectors[f]) >= count
        /\ stack' = Goto("parent")
    BY <1>7 DEF GrowDone, At, f, count
  <2>2. Len(sectors[f]) = SectorCount(size[f])
    BY <1>1, <1>2, <1>3, <1>5, <2>1 DEF count
  <2>3. ASSUME NEW g, Growing(g)' PROVE FALSE
    <3> DEFINE frame == [Top EXCEPT !.pc = "parent"]
    <3>1. Goto("parent") = <<frame>> \o Tail(stack)
      BY <1>1, StackShapes DEF Label
    <3>2. frame \in Frame /\ frame.pc = "parent"
      BY <1>1 DEF Frame, Label
    <3> HIDE DEF frame
    <3>3. Tail(stack) \in Seq(Frame)
      BY <1>1 DEF TypeOK
    <3>4. \A x \in Frame, rest \in Seq(Frame) : Head(<<x>> \o rest) = x
      OBVIOUS
    <3>5. Head(stack').pc = "parent"
      BY <2>1, <3>1, <3>2, <3>3, <3>4
    <3> QED BY <2>3, <3>5 DEF Growing, Top
  <2> QED BY <1>5, <2>1, <2>2, <2>3 DEF SizesFit
<1>8. CASE DiskFull
  <2>1. UNCHANGED <<size, sectors, stack>>
    BY <1>8 DEF DiskFull
  <2> QED BY <2>1 DEF SizesFit, Growing, Top
<1>9. CASE GrowSector
  <2>1. PICK s \in Free : sectors' = [sectors EXCEPT ![f] = Append(@, s)]
    BY <1>9 DEF GrowSector, f
  <2>2. /\ Top.pc = "grow" /\ UNCHANGED <<size, stack>> /\ Len(sectors[f]) < count
    BY <1>9 DEF GrowSector, At, f, count
  <2>3. /\ \A g \in Desc : g # f => sectors'[g] = sectors[g]
        /\ sectors'[f] = Append(sectors[f], s)
    BY <1>1, <2>1
  <2>4. s \in Sector
    BY DEF Free, Searched
  <2>5. Len(sectors'[f]) = Len(sectors[f]) + 1
    BY <1>3, <1>1, <2>3, <2>4
  <2>6. Len(sectors'[f]) <= SectorCount(size[f])
    BY <1>1, <1>2, <1>3, <1>5, <2>2, <2>5 DEF count
  <2>7. \A g : Growing(g)' <=> Growing(g)
    BY <2>2 DEF Growing, Top
  <2> QED BY <1>5, <2>2, <2>3, <2>6, <2>7 DEF SizesFit, Top
<1>10. CASE ResizeKeep \/ ResizeShrink
  <2>1. Top.pc = "resize" /\ size' = [size EXCEPT ![f] = Top.n]
    BY <1>10 DEF ResizeKeep, ResizeShrink, At, f
  <2>2. /\ \A g \in Desc : g # f => sectors'[g] = sectors[g]
        /\ Len(sectors'[f]) = count
    <3>1. CASE ResizeKeep
      <4>1. sectors' = sectors /\ count = SectorCount(size[f])
        BY <3>1 DEF ResizeKeep, f, count
      <4> QED BY <1>1, <1>4, <2>1, <4>1
    <3>2. CASE ResizeShrink
      <4>1. /\ sectors' = [sectors EXCEPT ![f] =
                             IF Len(@) > count THEN SubSeq(@, 1, count) ELSE @]
            /\ count < SectorCount(size[f])
        BY <3>2 DEF ResizeShrink, f, count
      <4>2. Len(sectors[f]) > count
        BY <1>1, <1>2, <1>4, <2>1, <4>1
      <4>3. sectors'[f] = SubSeq(sectors[f], 1, count)
        BY <1>1, <4>1, <4>2
      <4>4. Len(SubSeq(sectors[f], 1, count)) = count
        BY <1>1, <1>2, <1>3, <4>2
      <4> QED BY <1>1, <4>1, <4>3, <4>4
    <3> QED BY <1>10, <3>1, <3>2
  <2>3. \A g : ~ Growing(g)'
    <3>1. ~ (GrowSector \/ DiskFull)
      BY <2>1 DEF GrowSector, DiskFull, At
    <3>2. ~ ResizeGrow
      <4>1. SectorCount(size[f]) \in Nat
        BY <1>1, SectorCountType
      <4> QED BY <1>2, <1>10, <4>1 DEF ResizeGrow, ResizeKeep, ResizeShrink, f, count
    <3> QED BY <3>1, <3>2, TransferGrows
  <2>4. \A g \in Desc : size'[g] = IF g = f THEN Top.n ELSE size[g]
    BY <1>1, <2>1
  <2> QED BY <1>4, <2>1, <2>2, <2>3, <2>4 DEF SizesFit, count
<1>11. CASE ResizeGrow
  <2>1. /\ Top.pc = "resize" /\ size' = [size EXCEPT ![f] = Top.n]
        /\ stack' = Goto("grow") /\ count > SectorCount(size[f]) /\ sectors' = sectors
    BY <1>11 DEF ResizeGrow, At, f, count
  <2> DEFINE frame == [Top EXCEPT !.pc = "grow"]
  <2>2. stack' = <<frame>> \o Tail(stack)
    BY <1>1, <2>1, StackShapes DEF Label
  <2>3. frame \in Frame /\ frame.pc = "grow" /\ frame.file = f /\ frame.n = Top.n
    BY <1>1 DEF Frame, Label, f
  <2>4. Tail(stack) \in Seq(Frame)
    BY <1>1 DEF TypeOK
  <2> HIDE DEF frame
  <2>5. stack' # <<>> /\ Head(stack') = frame
    <3> DEFINE rest == Tail(stack)
    <3> HIDE DEF rest
    <3>1. rest \in Seq(Frame) => <<frame>> \o rest # <<>> /\ Head(<<frame>> \o rest) = frame
      BY <2>3
    <3> QED BY <2>2, <2>4, <3>1 DEF rest
  <2>6. Top' = frame
    BY <2>5 DEF Top
  <2>7. \A g : Growing(g)' <=> g = f
    BY <2>3, <2>5, <2>6 DEF Growing
  <2>8. \A g \in Desc : size'[g] = IF g = f THEN Top.n ELSE size[g]
    BY <1>1, <2>1
  <2>9. Len(sectors[f]) <= count
    BY <1>1, <1>2, <1>3, <1>4, <2>1
  <2> QED BY <1>1, <1>4, <2>1, <2>3, <2>6, <2>7, <2>8, <2>9 DEF SizesFit, count
<1> QED BY <1>6, <1>7, <1>8, <1>9, <1>10, <1>11 DEF Transfer

LEMMA NextSizes ==
  ASSUME Careful, TypeOK, TypeOK', TreeInv, GrowAtTop, SizesFit, [Next]_vars
  PROVE  SizesFit'
<1>1. CASE Request
  <2>1. UNCHANGED <<size, sectors>> /\ Idle
    BY <1>1 DEF Request, CreateFile, WriteFile, DeleteFile, RemoveFile, CopyFile, MoveFile
  <2>2. \A g : ~ Growing(g)
    BY <2>1 DEF Idle, Growing
  <2> QED BY <1>1, <2>1, <2>2, RequestTree, FreshErase, SameSizes
<1>2. CASE Transfer
  BY <1>2, TransferSizes
<1>3. CASE RemoveChild \/ DeleteNext
  <2>1. UNCHANGED <<size, sectors>> /\ Top.pc # "grow"
    BY <1>3 DEF RemoveChild, DeleteNext, At
  <2>2. \A g : ~ Growing(g)
    BY <2>1 DEF Growing
  <2>3. EraseFresh'
    BY <1>3, RemoveChildTree, DeleteNextTree
  <2> QED BY <2>1, <2>2, <2>3, FreshErase, SameSizes
<1>4. CASE RemoveErase
  <2> DEFINE f == files[Top.file][Top.n]
  <2>1. /\ size' = [size EXCEPT ![f] = 0] /\ sectors' = [sectors EXCEPT ![f] = <<>>]
        /\ Top.pc # "grow"
    BY <1>4 DEF RemoveErase, At
  <2>2. \A g : ~ Growing(g)
    BY <2>1 DEF Growing
  <2>3. \A g : ~ Growing(g)'
    BY <1>4, RemoveEraseStep, FreshErase
  <2> HIDE DEF f
  <2>4. \A g \in Desc : IF g = f THEN size'[g] = 0 /\ sectors'[g] = <<>>
                                 ELSE size'[g] = size[g] /\ sectors'[g] = sectors[g]
    BY <2>1 DEF TypeOK
  <2>5. Len(<<>>) = SectorCount(0)
    BY NoSectors
  <2> QED BY <2>2, <2>3, <2>4, <2>5 DEF SizesFit
<1>5. CASE UNCHANGED vars
  <2>1. UNCHANGED <<size, sectors, stack>>
    BY <1>5 DEF vars
  <2> QED BY <2>1 DEF SizesFit, Growing, Top
<1> QED BY <1>1, <1>2, <1>3, <1>4, <1>5 DEF Next, Step, Transfer

\* What removeFile frees has no sectors any more.
LEMMA ErasedIsEmpty ==
  ASSUME TypeOK, TreeInv, EraseInv, SizesFit, RemoveErase
  PROVE  UNCHANGED <<sectors, sector_bits>>
<1> DEFINE f == files[Top.file][Top.n]
<1>1. /\ stack # <<>> /\ Top.pc = "erase" /\ sectors' = [sectors EXCEPT ![f] = <<>>]
      /\ sector_bits' = sector_bits
  BY DEF RemoveErase, At, bits
<1>2. 1 \in DOMAIN stack /\ stack[1] = Top /\ Top.to \in Desc
  BY <1>1, TopFrame
<1>3. f = Top.to
  BY <1>1, <1>2 DEF TreeInv, StackInv, Holds, Removing
<1>4. size[Top.to] = 0
  BY <1>1, <1>2 DEF EraseInv, Erases
<1> HIDE DEF f
<1>5. Len(sectors[f]) = 0
  <2>1. Len(sectors[f]) = SectorCount(size[f])
    BY <1>1, <1>2, <1>3 DEF SizesFit, Growing
  <2> QED BY <1>3, <1>4, <2>1, NoSectors
<1>6. sectors[f] = <<>>
  BY <1>2, <1>3, <1>5 DEF TypeOK
<1> QED BY <1>1, <1>2, <1>3, <1>6 DEF TypeOK

LEMMA NextTaken ==
  ASSUME TypeOK, LeakInv, [Next]_vars
  PROVE  TakenHaveOwner'
<1> DEFINE f == Top.file
           count == SectorCount(Top.n)
<1>1. TakenHaveOwner /\ sectors \in [Desc -> Seq(Sector)]
  BY DEF LeakInv, TypeOK
<1>2. \A label : At(label) => f \in Desc /\ Top.n \in Nat
  <2>1. \A label : At(label) => stack # <<>>
    BY DEF At
  <2> QED BY <2>1, TopFrame
<1> HIDE DEF f, count
<1>3. CASE UNCHANGED <<sectors, sector_bits>>
  BY <1>1, <1>3 DEF TakenHaveOwner, Owned
<1>4. CASE ResizeShrink
  <2>1. /\ sectors' = [sectors EXCEPT ![f] =
                         IF Len(@) > count THEN SubSeq(@, 1, count) ELSE @]
        /\ sector_bits' = sector_bits \ Dropped(f, count) /\ f \in Desc /\ count \in Nat
    BY <1>2, <1>4, SectorCountType DEF ResizeShrink, ClearBits, f, count
  <2>2. sectors[f] \in Seq(Sector)
    BY <1>1, <2>1
  <2>3. ASSUME NEW g \in Desc, NEW i \in DOMAIN sectors[g],
               sectors[g][i] \notin Dropped(f, count)
        PROVE  sectors[g][i] \in Range(sectors'[g])
    <3>1. CASE g # f
      <4>1. sectors'[g] = sectors[g]
        BY <1>1, <2>1, <3>1
      <4> QED BY <4>1 DEF Range
    <3>2. CASE g = f
      <4>1. i <= count /\ i \in 1 .. Len(sectors[f])
        BY <2>1, <2>2, <2>3, <3>2 DEF Dropped
      <4>2. CASE Len(sectors[f]) > count
        <5> DEFINE new == SubSeq(sectors[f], 1, count)
        <5>1. i \in DOMAIN new /\ new[i] = sectors[f][i]
          BY <2>1, <2>2, <4>1, <4>2
        <5>2. sectors'[f] = new
          BY <1>1, <2>1, <4>2
        <5> HIDE DEF new
        <5> QED BY <3>2, <5>1, <5>2 DEF Range
      <4>3. CASE ~ (Len(sectors[f]) > count)
        <5>1. sectors'[f] = sectors[f]
          BY <1>1, <2>1, <4>3
        <5> QED BY <3>2, <5>1 DEF Range
      <4> QED BY <4>2, <4>3
    <3> QED BY <3>1, <3>2
  <2>4. Owned \subseteq Owned' \cup Dropped(f, count)
    BY <2>3 DEF Owned, Range
  <2> QED BY <1>1, <2>1, <2>4 DEF TakenHaveOwner
<1>5. CASE GrowSector
  <2>1. PICK s \in Free : /\ sectors' = [sectors EXCEPT ![f] = Append(@, s)]
                          /\ SetBits({s})
    BY <1>5 DEF GrowSector, f
  <2>2. f \in Desc /\ s \in Sector /\ sector_bits' = sector_bits \cup {s}
    BY <1>2, <1>5, <2>1 DEF GrowSector, Free, Searched, SetBits
  <2>3. sectors'[f] = Append(sectors[f], s) /\ sectors[f] \in Seq(Sector)
        /\ \A g \in Desc : g # f => sectors'[g] = sectors[g]
    BY <1>1, <2>1, <2>2
  <2>4. Range(sectors'[f]) = Range(sectors[f]) \cup {s}
    BY <2>2, <2>3, AppendRange
  <2>5. Owned \cup {s} \subseteq Owned'
    <3>1. \A g \in Desc : Range(sectors[g]) \subseteq Range(sectors'[g])
      BY <2>3, <2>4
    <3>2. s \in Range(sectors'[f])
      BY <2>4
    <3> QED BY <2>2, <3>1, <3>2 DEF Owned
  <2> QED BY <1>1, <2>2, <2>5 DEF TakenHaveOwner
<1>6. CASE RemoveErase
  <2>1. UNCHANGED <<sectors, sector_bits>>
    BY <1>6, ErasedIsEmpty DEF LeakInv
  <2> QED BY <1>3, <2>1
<1> QED BY <1>3, <1>4, <1>5, <1>6
    DEF Next, Request, Step, vars, bits, CreateFile, WriteFile, DeleteFile, RemoveFile,
        CopyFile, MoveFile, WriteSector, WriteDone, ResizeSame, ResizeKeep, ResizeGrow,
        GrowDone, DiskFull, ResizeParent, ResizeBits, FlushMetadata, RemoveChild,
        DeleteNext, CopyData

LEMMA NextLeak ==
  ASSUME Careful, TypeOK, TypeOK', LeakInv, [Next]_vars
  PROVE  LeakInv'
<1>1. TreeInv' /\ SectorsInv'
  BY NextTree, NextSectors DEF LeakInv
<1>2. EraseInv' /\ GrowAtTop' /\ SizesFit' /\ TakenHaveOwner'
  BY NextErase, NextSizes, NextTaken DEF LeakInv
<1> QED BY <1>1, <1>2 DEF LeakInv

\* A bit is set exactly for the sectors in use, in any sequence of calls in
\* which nobody moves a directory into itself: no write, removal or failed
\* allocation loses a sector, for any size of disk and any tree on it.
THEOREM NoSectorLeaks == Careful => (Spec => []TakenIsOwned)
<1> SUFFICES ASSUME Careful PROVE Spec => []TakenIsOwned
  OBVIOUS
<1>1. TypeOK /\ Init => LeakInv
  BY InitLeak
<1>2. TypeOK /\ TypeOK' /\ LeakInv /\ [Next]_vars => LeakInv'
  BY NextLeak
<1>3. LeakInv => TakenIsOwned
  BY DEF LeakInv, SectorsInv, OwnedAreTaken, TakenHaveOwner, TakenIsOwned
<1> QED BY <1>1, <1>2, <1>3, TypeCorrect, PTL DEF Spec

-----------------------------------------------------------------------------
(* Bits before references.  What a directory refers to is safe on the disk *)
(* when it is written, because a directory whose child has grown is longer *)
(* than its size says, so that its own resize flushes the bits first.      *)

\* The tokens that the entries of a directory take.
Bytes(d) == Offset(d, Len(files[d]) + 1)

LEMMA BytesType ==
  ASSUME TypeOK, NEW d \in Desc
  PROVE  Bytes(d) \in Nat
<1>1. Len(files[d]) + 1 \in Nat
  BY DEF TypeOK
<1> QED BY <1>1, OffsetType DEF Bytes

LEMMA SameBytes ==
  ASSUME TypeOK, NEW d \in Desc, files'[d] = files[d],
         \A i \in DOMAIN files[d] : Len(sectors'[files[d][i]]) = Len(sectors[files[d][i]])
  PROVE  Bytes(d)' = Bytes(d)
<1> DEFINE places == (1 .. Len(files[d])) \X (0 .. DiskSize)
           old == {p \in places : p[2] <= Len(sectors[files[d][p[1]]])}
           new == {p \in places : p[2] <= Len(sectors'[files'[d][p[1]]])}
<1>1. Len(files[d]) \in Nat /\ Len(files[d]) + 1 - 1 = Len(files[d])
      /\ DOMAIN files[d] = 1 .. Len(files[d])
  BY DEF TypeOK
<1>2. \A p \in places : Len(sectors'[files'[d][p[1]]]) = Len(sectors[files[d][p[1]]])
  BY <1>1
<1>3. old = new
  BY <1>2
<1>4. Bytes(d) = Cardinality(old) /\ Bytes(d)' = Cardinality(new)
  BY <1>1 DEF Bytes, Offset
<1> QED BY <1>3, <1>4

\* Longer entries, or more of them, take more tokens.
LEMMA MoreBytes ==
  ASSUME TypeOK, TypeOK', NEW d \in Desc, Len(files[d]) <= Len(files'[d]),
         \A i \in DOMAIN files[d] :
           /\ files'[d][i] = files[d][i]
           /\ Len(sectors[files[d][i]]) <= Len(sectors'[files[d][i]])
  PROVE  /\ Bytes(d) <= Bytes(d)'
         /\ \A i \in DOMAIN files[d] :
              /\ Len(sectors[files[d][i]]) < Len(sectors'[files[d][i]])
              /\ Len(sectors'[files[d][i]]) <= DiskSize
              => Bytes(d) < Bytes(d)'
<1> DEFINE n == Len(files[d])
           m == Len(files'[d])
           old == {p \in (1 .. n) \X (0 .. DiskSize) : p[2] <= Len(sectors[files[d][p[1]]])}
           new == {p \in (1 .. m) \X (0 .. DiskSize) : p[2] <= Len(sectors'[files'[d][p[1]]])}
<1>1. /\ n \in Nat /\ n + 1 - 1 = n /\ DOMAIN files[d] = 1 .. n
      /\ m \in Nat /\ m + 1 - 1 = m
  BY DEF TypeOK
<1>2. n <= m
  OBVIOUS
<1>3. \A i \in 1 .. n : /\ files'[d][i] = files[d][i]
                        /\ Len(sectors[files[d][i]]) <= Len(sectors'[files[d][i]])
                        /\ Len(sectors[files[d][i]]) \in Nat /\ Len(sectors'[files[d][i]]) \in Nat
  <2>1. \A i \in 1 .. n : files[d][i] \in Desc
    BY <1>1 DEF TypeOK
  <2>2. /\ sectors \in [Desc -> Seq(Sector)]
        /\ sectors' \in [Desc -> Seq(Sector)]
    BY DEF TypeOK
  <2>3. \A f \in Desc : sectors[f] \in Seq(Sector) /\ sectors'[f] \in Seq(Sector)
    BY <2>2
  <2>4. \A f \in Desc : Len(sectors[f]) \in Nat /\ Len(sectors'[f]) \in Nat
    BY <2>3, LenProperties
  <2> QED BY <1>1, <2>1, <2>4
<1>4. Bytes(d) = Cardinality(old) /\ Bytes(d)' = Cardinality(new)
  BY <1>1 DEF Bytes, Offset
<1>5. IsFiniteSet(new)
  <2>1. IsFiniteSet(1 .. m) /\ IsFiniteSet(0 .. DiskSize)
    BY <1>1, FS_Interval, SizesAssumption
  <2>2. IsFiniteSet((1 .. m) \X (0 .. DiskSize))
    BY <2>1, FS_Product
  <2> QED BY <2>2, FS_Subset
<1>6. old \subseteq new
  <2> SUFFICES ASSUME NEW p \in old PROVE p \in new
    OBVIOUS
  <2> DEFINE i == p[1]
             j == p[2]
  <2>1. p = <<i, j>> /\ i \in 1 .. n /\ j \in 0 .. DiskSize /\ j <= Len(sectors[files[d][i]])
    OBVIOUS
  <2> HIDE DEF i, j
  <2>2. i \in 1 .. m /\ j <= Len(sectors'[files'[d][i]])
    BY <1>1, <1>2, <1>3, <2>1, SizesAssumption
  <2> QED BY <2>1, <2>2
<1>7. Cardinality(old) <= Cardinality(new) /\ (Cardinality(new) = Cardinality(old) => new = old)
  BY <1>5, <1>6, FS_Subset
<1>8. ASSUME NEW i \in DOMAIN files[d],
             Len(sectors[files[d][i]]) < Len(sectors'[files[d][i]]),
             Len(sectors'[files[d][i]]) <= DiskSize
      PROVE  old # new
  <2> DEFINE j == Len(sectors'[files[d][i]])
  <2>1. i \in 1 .. n /\ i \in 1 .. m /\ j \in 0 .. DiskSize
    BY <1>1, <1>2, <1>3, <1>8, SizesAssumption
  <2>2. ~ (j <= Len(sectors[files[d][i]]))
    BY <1>3, <1>8, <2>1
  <2>3. <<i, j>> \in new
    BY <1>3, <2>1
  <2>4. <<i, j>> \notin old
    BY <2>2
  <2> QED BY <2>3, <2>4
<1>9. Cardinality(old) \in Nat /\ Cardinality(new) \in Nat
  BY <1>4, <1>5, <1>6, FS_Subset, FS_CardinalityType
<1> HIDE DEF old, new
<1> QED BY <1>4, <1>7, <1>8, <1>9

\* No file has more sectors than the disk.
LEMMA FewSectors ==
  ASSUME NEW seq \in Seq(Sector), \A i, j \in DOMAIN seq : seq[i] = seq[j] => i = j
  PROVE  Len(seq) <= DiskSize
<1> DEFINE n == Len(seq)
<1>1. n \in Nat /\ DOMAIN seq = 1 .. n
  OBVIOUS
<1>2. seq \in [1 .. n -> Sector]
  BY <1>1
<1>3. \A i, j \in 1 .. n : seq[i] = seq[j] => i = j
  BY <1>1
<1>4. seq \in Injection(1 .. n, Sector)
  BY <1>2, <1>3 DEF Injection, IsInjective
<1>5. IsFiniteSet(Sector) /\ Cardinality(Sector) = DiskSize
  BY SizesAssumption, FS_Interval DEF Sector
<1>6. Cardinality(1 .. n) = n
  BY <1>1, FS_Interval
<1> HIDE DEF n
<1>7. Cardinality(1 .. n) <= Cardinality(Sector)
  BY <1>4, <1>5, FS_Injection
<1> QED BY <1>5, <1>6, <1>7 DEF n

\* The sectors that an array names.
ArrayRefs(arr) == {arr[j][2] : j \in {i \in DOMAIN arr : arr[i][1] = "ref"}}
ChildSectors(d) == UNION {Range(sectors[f]) : f \in Children(d)}

LEMMA EntryRefs ==
  ASSUME TypeOK, NEW f \in Desc, NEW t \in 1 .. 1 + Len(sectors[f]), Entry(f)[t][1] = "ref"
  PROVE  Entry(f)[t][2] \in Range(sectors[f])
<1> DEFINE head == <<"head", name[f], f \in Dirs, size[f]>>
           refs == [j \in 1 .. Len(sectors[f]) |-> <<"ref", sectors[f][j]>>]
           n == Len(sectors[f])
<1>1. n \in Nat /\ DOMAIN sectors[f] = 1 .. n
  BY DEF TypeOK
<1>2. refs \in Seq({"ref"} \X Sector) /\ Len(refs) = n
  <2>1. \A j \in 1 .. n : sectors[f][j] \in Sector
    BY <1>1 DEF TypeOK
  <2>2. refs \in [1 .. n -> {"ref"} \X Sector]
    BY <2>1
  <2> HIDE DEF refs
  <2> QED BY <1>1, <2>2
<1>3. \A j \in 1 .. n : refs[j] = <<"ref", sectors[f][j]>>
  OBVIOUS
<1>4. head[1] = "head"
  BY Zenon
<1> HIDE DEF head, refs
<1>5. Entry(f)[1] = head /\ \A j \in 1 .. n : Entry(f)[j + 1] = refs[j]
  <2> DEFINE all == {head} \cup ({"ref"} \X Sector)
  <2>1. <<head>> \in Seq(all) /\ Len(<<head>>) = 1 /\ <<head>>[1] = head
    OBVIOUS
  <2>2. refs \in Seq(all)
    BY <1>2
  <2> HIDE DEF all
  <2>3. /\ (<<head>> \o refs)[1] = head
        /\ \A j \in 1 .. n : (<<head>> \o refs)[j + 1] = refs[j]
    BY <1>1, <1>2, <2>1, <2>2
  <2> QED BY <2>3 DEF Entry, head, refs
<1>6. t # 1
  BY <1>4, <1>5
<1> DEFINE j == t - 1
<1>7. j \in 1 .. n /\ t = j + 1
  BY <1>1, <1>6
<1> HIDE DEF j
<1>8. Entry(f)[t] = <<"ref", sectors[f][j]>>
  BY <1>3, <1>5, <1>7
<1>9. Entry(f)[t][2] = sectors[f][j]
  BY <1>8
<1> QED BY <1>1, <1>7, <1>9 DEF Range

\* What a directory writes names the sectors of its children.
LEMMA SerializeRefs ==
  ASSUME TypeOK, Linked, NEW d \in Desc
  PROVE  Len(Serialize(d)) = Bytes(d) /\ ArrayRefs(Serialize(d)) \subseteq ChildSectors(d)
<1> DEFINE len == Bytes(d)
           child(t) == CHOOSE i \in DOMAIN files[d] :
                         Offset(d, i) < t /\ t <= Offset(d, i + 1)
           token(t) == Entry(files[d][child(t)])[t - Offset(d, child(t))]
<1>1. len \in Nat
  BY BytesType
<1>2. ASSUME NEW t \in 1 .. len, token(t)[1] = "ref"
      PROVE  token(t)[2] \in ChildSectors(d)
  <2> DEFINE i == child(t)
             f == files[d][i]
  <2>1. i \in DOMAIN files[d] /\ Offset(d, i) < t /\ t <= Offset(d, i + 1)
    BY SerializeCovers DEF Bytes
  <2> HIDE DEF i
  <2>2. i \in Nat /\ f \in Desc
    BY <2>1, ListedChild DEF f
  <2>3. Offset(d, i) \in Nat /\ Offset(d, i + 1) \in Nat
    BY <2>2, OffsetType
  <2>4. Offset(d, i + 1) <= Offset(d, i) + 1 + Len(sectors[f])
    BY <2>1, OffsetStep
  <2>5. Len(sectors[f]) \in Nat
    BY <2>2 DEF TypeOK
  <2>6. t - Offset(d, i) \in 1 .. 1 + Len(sectors[f])
    BY <1>1, <2>1, <2>3, <2>4, <2>5
  <2>7. f \in Children(d)
    BY <2>1, EntryLinked DEF Children
  <2>8. Entry(f)[t - Offset(d, i)][1] = "ref"
    BY <1>2 DEF i
  <2>9. Entry(f)[t - Offset(d, i)][2] \in Range(sectors[f])
    BY <2>2, <2>6, <2>8, EntryRefs
  <2>10. token(t) = Entry(f)[t - Offset(d, i)]
    BY DEF i
  <2> HIDE DEF f, token
  <2> QED BY <2>7, <2>9, <2>10 DEF ChildSectors
<1>3. Serialize(d) = [t \in 1 .. len |-> token(t)]
  BY DEF Serialize, Bytes
<1> DEFINE arr == Serialize(d)
<1>4. Len(arr) = len
  <2> HIDE DEF token, len
  <2> QED BY <1>1, <1>3
<1>5. DOMAIN arr = 1 .. len /\ \A t \in 1 .. len : arr[t] = token(t)
  <2> HIDE DEF token, len
  <2> QED BY <1>3
<1> HIDE DEF token, len, arr
<1>6. \A s \in ArrayRefs(arr) : s \in ChildSectors(d)
  <2> SUFFICES ASSUME NEW s \in ArrayRefs(arr) PROVE s \in ChildSectors(d)
    OBVIOUS
  <2>1. PICK t \in DOMAIN arr : arr[t][1] = "ref" /\ s = arr[t][2]
    BY DEF ArrayRefs
  <2> QED BY <1>2, <1>5, <2>1
<1> QED BY <1>4, <1>6 DEF arr, len

-----------------------------------------------------------------------------
(* The frames of the calls that transfer sectors.                          *)

Resizes == {"grow", "parent", "bits"}

\* A frame that is not the innermost waits for the one it has called: a resize
\* for the flush of the directory above, a write for the resize of its file.
WaitsFor(k) ==
  /\ stack[k].pc \notin {"resize", "grow", "parent"}
  /\ stack[k].pc = "bits" =>
       /\ stack[k - 1].file = parent_directory[stack[k].file]
       /\ \/ stack[k - 1].pc = "write"
          \/ stack[k - 1].pc = "flush" /\ k = 2
  /\ stack[k].pc = "write" =>
       /\ stack[k - 1].file = stack[k].file
       /\ stack[k - 1].pc \in Resizes \cup {"resize"}
       /\ \A j \in DOMAIN stack : j < k => stack[j].file \in Above(stack[k].file)

Nesting == \A k \in DOMAIN stack : k > 1 => WaitsFor(k)

\* What the innermost frame becomes.
Pops(new) == new = <<>> /\ (WriteDone \/ ResizeSame \/ ResizeBits)
Stays(new) ==
  /\ Len(new) = 1 /\ new[1].file = Top.file
  /\ \/ WriteSector /\ Top.pc = "write" /\ new[1].pc = "write" /\ new[1].array = Top.array
     \/ (ResizeKeep \/ ResizeShrink) /\ Top.pc = "resize" /\ new[1].pc = "parent"
     \/ ResizeGrow /\ Top.pc = "resize" /\ new[1].pc = "grow"
     \/ (GrowSector \/ DiskFull) /\ Top.pc = "grow" /\ new[1].pc = "grow"
     \/ GrowDone /\ Top.pc = "grow" /\ new[1].pc = "parent"
Flushes(new) ==
  /\ ResizeParent /\ Top.pc = "parent" /\ Len(new) = 2
  /\ new[1].pc = "flush" /\ new[1].file = parent_directory[Top.file]
  /\ new[2].pc = "bits" /\ new[2].file = Top.file
Writes(new) ==
  /\ Len(new) = 2 /\ new[1].pc = "resize" /\ new[2].pc = "write"
  /\ new[1].file = new[2].file /\ new[1].n = Len(new[2].array)
  /\ \/ /\ FlushMetadata /\ Top.pc = "flush" /\ new[2].file = Top.file
        /\ new[2].array = Serialize(Top.file)
     \/ CopyData /\ Top.pc = "copy" /\ new[2].file = Top.to
Moves(new) ==
  /\ new \in Seq(Frame) /\ stack' = new \o Tail(stack)
  /\ Pops(new) \/ Stays(new) \/ Flushes(new) \/ Writes(new)

LEMMA TransferMoves ==
  ASSUME TypeOK, Transfer
  PROVE  \E new \in Seq(Frame) : Moves(new)
<1>1. stack # <<>>
  BY TransferTurns
<1>2. /\ Top \in Frame /\ Top.file \in Desc /\ Top.to \in Desc /\ Top.n \in Nat
      /\ parent_directory[Top.file] \in Desc
  BY <1>1, TopFrame DEF TypeOK
<1>3. \A label \in Label : /\ [Top EXCEPT !.pc = label] \in Frame
                           /\ [Top EXCEPT !.pc = label].pc = label
                           /\ [Top EXCEPT !.pc = label].file = Top.file
  BY <1>2 DEF Frame
<1>4. \A i \in Nat : /\ [Top EXCEPT !.n = i] \in Frame
                     /\ [Top EXCEPT !.n = i].pc = Top.pc
                     /\ [Top EXCEPT !.n = i].file = Top.file
                     /\ [Top EXCEPT !.n = i].array = Top.array
  BY <1>2 DEF Frame
<1>5. CASE WriteDone \/ ResizeSame \/ ResizeBits
  <2>1. stack' = <<>> \o Tail(stack)
    BY <1>1, <1>5, StackShapes DEF WriteDone, ResizeSame, ResizeBits
  <2>2. <<>> \in Seq(Frame)
    OBVIOUS
  <2> QED BY <1>5, <2>1, <2>2 DEF Moves, Pops
\* A step that leaves one frame.
<1>6. ASSUME NEW x \in Frame, stack' = <<x>> \o Tail(stack), Stays(<<x>>)
      PROVE  \E new \in Seq(Frame) : Moves(new)
  <2>1. <<x>> \in Seq(Frame)
    BY <1>6
  <2> QED BY <1>6, <2>1 DEF Moves
<1>7. ASSUME NEW x \in Frame
      PROVE  Len(<<x>>) = 1 /\ <<x>>[1] = x
  OBVIOUS
<1>8. CASE WriteSector
  <2> DEFINE x == [Top EXCEPT !.n = Top.n + 1]
  <2>1. [stack EXCEPT ![1].n = @ + 1] = [stack EXCEPT ![1].n = Top.n + 1]
    BY <1>1, TopFrame DEF TypeOK
  <2>2. stack' = <<x>> \o Tail(stack)
    BY <1>1, <1>2, <1>8, <2>1, StackShapes DEF WriteSector
  <2>3. x \in Frame /\ x.pc = Top.pc /\ x.file = Top.file /\ x.array = Top.array
    BY <1>2, <1>4
  <2>4. Top.pc = "write"
    BY <1>8 DEF WriteSector, At
  <2> HIDE DEF x
  <2>5. Stays(<<x>>)
    BY <1>7, <1>8, <2>3, <2>4 DEF Stays
  <2> QED BY <1>6, <2>2, <2>3, <2>5
<1>9. CASE ResizeKeep \/ ResizeShrink \/ GrowDone
  <2> DEFINE x == [Top EXCEPT !.pc = "parent"]
  <2>1. stack' = Goto("parent") /\ Top.pc \in {"resize", "grow"}
        /\ (GrowDone => Top.pc = "grow") /\ (ResizeKeep \/ ResizeShrink => Top.pc = "resize")
    BY <1>9 DEF ResizeKeep, ResizeShrink, GrowDone, At
  <2>2. stack' = <<x>> \o Tail(stack)
    BY <1>1, <2>1, StackShapes DEF Label
  <2>3. x \in Frame /\ x.pc = "parent" /\ x.file = Top.file
    BY <1>3 DEF Label
  <2> HIDE DEF x
  <2>4. Stays(<<x>>)
    BY <1>7, <1>9, <2>1, <2>3 DEF Stays
  <2> QED BY <1>6, <2>2, <2>3, <2>4
<1>10. CASE ResizeGrow
  <2> DEFINE x == [Top EXCEPT !.pc = "grow"]
  <2>1. stack' = Goto("grow") /\ Top.pc = "resize"
    BY <1>10 DEF ResizeGrow, At
  <2>2. stack' = <<x>> \o Tail(stack)
    BY <1>1, <2>1, StackShapes DEF Label
  <2>3. x \in Frame /\ x.pc = "grow" /\ x.file = Top.file
    BY <1>3 DEF Label
  <2> HIDE DEF x
  <2>4. Stays(<<x>>)
    BY <1>7, <1>10, <2>1, <2>3 DEF Stays
  <2> QED BY <1>6, <2>2, <2>3, <2>4
<1>11. CASE GrowSector \/ DiskFull
  <2>1. stack' = <<Top>> \o Tail(stack) /\ Top.pc = "grow"
    BY <1>1, <1>11, StackShapes DEF GrowSector, DiskFull, At
  <2>2. Stays(<<Top>>)
    BY <1>2, <1>7, <1>11, <2>1 DEF Stays
  <2> QED BY <1>2, <1>6, <2>1, <2>2
<1>12. ASSUME NEW x \in Frame, NEW y \in Frame
       PROVE  /\ <<x, y>> \in Seq(Frame) /\ Len(<<x, y>>) = 2
              /\ <<x, y>>[1] = x /\ <<x, y>>[2] = y
  OBVIOUS
<1>13. CASE ResizeParent
  <2> DEFINE x == Flush(parent_directory[Top.file])
             y == [Top EXCEPT !.pc = "bits"]
  <2>1. stack' = Call(x, Goto("bits")) /\ Top.pc = "parent"
    BY <1>13 DEF ResizeParent, At
  <2>2. x \in Frame /\ x.pc = "flush" /\ x.file = parent_directory[Top.file]
    BY <1>2, FlushType DEF Flush, Activation
  <2>3. y \in Frame /\ y.pc = "bits" /\ y.file = Top.file
    BY <1>3 DEF Label
  <2>4. stack' = <<x, y>> \o Tail(stack)
    BY <1>1, <2>1, <2>2, StackShapes DEF Label
  <2> HIDE DEF x, y
  <2>5. Flushes(<<x, y>>)
    BY <1>12, <1>13, <2>1, <2>2, <2>3 DEF Flushes
  <2> QED BY <1>12, <2>2, <2>3, <2>4, <2>5 DEF Moves
<1>14. ASSUME NEW f \in Desc, NEW arr \in Seq(Token), stack' = CallWrite(f, arr, Return),
              \/ FlushMetadata /\ Top.pc = "flush" /\ f = Top.file /\ arr = Serialize(Top.file)
              \/ CopyData /\ Top.pc = "copy" /\ f = Top.to
       PROVE  \E new \in Seq(Frame) : Moves(new)
  <2> DEFINE x == Resize(f, Len(arr))
             y == Write(f, arr)
  <2>1. x \in Frame /\ y \in Frame
    BY <1>14, ResizeType, WriteType
  <2>2. /\ x.pc = "resize" /\ x.file = f /\ x.n = Len(arr)
        /\ y.pc = "write" /\ y.file = f /\ y.array = arr
    BY DEF Resize, Write, Activation
  <2>3. stack' = <<x, y>> \o Tail(stack)
    BY <1>1, <1>14, StackShapes
  <2> HIDE DEF x, y
  <2>4. Writes(<<x, y>>)
    BY <1>12, <1>14, <2>1, <2>2 DEF Writes
  <2> QED BY <1>12, <2>1, <2>3, <2>4 DEF Moves
<1>15. CASE FlushMetadata
  <2>1. stack' = CallWrite(Top.file, Serialize(Top.file), Return) /\ Top.pc = "flush"
    BY <1>15 DEF FlushMetadata, At
  <2>2. Serialize(Top.file) \in Seq(Token)
    BY <1>2, SerializeType
  <2> QED BY <1>2, <1>14, <1>15, <2>1, <2>2
<1>16. CASE CopyData
  <2>1. stack' = CallWrite(Top.to, Read(Top.file), Return) /\ Top.pc = "copy"
    BY <1>16 DEF CopyData, At
  <2>2. Read(Top.file) \in Seq(Token)
    BY <1>2, ReadType
  <2> QED BY <1>2, <1>14, <1>16, <2>1, <2>2
<1> QED BY <1>5, <1>8, <1>9, <1>10, <1>11, <1>13, <1>15, <1>16 DEF Transfer

\* What a step of the innermost frame leaves on the stack.
LEMMA MovesTypes ==
  ASSUME TypeOK, Transfer, NEW new, Moves(new)
  PROVE  /\ stack # <<>> /\ UNCHANGED tree /\ Top = stack[1] /\ 1 \in DOMAIN stack
         /\ new \in Seq(Frame) /\ Len(new) \in Nat /\ DOMAIN new = 1 .. Len(new)
         /\ Len(stack) \in Nat /\ DOMAIN stack = 1 .. Len(stack)
         /\ Len(stack') = Len(new) + Len(stack) - 1
         /\ DOMAIN stack' = 1 .. Len(new) + Len(stack) - 1
         /\ \A k \in 1 .. Len(new) : stack'[k] = new[k]
         /\ \A k \in DOMAIN stack' : k > Len(new) =>
              k - Len(new) + 1 \in DOMAIN stack /\ stack'[k] = stack[k - Len(new) + 1]
<1>1. stack # <<>> /\ UNCHANGED tree
  BY TransferTurns
<1>2. Top = stack[1] /\ 1 \in DOMAIN stack
  BY <1>1, TopFrame
<1>3. stack \in Seq(Frame) /\ Len(stack) \in Nat /\ DOMAIN stack = 1 .. Len(stack)
  BY StackTypes
<1>4. new \in Seq(Frame) /\ stack' = new \o Tail(stack)
  BY DEF Moves
<1>5. Len(new) \in Nat /\ DOMAIN new = 1 .. Len(new)
  BY <1>4
<1>6. /\ Len(stack') = Len(new) + Len(stack) - 1
      /\ DOMAIN stack' = 1 .. Len(new) + Len(stack) - 1
      /\ \A k \in 1 .. Len(new) : stack'[k] = new[k]
      /\ \A k \in 1 .. Len(new) + Len(stack) - 1 : k > Len(new) => stack'[k] = stack[k - Len(new) + 1]
  BY <1>1, <1>3, <1>4, ConcatTail
<1>7. \A k \in DOMAIN stack' : k > Len(new) => k - Len(new) + 1 \in DOMAIN stack
  BY <1>3, <1>5, <1>6
<1> QED BY <1>1, <1>2, <1>3, <1>4, <1>5, <1>6, <1>7

LEMMA MovesFiles ==
  ASSUME TypeOK, Transfer, NEW new, Moves(new)
  PROVE  /\ Len(new) <= 2
         /\ Top.pc # "copy" =>
              \A k \in 1 .. Len(new) : new[k].file \in {Top.file, parent_directory[Top.file]}
<1>1. CASE Pops(new)
  BY <1>1 DEF Pops
<1>2. CASE Stays(new)
  BY <1>2 DEF Stays
<1>3. CASE Flushes(new)
  <2>1. \A k \in 1 .. 2 : k = 1 \/ k = 2
    OBVIOUS
  <2> QED BY <1>3, <2>1 DEF Flushes
<1>4. CASE Writes(new)
  <2>1. \A k \in 1 .. 2 : k = 1 \/ k = 2
    OBVIOUS
  <2> QED BY <1>4, <2>1 DEF Writes
<1> QED BY <1>1, <1>2, <1>3, <1>4 DEF Moves

\* A copy is called by nobody.
LEMMA CopyAlone ==
  ASSUME TypeOK, StackInv, stack # <<>>, Top.pc = "copy"
  PROVE  Len(stack) = 1
<1>1. 1 \in DOMAIN stack /\ stack[1] = Top
  BY TopFrame
<1> QED BY <1>1 DEF StackInv, Calls

LEMMA SameAbove ==
  ASSUME UNCHANGED tree, NEW d
  PROVE  Above(d)' = Above(d)
BY DEF Above, Rising, tree

\* Frames that had two others above them wait as they did.
LEMMA NestBelow ==
  ASSUME TypeOK, Transfer, StackInv, Nesting, NEW new, Moves(new),
         NEW k \in DOMAIN stack', k > Len(new) + 1
  PROVE  WaitsFor(k)'
<1> DEFINE n == Len(new)
           m == k - n + 1
           x == stack[m]
<1>1. /\ n \in Nat /\ Len(stack) \in Nat /\ DOMAIN stack = 1 .. Len(stack)
      /\ DOMAIN stack' = 1 .. n + Len(stack) - 1 /\ UNCHANGED tree
      /\ 1 \in DOMAIN stack /\ Top = stack[1]
      /\ stack # <<>>
      /\ \A j \in 1 .. n : stack'[j] = new[j]
      /\ \A j \in DOMAIN stack' : j > n => j - n + 1 \in DOMAIN stack /\ stack'[j] = stack[j - n + 1]
  BY MovesTypes
<1>a. k \in 1 .. n + Len(stack) - 1 /\ k > n + 1 /\ n \in Nat /\ Len(stack) \in Nat
  BY <1>1
<1> HIDE DEF n
<1>2. k \in Nat /\ k - 1 \in DOMAIN stack' /\ m \in Nat /\ m >= 3 /\ m - 1 = (k - 1) - n + 1
      /\ k - 1 > n /\ k > n /\ k > 1
  <2>1. k - 1 \in 1 .. n + Len(stack) - 1
    BY <1>a
  <2>2. k - 1 \in DOMAIN stack'
    BY <1>1, <2>1
  <2>3. k \in Nat /\ n \in Nat /\ k > n + 1
    BY <1>a
  <2>4. m \in Nat /\ m >= 3
    BY <2>3
  <2>5. m - 1 = (k - 1) - n + 1
    BY <2>3
  <2>6. k - 1 > n /\ k > n /\ k > 1
    BY <2>3
  <2> QED BY <2>2, <2>3, <2>4, <2>5, <2>6
<1>3. m \in DOMAIN stack /\ m - 1 \in DOMAIN stack /\ stack'[k] = x /\ stack'[k - 1] = stack[m - 1]
  BY <1>1, <1>2
<1>4. WaitsFor(m) /\ m > 1
  BY <1>2, <1>3 DEF Nesting
<1>5. Top.pc # "copy"
  <2> SUFFICES ASSUME Top.pc = "copy" PROVE FALSE
    OBVIOUS
  <2>1. Len(stack) = 1
    BY <1>1, CopyAlone
  <2> QED BY <1>1, <1>2, <1>3, <2>1
<1>6. \A j \in 1 .. n : new[j].file \in {Top.file, parent_directory[Top.file]}
  BY <1>5, MovesFiles DEF n
<1>7. x.file \in Desc /\ parent_directory' = parent_directory
  BY <1>1, <1>3, StackTypes DEF tree
<1>8. \A d : Above(d)' = Above(d)
  BY <1>1, SameAbove
<1> HIDE DEF m
<1>9. ASSUME x.pc = "write", NEW j \in DOMAIN stack', j < k
      PROVE  stack'[j].file \in Above(x.file)
  <2>1. \A i \in DOMAIN stack : i < m => stack[i].file \in Above(x.file)
    BY <1>4, <1>9 DEF WaitsFor
  <2>2. CASE j > n
    <3>0. j \in Nat /\ n \in Nat /\ k \in Nat /\ j < k
      BY <1>1, <1>2, <1>9, <1>a
    <3>1. j - n + 1 < m
      BY <3>0 DEF m
    <3>2. j - n + 1 \in DOMAIN stack /\ stack'[j] = stack[j - n + 1]
      BY <1>1, <2>2
    <3> QED BY <2>1, <3>1, <3>2
  <2>3. CASE ~ (j > n)
    <3>0. j \in 1 .. n + Len(stack) - 1
      BY <1>1, <1>9
    <3>1. j \in 1 .. n
      BY <1>a, <2>3, <3>0
    <3>2. Top.file \in Above(x.file)
      <4>1. 1 \in DOMAIN stack /\ 1 < m /\ stack[1] = Top
        BY <1>1, <1>2
      <4> QED BY <2>1, <4>1
    <3>3. parent_directory[Top.file] \in Above(x.file)
      BY <1>7, <3>2, AboveRises
    <3> QED BY <1>1, <1>6, <3>1, <3>2, <3>3
  <2> QED BY <2>2, <2>3
<1>10. /\ x.pc \notin {"resize", "grow", "parent"}
       /\ x.pc = "bits" => /\ stack[m - 1].file = parent_directory[x.file]
                           /\ stack[m - 1].pc = "write"
       /\ x.pc = "write" => /\ stack[m - 1].file = x.file
                            /\ stack[m - 1].pc \in Resizes \cup {"resize"}
  BY <1>2, <1>4 DEF WaitsFor
<1> HIDE DEF x
<1> QED BY <1>3, <1>7, <1>8, <1>9, <1>10 DEF WaitsFor

LEMMA TransferNest ==
  ASSUME TypeOK, Transfer, StackInv, Nesting
  PROVE  Nesting'
<1>1. PICK new \in Seq(Frame) : Moves(new)
  BY TransferMoves
<1> DEFINE n == Len(new)
<1>2. /\ n \in Nat /\ Len(stack) \in Nat /\ DOMAIN stack = 1 .. Len(stack)
      /\ DOMAIN stack' = 1 .. n + Len(stack) - 1 /\ UNCHANGED tree
      /\ 1 \in DOMAIN stack /\ Top = stack[1] /\ stack # <<>>
      /\ \A j \in 1 .. n : stack'[j] = new[j]
      /\ \A j \in DOMAIN stack' : j > n => j - n + 1 \in DOMAIN stack /\ stack'[j] = stack[j - n + 1]
  BY <1>1, MovesTypes
<1>3. \A d : Above(d)' = Above(d)
  BY <1>2, SameAbove
<1>4. parent_directory' = parent_directory /\ Top.file \in Desc /\ Top.to \in Desc
      /\ \A k \in DOMAIN stack : stack[k].file \in Desc
  BY <1>2, TopFrame, StackTypes DEF tree
<1> HIDE DEF n
<1> SUFFICES ASSUME NEW k \in DOMAIN stack', k > 1 PROVE WaitsFor(k)'
  BY DEF Nesting
<1>5. k \in Nat /\ k \in 1 .. n + Len(stack) - 1
  BY <1>2
\* The frames that were above.
<1>6. CASE k > n + 1
  BY <1>1, <1>6, NestBelow DEF n
\* The frame under the one that has moved.
<1>7. CASE k = n + 1
  <2>1. n = 1 \/ n = 2
    <3>1. n <= 2
      BY <1>1, MovesFiles DEF n
    <3> QED BY <1>2, <1>5, <1>7, <3>1
  <2>2. k - n + 1 = 2 /\ k > n
    BY <1>2, <1>5, <1>7
  <2>3. 2 \in DOMAIN stack /\ stack'[k] = stack[2]
    <3>1. k - n + 1 \in DOMAIN stack /\ stack'[k] = stack[k - n + 1]
      BY <1>2, <2>2
    <3> QED BY <2>2, <3>1
  <2> DEFINE x == stack[2]
  <2>4. /\ x.pc \notin {"resize", "grow", "parent"}
        /\ x.pc = "bits" => /\ Top.file = parent_directory[x.file]
                            /\ Top.pc \in {"write", "flush"}
        /\ x.pc = "write" => Top.file = x.file /\ Top.pc \in Resizes \cup {"resize"}
    <3>1. WaitsFor(2)
      BY <2>3 DEF Nesting
    <3>2. 2 - 1 = 1
      OBVIOUS
    <3> QED BY <1>2, <3>1, <3>2 DEF WaitsFor
  <2>5. x.file \in Desc
    BY <1>4, <2>3
  <2> HIDE DEF x
  <2>6. \A f \in Desc : f \in Above(f) /\ parent_directory[f] \in Above(f)
    BY AboveRises
  <2>7. CASE Stays(new)
    <3>1. n = 1 /\ k - 1 = 1 /\ k = 2 /\ new[1].file = Top.file
      BY <1>5, <1>7, <2>7 DEF Stays, n
    <3>2. stack'[k - 1] = new[1]
      BY <1>2, <3>1
    <3>3. \A j \in DOMAIN stack' : j < k => j = 1
      BY <1>2, <3>1
    <3>8. stack'[1] = new[1]
      BY <3>1, <3>2
    <3>4. x.pc = "bits" => new[1].pc = "write"
      BY <2>4, <2>7 DEF Stays
    <3>5. x.pc = "write" => new[1].pc \in Resizes
      BY <2>4, <2>7 DEF Stays, Resizes
    <3>6. stack'[k] = x
      BY <2>3 DEF x
    <3>7. x.pc = "write" => \A j \in DOMAIN stack' : j < k => stack'[j].file \in Above(x.file)
      BY <2>4, <2>5, <2>6, <3>1, <3>3, <3>8
    <3> QED BY <1>3, <1>4, <2>4, <3>1, <3>2, <3>4, <3>5, <3>6, <3>7 DEF WaitsFor
  <2>8. CASE Flushes(new)
    <3>1. /\ n = 2 /\ k - 1 = 2 /\ k = 3 /\ new[2].file = Top.file /\ new[2].pc = "bits"
          /\ new[1].file = parent_directory[Top.file] /\ Top.pc = "parent"
      BY <1>5, <1>7, <2>8 DEF Flushes, n
    <3>2. stack'[k - 1] = new[2] /\ stack'[1] = new[1]
      BY <1>2, <3>1
    <3>3. \A j \in DOMAIN stack' : j < k => j = 1 \/ j = k - 1
      BY <1>2, <3>1
    <3>4. x.pc # "bits"
      BY <2>4, <3>1
    <3>5. stack'[k] = x
      BY <2>3 DEF x
    <3>6. x.pc = "write" => \A j \in DOMAIN stack' : j < k => stack'[j].file \in Above(x.file)
      BY <2>4, <2>5, <2>6, <3>1, <3>2, <3>3
    <3> QED BY <1>3, <2>4, <3>1, <3>2, <3>4, <3>5, <3>6 DEF WaitsFor, Resizes
  <2>9. CASE Writes(new)
    <3>1. Top.pc # "copy"
      <4> SUFFICES ASSUME Top.pc = "copy" PROVE FALSE
        OBVIOUS
      <4>1. Len(stack) = 1
        BY <1>2, CopyAlone
      <4> QED BY <1>2, <2>3, <4>1
    <3>2. /\ n = 2 /\ k - 1 = 2 /\ k = 3 /\ new[2].file = Top.file /\ new[2].pc = "write"
          /\ Top.pc = "flush"
      BY <1>5, <1>7, <2>9, <3>1 DEF Writes, n
    <3>3. stack'[k - 1] = new[2]
      BY <1>2, <3>2
    <3>4. x.pc # "write"
      BY <2>4, <3>2 DEF Resizes
    <3>5. stack'[k] = x
      BY <2>3 DEF x
    <3> QED BY <1>4, <2>4, <3>2, <3>3, <3>4, <3>5 DEF WaitsFor
  <2>10. CASE Pops(new)
    BY <2>1, <2>10 DEF Pops, n
  <2> QED BY <1>1, <2>7, <2>8, <2>9, <2>10 DEF Moves
\* The frames of a call.
<1>8. CASE ~ (k > n + 1) /\ k # n + 1
  <2>1. k <= n /\ n <= 2 /\ k = 2 /\ n = 2 /\ k - 1 = 1
    <3>1. n <= 2
      BY <1>1, MovesFiles DEF n
    <3> QED BY <1>2, <1>5, <1>8, <3>1
  <2>2. stack'[k] = new[2] /\ stack'[k - 1] = new[1]
    BY <1>2, <2>1
  <2>3. CASE Flushes(new)
    BY <1>4, <2>1, <2>2, <2>3 DEF Flushes, WaitsFor
  <2>4. CASE Writes(new)
    <3>1. /\ new[2].pc = "write" /\ new[1].pc = "resize" /\ new[1].file = new[2].file
          /\ new[2].file \in Desc
      BY <1>4, <2>4 DEF Writes
    <3>2. \A j \in DOMAIN stack' : j < k => j = k - 1
      BY <1>2, <2>1
    <3>3. new[2].file \in Above(new[2].file)
      BY <3>1, AboveRises
    <3> QED BY <1>3, <2>2, <3>1, <3>2, <3>3 DEF WaitsFor
  <2>5. CASE Pops(new) \/ Stays(new)
    BY <2>1, <2>5 DEF Pops, Stays, n
  <2> QED BY <1>1, <2>3, <2>4, <2>5 DEF Moves
<1> QED BY <1>6, <1>7, <1>8

-----------------------------------------------------------------------------
(* What is on the disk, and what is about to be.                           *)

\* The bits of all sectors of g are set on the disk.
Saved(g) == Range(sectors[g]) \subseteq bitmap

\* A file whose sectors are not saved is one that is being resized.
Unsaved ==
  \A g \in Desc : Saved(g) \/ \E k \in DOMAIN stack : stack[k].file = g /\ stack[k].pc \in Resizes

WritesDirectory(k) == stack[k].pc = "write" /\ stack[k].file \in Dirs \ {Root}

\* The entries that are written name the sectors that the children have now.
UpToDate ==
  \A k \in DOMAIN stack :
    WritesDirectory(k) => ArrayRefs(stack[k].array) \subseteq ChildSectors(stack[k].file)

\* They are written next, or when the resize of the directory has returned at
\* once, as its size has not changed.
WrittenNext(k) == k = 1 \/ (k = 2 /\ stack[1].pc = "resize" /\ stack[1].n = size[stack[1].file])

Guarded ==
  \A k \in DOMAIN stack :
    WritesDirectory(k) /\ WrittenNext(k) => ArrayRefs(stack[k].array) \subseteq bitmap

\* No copy is made onto a directory.
Copies == \A k \in DOMAIN stack : stack[k].pc = "copy" => stack[k].to \notin Dirs

\* A file that has got sectors has made its directory longer than its size.
Longer(g) ==
  Saved(g) \/ \A d \in Dirs : parent_directory[g] = d => size[d] < Bytes(d)

Grows ==
  \A f \in Desc \ {Root} :
    stack # <<>> =>
      /\ Top.pc = "grow" /\ Top.file = f =>
           \A d \in Dirs : parent_directory[f] = d => size[d] <= Bytes(d)
      /\ Top.pc \in {"grow", "parent"} /\ Top.file = f => Longer(f)
      /\ Top.pc = "flush" /\ 2 \in DOMAIN stack /\ stack[2].pc = "bits" /\ stack[2].file = f =>
           Longer(f)

\* A directory whose entries have become shorter is about to be written.
Due(d) ==
  /\ stack # <<>>
  /\ \/ Top.pc = "parent" /\ parent_directory[Top.file] = d
     \/ Top.pc \in {"flush", "resize"} /\ Top.file = d

Room == \A d \in Dirs \cap live : size[d] <= Bytes(d) \/ Due(d)

Resized ==
  \A d \in Dirs : stack # <<>> /\ Top.pc = "resize" /\ Top.file = d => Top.n <= Bytes(d)

SavingInv ==
  Nesting /\ Unsaved /\ UpToDate /\ Guarded /\ Copies /\ Grows /\ Room /\ Resized

-----------------------------------------------------------------------------
(* How a transfer changes the sectors, the sizes and the bitmap.           *)

\* Only the file of the innermost frame gets or loses sectors.
LEMMA TransferSectors ==
  ASSUME TypeOK, Transfer
  PROVE  /\ \A g \in Desc : g # Top.file => sectors'[g] = sectors[g]
         /\ ~ ResizeShrink => Range(sectors[Top.file]) \subseteq Range(sectors'[Top.file])
         /\ ~ GrowSector => Range(sectors'[Top.file]) \subseteq Range(sectors[Top.file])
         /\ ~ GrowSector /\ ~ ResizeShrink => sectors' = sectors
         /\ bitmap' = bitmap \/ ResizeBits
         /\ ResizeBits => bitmap' = sector_bits /\ sectors' = sectors
<1> DEFINE f == Top.file
           count == SectorCount(Top.n)
<1>1. f \in Desc /\ Top.n \in Nat /\ sectors \in [Desc -> Seq(Sector)] /\ count \in Nat
  BY TransferTurns, TopFrame, SectorCountType DEF TypeOK
<1>2. sectors[f] \in Seq(Sector)
  BY <1>1
<1>3. ResizeBits => bitmap' = sector_bits /\ sectors' = sectors
  BY DEF ResizeBits
<1>4. CASE GrowSector
  <2>1. PICK s \in Free : sectors' = [sectors EXCEPT ![f] = Append(@, s)]
    BY <1>4 DEF GrowSector
  <2>2. s \in Sector
    BY DEF Free, Searched
  <2> HIDE DEF f
  <2>3. sectors'[f] = Append(sectors[f], s) /\ \A g \in Desc : g # f => sectors'[g] = sectors[g]
    BY <1>1, <2>1
  <2>4. Range(sectors'[f]) = Range(sectors[f]) \cup {s}
    BY <1>2, <2>2, <2>3, AppendRange
  <2>5. ~ ResizeShrink
    BY <1>4 DEF GrowSector, ResizeShrink, At
  <2>6. bitmap' = bitmap
    BY <1>4 DEF GrowSector, ondisk
  <2> QED BY <1>3, <1>4, <2>3, <2>4, <2>5, <2>6 DEF f
<1>5. CASE ResizeShrink
  <2>1. sectors' = [sectors EXCEPT ![f] = IF Len(@) > count THEN SubSeq(@, 1, count) ELSE @]
    BY <1>5 DEF ResizeShrink
  <2>2. bitmap' = bitmap
    BY <1>5 DEF ResizeShrink, ondisk
  <2>3. ~ GrowSector
    BY <1>5 DEF GrowSector, ResizeShrink, At
  <2> HIDE DEF f, count
  <2>4. \A g \in Desc : g # f => sectors'[g] = sectors[g]
    BY <1>1, <2>1
  <2>5. Range(sectors'[f]) \subseteq Range(sectors[f])
    <3>1. CASE Len(sectors[f]) > count
      <4> DEFINE new == SubSeq(sectors[f], 1, count)
      <4>1. \A i \in DOMAIN new : i \in DOMAIN sectors[f] /\ new[i] = sectors[f][i]
        BY <1>1, <1>2, <3>1
      <4>2. sectors'[f] = new
        BY <1>1, <2>1, <3>1
      <4> HIDE DEF new
      <4> QED BY <4>1, <4>2 DEF Range
    <3>2. CASE ~ (Len(sectors[f]) > count)
      <4>1. sectors'[f] = sectors[f]
        BY <1>1, <2>1, <3>2
      <4> QED BY <4>1
    <3> QED BY <3>1, <3>2
  <2> QED BY <1>3, <1>5, <2>2, <2>3, <2>4, <2>5 DEF f
<1>6. CASE ~ GrowSector /\ ~ ResizeShrink
  <2>1. sectors' = sectors /\ (bitmap' = bitmap \/ ResizeBits)
    BY <1>6 DEF Transfer, WriteSector, WriteDone, ResizeSame, ResizeKeep, ResizeGrow, GrowDone,
       DiskFull, ResizeParent, ResizeBits, FlushMetadata, CopyData, ondisk
  <2> QED BY <1>3, <1>6, <2>1
<1> QED BY <1>4, <1>5, <1>6

\* A directory that is being written keeps the sectors of its children: the
\* file that is cut down meanwhile is above it.
LEMMA WrittenKeep ==
  ASSUME TypeOK, TreeInv, Nesting, Transfer, NEW k \in DOMAIN stack, stack[k].pc = "write",
         NEW d, d = stack[k].file
  PROVE  ChildSectors(d) \subseteq ChildSectors(d)'
<1>1. UNCHANGED tree /\ stack # <<>> /\ stack[1] = Top /\ 1 \in DOMAIN stack
      /\ Len(stack) \in Nat /\ DOMAIN stack = 1 .. Len(stack)
  BY TransferTurns, TopFrame, StackTypes
<1>2. ASSUME NEW g \in Children(d)
      PROVE  Range(sectors[g]) \subseteq Range(sectors'[g])
  <2>1. g \in Desc /\ g \in live \ {Root} /\ parent_directory[g] = d
    BY DEF Children, TypeOK
  <2>2. CASE g # Top.file
    <3>1. sectors'[g] = sectors[g]
      BY <2>1, <2>2, TransferSectors
    <3> QED BY <3>1
  <2>3. CASE g = Top.file /\ ResizeShrink
    <3>1. Top.pc = "resize"
      BY <2>3 DEF ResizeShrink, At
    <3>2. 1 < k
      BY <1>1, <3>1
    <3>3. stack[1].file \in Above(d)
      BY <1>1, <3>2 DEF Nesting, WaitsFor
    <3>4. g \notin Above(d)
      BY <2>1, NotAboveItself DEF TreeInv
    <3> QED BY <1>1, <2>3, <3>3, <3>4
  <2>4. CASE g = Top.file /\ ~ ResizeShrink
    BY <2>4, TransferSectors
  <2> QED BY <2>2, <2>3, <2>4
<1>3. Children(d)' = Children(d)
  BY <1>1 DEF Children, tree
<1> QED BY <1>2, <1>3 DEF ChildSectors

\* What an old or a new frame that writes a directory is.
LEMMA WriteFrames ==
  ASSUME TypeOK, Transfer, Nesting, Copies, NEW new, Moves(new),
         NEW k \in DOMAIN stack', WritesDirectory(k)'
  PROVE  \/ \E m \in DOMAIN stack :
              /\ WritesDirectory(m) /\ m = k - Len(new) + 1
              /\ stack[m].file = stack'[k].file /\ stack[m].array = stack'[k].array
         \/ /\ FlushMetadata /\ k = 2 /\ stack'[k].file = Top.file
            /\ stack'[k].array = Serialize(Top.file)
            /\ stack'[1].pc = "resize" /\ stack'[1].n = Len(Serialize(Top.file))
            /\ stack'[1].file = Top.file
<1> DEFINE n == Len(new)
<1>1. /\ n \in Nat /\ DOMAIN stack' = 1 .. n + Len(stack) - 1
      /\ 1 \in DOMAIN stack /\ Top = stack[1] /\ Len(stack) \in Nat
      /\ \A j \in 1 .. n : stack'[j] = new[j]
      /\ \A j \in DOMAIN stack' : j > n => j - n + 1 \in DOMAIN stack /\ stack'[j] = stack[j - n + 1]
  BY MovesTypes
<1>2. stack'[k].pc = "write" /\ stack'[k].file \in Dirs \ {Root}
  BY DEF WritesDirectory
<1> HIDE DEF n
<1>3. CASE k > n
  <2>1. k - n + 1 \in DOMAIN stack /\ stack'[k] = stack[k - n + 1]
    BY <1>1, <1>3
  <2> QED BY <1>2, <2>1 DEF WritesDirectory, n
<1>4. CASE ~ (k > n)
  <2>1. k \in 1 .. n
    BY <1>1, <1>4
  <2>2. CASE Stays(new)
    <3>1. n = 1 /\ k = 1 /\ k - n + 1 = 1
      BY <2>1, <2>2 DEF Stays, n
    <3>2. stack'[k] = new[1]
      BY <1>1, <2>1, <3>1
    <3>3. Top.pc = "write" /\ new[1].array = Top.array /\ new[1].file = Top.file
      BY <1>2, <2>2, <3>2 DEF Stays
    <3> QED BY <1>1, <1>2, <3>1, <3>2, <3>3 DEF WritesDirectory, n
  <2>3. CASE Flushes(new)
    <3>1. k = 1 \/ k = 2
      BY <2>1, <2>3 DEF Flushes, n
    <3>2. stack'[k] = new[k]
      BY <1>1, <2>1
    <3> QED BY <1>2, <2>3, <3>1, <3>2 DEF Flushes
  <2>4. CASE Writes(new)
    <3>1. n = 2 /\ (k = 1 \/ k = 2)
      BY <2>1, <2>4 DEF Writes, n
    <3>2. stack'[1] = new[1] /\ stack'[k] = new[k]
      BY <1>1, <2>1, <3>1
    <3>3. k = 2
      BY <1>2, <2>4, <3>1, <3>2 DEF Writes
    <3>4. Top.pc # "copy"
      BY <1>1, <1>2, <2>4, <3>2, <3>3 DEF Writes, Copies, CopyData, FlushMetadata, At
    <3>5. FlushMetadata /\ Top.pc = "flush" /\ new[2].file = Top.file
          /\ new[2].array = Serialize(Top.file)
      BY <2>4, <3>4 DEF Writes, CopyData, At
    <3>6. new[1].pc = "resize" /\ new[1].file = new[2].file /\ new[1].n = Len(new[2].array)
      BY <2>4 DEF Writes
    <3> QED BY <3>2, <3>3, <3>5, <3>6
  <2>5. CASE Pops(new)
    BY <2>1, <2>5 DEF Pops, n
  <2> QED BY <2>2, <2>3, <2>4, <2>5 DEF Moves
<1> QED BY <1>3, <1>4

LEMMA TransferUpToDate ==
  ASSUME TypeOK, TreeInv, Nesting, Copies, UpToDate, Transfer
  PROVE  UpToDate'
<1>1. PICK new \in Seq(Frame) : Moves(new)
  BY TransferMoves
<1>2. UNCHANGED tree /\ stack # <<>> /\ Top.file \in Desc
  BY TransferTurns, TopFrame
<1> SUFFICES ASSUME NEW k \in DOMAIN stack', WritesDirectory(k)', NEW d, d = stack'[k].file
             PROVE  ArrayRefs(stack'[k].array) \subseteq ChildSectors(d)'
  BY DEF UpToDate
<1>5. CASE \E m \in DOMAIN stack :
              /\ WritesDirectory(m)
              /\ stack[m].file = stack'[k].file /\ stack[m].array = stack'[k].array
  <2>1. PICK m \in DOMAIN stack :
              /\ WritesDirectory(m)
              /\ stack[m].file = stack'[k].file /\ stack[m].array = stack'[k].array
    BY <1>5
  <2>2. ArrayRefs(stack[m].array) \subseteq ChildSectors(stack[m].file) /\ stack[m].pc = "write"
    BY <2>1 DEF UpToDate, WritesDirectory
  <2>3. ChildSectors(d) \subseteq ChildSectors(d)'
    BY <2>1, <2>2, WrittenKeep
  <2> QED BY <2>1, <2>2, <2>3
<1>6. CASE FlushMetadata /\ d = Top.file /\ stack'[k].array = Serialize(Top.file)
  <2>1. ArrayRefs(stack'[k].array) \subseteq ChildSectors(d)
    BY <1>2, <1>6, SerializeRefs DEF TreeInv
  <2>2. sectors' = sectors
    BY <1>6 DEF FlushMetadata
  <2>3. ChildSectors(d)' = ChildSectors(d)
    BY <1>2, <2>2 DEF ChildSectors, Children, tree
  <2> QED BY <2>1, <2>3
<1> QED BY <1>1, <1>5, <1>6, WriteFrames

\* A resize that has still to save the bits waits for the directory above: for
\* its flush, or, with the directory's own calls in between, for its write.
LEMMA BitsFrame ==
  ASSUME TypeOK, Nesting, NEW k \in DOMAIN stack, k > 1, stack[k].pc = "bits",
         NEW d, d = parent_directory[stack[k].file]
  PROVE  /\ k \in Nat /\ k - 1 \in DOMAIN stack /\ 1 \in DOMAIN stack /\ stack[1] = Top
         /\ stack[k - 1].file = d
         /\ \/ k = 2 /\ Top.pc = "flush"
            \/ k = 2 /\ Top.pc = "write"
            \/ /\ k - 2 \in DOMAIN stack /\ stack[k - 2].file = d
               /\ stack[k - 2].pc \in Resizes \cup {"resize"}
               /\ Top.file \in Above(d)
<1>1. Len(stack) \in Nat /\ DOMAIN stack = 1 .. Len(stack) /\ stack # <<>>
  BY StackTypes
<1>2. 1 \in DOMAIN stack /\ stack[1] = Top
  BY <1>1, TopFrame
<1>3. k \in Nat /\ k - 1 \in DOMAIN stack /\ k - 1 \in Nat
  BY <1>1
<1>4. /\ stack[k - 1].file = d
      /\ stack[k - 1].pc = "write" \/ (stack[k - 1].pc = "flush" /\ k = 2)
  BY DEF Nesting, WaitsFor
<1>5. CASE k = 2
  <2>1. k - 1 = 1
    BY <1>5
  <2> QED BY <1>2, <1>3, <1>4, <1>5, <2>1
<1>6. CASE k # 2
  <2>1. k - 1 > 1 /\ k - 2 \in DOMAIN stack /\ (k - 1) - 1 = k - 2 /\ 1 < k - 1
    BY <1>1, <1>3, <1>6
  <2>2. stack[k - 1].pc = "write" /\ WaitsFor(k - 1)
    BY <1>3, <1>4, <1>6, <2>1 DEF Nesting
  <2>3. /\ stack[k - 2].file = d /\ stack[k - 2].pc \in Resizes \cup {"resize"}
        /\ stack[1].file \in Above(d)
    BY <1>2, <1>4, <2>1, <2>2 DEF WaitsFor
  <2> QED BY <1>2, <1>3, <1>4, <2>1, <2>3
<1> QED BY <1>5, <1>6

\* The flush of a directory meets at most one child that is not saved: the one
\* whose resize has called it.
LEMMA OneUnsaved ==
  ASSUME TypeOK, TreeInv, Nesting, Unsaved, stack # <<>>, Top.pc = "flush",
         Top.file # Root, NEW g \in Children(Top.file), ~ Saved(g)
  PROVE  2 \in DOMAIN stack /\ stack[2].pc = "bits" /\ stack[2].file = g
<1>1. g \in Desc
  BY DEF Children, TypeOK
<1>2. PICK k \in DOMAIN stack : stack[k].file = g /\ stack[k].pc \in Resizes
  BY <1>1 DEF Unsaved
<1>3. stack[1] = Top /\ 1 \in DOMAIN stack /\ Top.file \in Desc
      /\ Len(stack) \in Nat /\ DOMAIN stack = 1 .. Len(stack)
  BY TopFrame, StackTypes
<1>4. k # 1 /\ k > 1
  BY <1>2, <1>3 DEF Resizes
<1>5. stack[k].pc = "bits"
  BY <1>2, <1>4 DEF Nesting, WaitsFor, Resizes
<1>6. PICK d : d = Top.file
  OBVIOUS
<1>7. d = parent_directory[g]
  BY <1>6 DEF Children
<1>8. d \in live \ {Root}
  BY <1>3, <1>6 DEF TreeInv, StackInv, Holds
<1>9. k = 2
  <2> SUFFICES ASSUME k # 2 PROVE FALSE
    OBVIOUS
  <2>1. /\ k \in Nat /\ k - 2 \in DOMAIN stack /\ stack[k - 2].file = d
        /\ stack[k - 2].pc \in Resizes \cup {"resize"}
    BY <1>2, <1>4, <1>5, <1>7, BitsFrame
  <2> DEFINE m == k - 2
  <2>2. m \in DOMAIN stack /\ stack[m].file = d /\ stack[m].pc \in Resizes \cup {"resize"}
    BY <2>1
  <2> HIDE DEF m
  <2>3. m # 1 /\ m > 1
    BY <1>3, <2>2 DEF Resizes
  <2>4. stack[m].pc = "bits"
    BY <2>2, <2>3 DEF Nesting, WaitsFor, Resizes
  <2>5. PICK e : e = parent_directory[d]
    OBVIOUS
  <2>6. d # e /\ d \notin Above(e)
    BY <1>8, <2>5, NotAboveItself DEF TreeInv
  <2>7. stack[m - 1].file = e /\ (m = 2 \/ Top.file \in Above(e))
    BY <2>2, <2>3, <2>4, <2>5, BitsFrame
  <2>8. m # 2
    <3> SUFFICES ASSUME m = 2 PROVE FALSE
      OBVIOUS
    <3>1. m - 1 = 1
      OBVIOUS
    <3> QED BY <1>3, <1>6, <2>6, <2>7, <3>1
  <2> QED BY <1>6, <2>6, <2>7, <2>8
<1> QED BY <1>2, <1>5, <1>9

\* A file that is about to be resized has its sectors saved.
LEMMA ResizedSaved ==
  ASSUME TypeOK, TreeInv, Nesting, Unsaved, stack # <<>>, Top.pc = "resize",
         Top.file # Root
  PROVE  Saved(Top.file)
<1>1. stack[1] = Top /\ 1 \in DOMAIN stack /\ Top.file \in Desc
      /\ Len(stack) \in Nat /\ DOMAIN stack = 1 .. Len(stack)
  BY TopFrame, StackTypes
<1> SUFFICES ASSUME ~ Saved(Top.file) PROVE FALSE
  OBVIOUS
<1>2. PICK k \in DOMAIN stack : stack[k].file = Top.file /\ stack[k].pc \in Resizes
  BY <1>1 DEF Unsaved
<1>3. k # 1 /\ k > 1
  BY <1>1, <1>2 DEF Resizes
<1>4. stack[k].pc = "bits"
  BY <1>2, <1>3 DEF Nesting, WaitsFor, Resizes
<1>5. PICK d : d = parent_directory[Top.file]
  OBVIOUS
<1>6. Top.file \in live \ {Root}
  BY <1>1 DEF TreeInv, StackInv, Holds
<1>7. Top.file \notin Above(d)
  BY <1>5, <1>6, NotAboveItself DEF TreeInv
<1> QED BY <1>2, <1>3, <1>4, <1>5, <1>7, BitsFrame

\* A directory as long as its size says has nothing but saved children.
LEMMA FlushSaved ==
  ASSUME TypeOK, TreeInv, Nesting, Unsaved, Grows, stack # <<>>, Top.pc = "flush",
         Top.file # Root, size[Top.file] = Bytes(Top.file)
  PROVE  ChildSectors(Top.file) \subseteq bitmap
<1> SUFFICES ASSUME NEW g \in Children(Top.file), ~ Saved(g) PROVE FALSE
  BY DEF ChildSectors, Saved
<1>1. 2 \in DOMAIN stack /\ stack[2].pc = "bits" /\ stack[2].file = g
  BY OneUnsaved
<1>2. g # Root /\ parent_directory[g] = Top.file /\ g \in Desc /\ Top.file \in Dirs
  BY DEF Children, TreeInv, Linked, TypeOK
<1>3. size[Top.file] < Bytes(Top.file)
  BY <1>1, <1>2 DEF Grows, Longer
<1>4. Top.file \in Desc
  BY TopFrame
<1> QED BY <1>3, <1>4, BytesType DEF TypeOK

LEMMA TransferGuarded ==
  ASSUME TypeOK, TypeOK', TreeInv, SectorsInv, SavingInv, Transfer
  PROVE  Guarded'
<1>0. Nesting /\ Copies /\ UpToDate /\ Guarded /\ Unsaved /\ Grows
  BY DEF SavingInv
<1>1. PICK new \in Seq(Frame) : Moves(new)
  BY TransferMoves
<1>2. /\ UNCHANGED tree /\ stack # <<>> /\ Top = stack[1] /\ 1 \in DOMAIN stack
      /\ Top.file \in Desc /\ Len(new) \in Nat
      /\ \A j \in 1 .. Len(new) : stack'[j] = new[j]
      /\ \A j \in DOMAIN stack' : j > Len(new) =>
           j - Len(new) + 1 \in DOMAIN stack /\ stack'[j] = stack[j - Len(new) + 1]
      /\ DOMAIN stack' = 1 .. Len(new) + Len(stack) - 1
  BY <1>1, MovesTypes, TopFrame
<1>3. UpToDate'
  BY <1>0, TransferUpToDate
<1> SUFFICES ASSUME NEW k \in DOMAIN stack', WritesDirectory(k)', WrittenNext(k)'
             PROVE  ArrayRefs(stack'[k].array) \subseteq bitmap'
  BY DEF Guarded, ArrayRefs
<1>4. CASE ResizeBits
  <2>1. bitmap' = sector_bits /\ sectors' = sectors
    BY <1>4, TransferSectors
  <2>2. PICK d : d = stack'[k].file
    OBVIOUS
  <2>3. ArrayRefs(stack'[k].array) \subseteq ChildSectors(d)'
    BY <1>3, <2>2 DEF UpToDate, ArrayRefs, ChildSectors, Children
  <2>4. ChildSectors(d)' = ChildSectors(d)
    BY <1>2, <2>1 DEF ChildSectors, Children, tree
  <2>5. ChildSectors(d) \subseteq sector_bits
    BY DEF ChildSectors, SectorsInv, OwnedAreTaken, Owned, Children, TypeOK
  <2> QED BY <2>1, <2>3, <2>4, <2>5
<1>5. CASE ~ ResizeBits
  <2>1. bitmap' = bitmap
    BY <1>5, TransferSectors
  <2>2. CASE \E m \in DOMAIN stack :
               /\ WritesDirectory(m) /\ m = k - Len(new) + 1
               /\ stack[m].file = stack'[k].file /\ stack[m].array = stack'[k].array
    <3>1. PICK m \in DOMAIN stack :
               /\ WritesDirectory(m) /\ m = k - Len(new) + 1
               /\ stack[m].file = stack'[k].file /\ stack[m].array = stack'[k].array
      BY <2>2
    <3>2. SUFFICES WrittenNext(m)
      BY <1>0, <2>1, <3>1 DEF Guarded
    <3>3. k \in Nat /\ m \in Nat
      BY <1>2, <3>1, StackTypes
    <3>4. CASE Pops(new)
      <4>1. Len(new) = 0 /\ (WriteDone \/ ResizeSame)
        BY <1>5, <3>4 DEF Pops
      <4>2. m = k + 1
        BY <3>1, <3>3, <4>1
      <4>3. k = 1
        <5> SUFFICES ASSUME k = 2, stack'[1].pc = "resize" PROVE FALSE
          BY DEF WrittenNext
        <5>1. 1 - Len(new) + 1 = 2 /\ 1 > Len(new) /\ 1 \in DOMAIN stack'
          BY <1>2, <4>1
        <5>2. 2 \in DOMAIN stack /\ stack'[1] = stack[2]
          BY <1>2, <5>1
        <5> QED BY <1>0, <5>2 DEF Nesting, WaitsFor
      <4>4. m = 2 /\ stack[2].pc = "write"
        BY <3>1, <4>2, <4>3 DEF WritesDirectory
      <4>5. Top.file = stack[2].file /\ Top.pc # "write"
        <5>1. WaitsFor(2)
          BY <1>0, <3>1, <4>4 DEF Nesting
        <5>2. 2 - 1 = 1
          OBVIOUS
        <5> QED BY <1>2, <4>4, <5>1, <5>2 DEF WaitsFor, Resizes
      <4>6. Top.pc = "resize" /\ Top.n = size[Top.file]
        BY <4>1, <4>5 DEF WriteDone, ResizeSame, At
      <4> QED BY <1>2, <4>4, <4>6 DEF WrittenNext
    <3>5. CASE Stays(new)
      <4>1. Len(new) = 1
        BY <3>5 DEF Stays
      <4>2. m = k
        BY <3>1, <3>3, <4>1
      <4>3. new[1].pc # "resize" /\ stack'[1] = new[1]
        <5>1. 1 \in 1 .. Len(new)
          BY <4>1
        <5> QED BY <1>2, <3>5, <5>1 DEF Stays
      <4>4. k = 1
        BY <4>3 DEF WrittenNext
      <4> QED BY <4>2, <4>4 DEF WrittenNext
    <3>6. CASE Flushes(new) \/ Writes(new)
      <4>1. Len(new) = 2
        BY <3>6 DEF Flushes, Writes
      <4>2. k = m + 1
        BY <3>1, <3>3, <4>1
      <4>3. m = 1 /\ k = 2
        BY <1>2, <3>1, <3>3, <4>2, StackTypes DEF WrittenNext
      <4> QED BY <4>3 DEF WrittenNext
    <3> QED BY <1>1, <3>4, <3>5, <3>6 DEF Moves
  <2>3. CASE /\ FlushMetadata /\ k = 2 /\ stack'[k].file = Top.file
             /\ stack'[k].array = Serialize(Top.file)
             /\ stack'[1].pc = "resize" /\ stack'[1].n = Len(Serialize(Top.file))
             /\ stack'[1].file = Top.file
    <3>1. Top.pc = "flush" /\ size' = size
      BY <2>3 DEF FlushMetadata, At
    <3>2. stack'[1].n = size[Top.file]
      BY <2>3, <3>1 DEF WrittenNext
    <3>3. /\ Len(Serialize(Top.file)) = Bytes(Top.file)
          /\ ArrayRefs(Serialize(Top.file)) \subseteq ChildSectors(Top.file)
      BY <1>2, SerializeRefs DEF TreeInv
    <3>4. Top.file # Root
      BY <2>3 DEF WritesDirectory
    <3>5. ChildSectors(Top.file) \subseteq bitmap
      BY <1>0, <1>2, <2>3, <3>1, <3>2, <3>3, <3>4, FlushSaved
    <3> QED BY <2>1, <2>3, <3>3, <3>5
  <2> QED BY <1>0, <1>1, <2>2, <2>3, WriteFrames
<1> QED BY <1>4, <1>5

-----------------------------------------------------------------------------

LEMMA MovesTop ==
  ASSUME TypeOK, TypeOK', Transfer, NEW new, Moves(new), stack' # <<>>
  PROVE  /\ Top' = stack'[1] /\ 1 \in DOMAIN stack'
         /\ Len(new) = 0 => 2 \in DOMAIN stack /\ Top' = stack[2]
         /\ Len(new) # 0 => Top' = new[1]
<1>1. stack' \in Seq(Frame)
  BY DEF TypeOK
<1>2. Top' = stack'[1] /\ 1 \in DOMAIN stack'
  BY <1>1 DEF Top
<1>3. /\ Len(new) \in Nat /\ \A k \in 1 .. Len(new) : stack'[k] = new[k]
      /\ \A k \in DOMAIN stack' : k > Len(new) =>
           k - Len(new) + 1 \in DOMAIN stack /\ stack'[k] = stack[k - Len(new) + 1]
  BY MovesTypes
<1>4. CASE Len(new) = 0
  <2>1. 1 > Len(new) /\ 1 - Len(new) + 1 = 2
    BY <1>4
  <2>2. 2 \in DOMAIN stack /\ stack'[1] = stack[2]
    BY <1>2, <1>3, <2>1
  <2> QED BY <1>2, <1>4, <2>2
<1>5. CASE Len(new) # 0
  <2>1. 1 \in 1 .. Len(new)
    BY <1>3, <1>5
  <2> QED BY <1>2, <1>3, <1>5, <2>1
<1> QED BY <1>4, <1>5

\* The frames that a transfer adds.
LEMMA MovesLabels ==
  ASSUME NEW new, Moves(new), NEW k \in 1 .. Len(new)
  PROVE  new[k].pc # "copy" /\ (new[k].pc = "resize" => k = 1 /\ Writes(new))
<1>1. CASE Stays(new)
  <2>1. k = 1
    BY <1>1 DEF Stays
  <2> QED BY <1>1, <2>1 DEF Stays
<1>2. CASE Flushes(new)
  <2>1. k = 1 \/ k = 2
    BY <1>2 DEF Flushes
  <2> QED BY <1>2, <2>1 DEF Flushes
<1>3. CASE Writes(new)
  <2>1. k = 1 \/ k = 2
    BY <1>3 DEF Writes
  <2> QED BY <1>3, <2>1 DEF Writes
<1>4. CASE Pops(new)
  BY <1>4 DEF Pops
<1> QED BY <1>1, <1>2, <1>3, <1>4 DEF Moves

LEMMA TransferCopies ==
  ASSUME TypeOK, Copies, Transfer
  PROVE  Copies'
<1>1. PICK new \in Seq(Frame) : Moves(new)
  BY TransferMoves
<1>2. /\ Len(new) \in Nat /\ \A j \in 1 .. Len(new) : stack'[j] = new[j]
      /\ \A j \in DOMAIN stack' : j > Len(new) =>
           j - Len(new) + 1 \in DOMAIN stack /\ stack'[j] = stack[j - Len(new) + 1]
      /\ DOMAIN stack' = 1 .. Len(new) + Len(stack) - 1 /\ Len(stack) \in Nat
  BY <1>1, MovesTypes
<1> SUFFICES ASSUME NEW k \in DOMAIN stack', stack'[k].pc = "copy"
             PROVE  stack'[k].to \notin Dirs
  BY DEF Copies
<1>3. CASE k > Len(new)
  BY <1>2, <1>3 DEF Copies
<1>4. CASE ~ (k > Len(new))
  <2>1. k \in 1 .. Len(new)
    BY <1>2, <1>4
  <2> QED BY <1>1, <1>2, <2>1, MovesLabels
<1> QED BY <1>3, <1>4

LEMMA TransferUnsaved ==
  ASSUME TypeOK, TypeOK', SectorsInv, Unsaved, Transfer
  PROVE  Unsaved'
<1>1. PICK new \in Seq(Frame) : Moves(new)
  BY TransferMoves
<1>2. /\ stack # <<>> /\ Top = stack[1] /\ 1 \in DOMAIN stack
      /\ Len(new) \in Nat /\ \A j \in 1 .. Len(new) : stack'[j] = new[j]
      /\ \A j \in DOMAIN stack' : j > Len(new) =>
           j - Len(new) + 1 \in DOMAIN stack /\ stack'[j] = stack[j - Len(new) + 1]
      /\ DOMAIN stack' = 1 .. Len(new) + Len(stack) - 1 /\ Len(stack) \in Nat
      /\ DOMAIN stack = 1 .. Len(stack)
  BY <1>1, MovesTypes
<1>3. SUFFICES ASSUME NEW g \in Desc
               PROVE  Saved(g)' \/ \E k \in DOMAIN stack' : stack'[k].file = g
                                                          /\ stack'[k].pc \in Resizes
  BY DEF Unsaved
<1>4. CASE ResizeBits
  <2>1. bitmap' = sector_bits /\ sectors' = sectors
    BY <1>4, TransferSectors
  <2>2. Range(sectors[g]) \subseteq sector_bits
    BY DEF SectorsInv, OwnedAreTaken, Owned
  <2> QED BY <2>1, <2>2 DEF Saved
<1>5. CASE ~ ResizeBits
  <2>1. bitmap' = bitmap
    BY <1>5, TransferSectors
  \* The frame of its resize is still there.
  <2>2. ASSUME Top.file = g, Top.pc \in Resizes
        PROVE  \E k \in DOMAIN stack' : stack'[k].file = g /\ stack'[k].pc \in Resizes
    <3>1. CASE Stays(new)
      <4>1. Len(new) = 1 /\ new[1].file = g /\ new[1].pc \in Resizes
        BY <2>2, <3>1 DEF Stays, Resizes
      <4>2. 1 \in 1 .. Len(new) /\ 1 \in DOMAIN stack'
        BY <1>2, <4>1
      <4> QED BY <1>2, <4>1, <4>2
    <3>2. CASE Flushes(new)
      <4>1. Len(new) = 2 /\ new[2].file = g /\ new[2].pc \in Resizes
        BY <2>2, <3>2 DEF Flushes, Resizes
      <4>2. 2 \in 1 .. Len(new) /\ 2 \in DOMAIN stack'
        BY <1>2, <4>1
      <4> QED BY <1>2, <4>1, <4>2
    <3>3. CASE Writes(new)
      BY <2>2, <3>3 DEF Writes, Resizes
    <3>4. CASE Pops(new)
      BY <1>5, <2>2, <3>4 DEF Pops, WriteDone, ResizeSame, At, Resizes
    <3> QED BY <1>1, <3>1, <3>2, <3>3, <3>4 DEF Moves
  <2>3. ASSUME NEW m \in DOMAIN stack, m # 1, stack[m].file = g, stack[m].pc \in Resizes
        PROVE  \E k \in DOMAIN stack' : stack'[k].file = g /\ stack'[k].pc \in Resizes
    <3> DEFINE k == m + Len(new) - 1
    <3>1. k > Len(new) /\ k - Len(new) + 1 = m /\ k \in DOMAIN stack'
      BY <1>2, <2>3
    <3> HIDE DEF k
    <3>2. stack'[k] = stack[m]
      BY <1>2, <3>1
    <3> QED BY <2>3, <3>1, <3>2
  <2>4. CASE Saved(g)
    <3>1. CASE GrowSector /\ g = Top.file
      <4>1. Top.pc \in Resizes
        BY <3>1 DEF GrowSector, At, Resizes
      <4> QED BY <2>2, <3>1, <4>1
    <3>2. CASE ~ (GrowSector /\ g = Top.file)
      <4>1. Range(sectors'[g]) \subseteq Range(sectors[g])
        <5>1. CASE g = Top.file
          BY <3>2, <5>1, TransferSectors
        <5>2. CASE g # Top.file
          <6>1. sectors'[g] = sectors[g]
            BY <5>2, TransferSectors
          <6> QED BY <6>1
        <5> QED BY <5>1, <5>2
      <4> QED BY <2>1, <2>4, <4>1 DEF Saved
    <3> QED BY <3>1, <3>2
  <2>5. CASE ~ Saved(g)
    <3>1. PICK m \in DOMAIN stack : stack[m].file = g /\ stack[m].pc \in Resizes
      BY <2>5 DEF Unsaved
    <3> QED BY <1>2, <2>2, <2>3, <3>1
  <2> QED BY <2>4, <2>5
<1> QED BY <1>4, <1>5

-----------------------------------------------------------------------------
(* How long the entries of a directory are.                                *)

LEMMA TransferResizes ==
  ASSUME TypeOK, Transfer
  PROVE  /\ Top.file \in Desc /\ Top.n \in Nat
         /\ \/ size' = size
            \/ /\ ResizeKeep \/ ResizeShrink \/ ResizeGrow
               /\ Top.pc = "resize"
               /\ \A g \in Desc : size'[g] = IF g = Top.file THEN Top.n ELSE size[g]
<1>1. Top.file \in Desc /\ Top.n \in Nat
  BY TransferTurns, TopFrame
<1>2. CASE ResizeKeep \/ ResizeShrink \/ ResizeGrow
  <2>1. Top.pc = "resize" /\ size' = [size EXCEPT ![Top.file] = Top.n]
    BY <1>2 DEF ResizeKeep, ResizeShrink, ResizeGrow, At
  <2> QED BY <1>1, <1>2, <2>1 DEF TypeOK
<1>3. CASE ~ (ResizeKeep \/ ResizeShrink \/ ResizeGrow)
  <2>1. size' = size
    BY <1>3 DEF Transfer, WriteSector, WriteDone, ResizeSame, GrowSector, GrowDone,
       DiskFull, ResizeParent, ResizeBits, FlushMetadata, CopyData
  <2> QED BY <1>1, <2>1
<1> QED BY <1>2, <1>3

LEMMA BytesNextType ==
  ASSUME TypeOK', NEW d \in Desc
  PROVE  Bytes(d)' \in Nat
<1>1. IsFiniteSet((1 .. Len(files'[d])) \X (0 .. DiskSize))
  <2>1. IsFiniteSet(1 .. Len(files'[d])) /\ IsFiniteSet(0 .. DiskSize)
    BY FS_Interval, SizesAssumption DEF TypeOK
  <2> QED BY <2>1, FS_Product
<1> DEFINE places == {p \in (1 .. Len(files'[d])) \X (0 .. DiskSize) :
                        p[2] <= Len(sectors'[files'[d][p[1]]])}
<1>2. IsFiniteSet(places)
  BY <1>1, FS_Subset
<1>3. Bytes(d)' = Cardinality(places)
  <2>1. Len(files'[d]) + 1 - 1 = Len(files'[d])
    BY DEF TypeOK
  <2> QED BY <2>1 DEF Bytes, Offset
<1> QED BY <1>2, <1>3, FS_CardinalityType

LEMMA TransferBytes ==
  ASSUME TypeOK, TypeOK', TreeInv, SectorsInv', Transfer, NEW d \in Desc
  PROVE  /\ Bytes(d) \in Nat /\ Bytes(d)' \in Nat
         /\ ~ ResizeShrink => Bytes(d) <= Bytes(d)'
         /\ ~ GrowSector /\ ~ ResizeShrink => Bytes(d)' = Bytes(d)
         /\ d # parent_directory[Top.file] \/ Top.file = Root => Bytes(d)' = Bytes(d)
         /\ GrowSector /\ d = parent_directory[Top.file] /\ Top.file # Root => Bytes(d) < Bytes(d)'
<1> DEFINE f == Top.file
<1>1. /\ stack # <<>> /\ 1 \in DOMAIN stack /\ stack[1] = Top /\ f \in Desc
      /\ UNCHANGED tree /\ files' = files
  BY TransferTurns, TopFrame DEF tree
<1>2. f \in live
  BY <1>1 DEF TreeInv, StackInv, Holds
<1>3. \A i \in DOMAIN files[d] : /\ files[d][i] \in live \ {Root} /\ files[d][i] \in Desc
                                 /\ parent_directory[files[d][i]] = d
  BY EntryLinked DEF TreeInv, TypeOK
<1>4. Bytes(d) \in Nat
  BY BytesType
<1>8. Bytes(d)' \in Nat
  BY BytesNextType
<1> HIDE DEF f
<1>5. CASE (~ GrowSector /\ ~ ResizeShrink) \/ d # parent_directory[f] \/ f = Root
  <2>1. \A i \in DOMAIN files[d] : sectors'[files[d][i]] = sectors[files[d][i]]
    <3>1. \A g \in Desc : g # f => sectors'[g] = sectors[g]
      BY TransferSectors DEF f
    <3>2. ~ GrowSector /\ ~ ResizeShrink => sectors' = sectors
      BY TransferSectors
    <3> QED BY <1>3, <1>5, <3>1, <3>2
  <2>2. Bytes(d)' = Bytes(d)
    BY <1>1, <2>1, SameBytes
  <2>3. Bytes(d) <= Bytes(d)'
    BY <1>4, <2>2
  <2>5. ~ (GrowSector /\ d = parent_directory[f] /\ f # Root)
    BY <1>5
  <2> QED BY <1>4, <1>8, <2>2, <2>3, <2>5 DEF f
<1>6. CASE ResizeShrink /\ d = parent_directory[f] /\ f # Root
  <2>2. ~ GrowSector
    BY <1>6 DEF GrowSector, ResizeShrink, At
  <2> QED BY <1>4, <1>6, <1>8, <2>2 DEF f
<1>7. CASE GrowSector /\ d = parent_directory[f] /\ f # Root
  <2>1. PICK s \in Free : sectors' = [sectors EXCEPT ![f] = Append(@, s)]
    BY <1>7 DEF GrowSector, f
  <2>2. s \in Sector /\ sectors[f] \in Seq(Sector) /\ sectors'[f] \in Seq(Sector)
    BY <1>1 DEF Free, Searched, TypeOK
  <2>3. sectors'[f] = Append(sectors[f], s) /\ \A g \in Desc : g # f => sectors'[g] = sectors[g]
    BY <1>1, <2>1 DEF TypeOK
  <2>4. Len(sectors[f]) \in Nat /\ Len(sectors'[f]) = Len(sectors[f]) + 1
    BY <2>2, <2>3
  <2>5. Len(sectors[f]) < Len(sectors'[f])
    BY <2>4
  <2>6. Len(sectors'[f]) <= DiskSize
    <3>1. \A i, j \in DOMAIN sectors'[f] : sectors'[f][i] = sectors'[f][j] => i = j
      BY <1>1 DEF SectorsInv, SectorsExclusive
    <3> QED BY <2>2, <3>1, FewSectors
  <2>7. PICK i \in DOMAIN files[d] : files[d][i] = f
    BY <1>1, <1>2, <1>7 DEF TreeInv, Linked, Children, Range
  <2>8. \A j \in DOMAIN files[d] : Len(sectors[files[d][j]]) <= Len(sectors'[files[d][j]])
    <3>1. \A g \in Desc : Len(sectors[g]) \in Nat
      BY DEF TypeOK
    <3>2. \A g \in Desc : Len(sectors[g]) <= Len(sectors'[g])
      BY <2>3, <2>5, <3>1
    <3> QED BY <1>3, <3>2
  <2>9. Len(files[d]) <= Len(files'[d])
    BY <1>1 DEF TypeOK
  <2>10. Bytes(d) < Bytes(d)'
    BY <1>1, <2>5, <2>6, <2>7, <2>8, <2>9, MoreBytes
  <2>11. ~ ResizeShrink
    BY <1>7 DEF GrowSector, ResizeShrink, At
  <2> DEFINE old == Bytes(d)
             new == Bytes(d)'
  <2> HIDE DEF old, new
  <2>12. old \in Nat /\ new \in Nat /\ old < new => old <= new
    OBVIOUS
  <2>13. Bytes(d) <= Bytes(d)'
    BY <1>4, <1>8, <2>10, <2>12 DEF old, new
  <2> QED BY <1>4, <1>7, <1>8, <2>10, <2>11, <2>13 DEF f
<1> QED BY <1>5, <1>6, <1>7

LEMMA TransferResized ==
  ASSUME TypeOK, TypeOK', TreeInv, SectorsInv', Nesting, Copies, Transfer
  PROVE  Resized'
<1> SUFFICES ASSUME NEW d \in Dirs, stack' # <<>>, Top'.pc = "resize", Top'.file = d
             PROVE  Top'.n <= Bytes(d)'
  BY DEF Resized
<1>1. PICK new \in Seq(Frame) : Moves(new)
  BY TransferMoves
<1>2. Len(new) \in Nat /\ 1 \in DOMAIN stack /\ stack[1] = Top /\ Top.file \in Desc
  BY <1>1, MovesTypes, TransferResizes
<1>3. Len(new) # 0 /\ Top' = new[1]
  <2> SUFFICES ASSUME Len(new) = 0 PROVE FALSE
    BY <1>1, MovesTop
  <2>1. 2 \in DOMAIN stack /\ Top' = stack[2]
    BY <1>1, MovesTop
  <2> QED BY <2>1 DEF Nesting, WaitsFor
<1>4. 1 \in 1 .. Len(new)
  BY <1>2, <1>3
<1>5. Writes(new)
  BY <1>1, <1>3, <1>4, MovesLabels
<1>6. Top.pc # "copy"
  BY <1>2, <1>3, <1>5 DEF Writes, Copies, FlushMetadata, CopyData, At
<1>7. /\ FlushMetadata /\ Top.file = d /\ new[1].n = Len(Serialize(Top.file))
      /\ Top.pc = "flush"
  BY <1>3, <1>5, <1>6 DEF Writes, CopyData, At
<1>8. Len(Serialize(Top.file)) = Bytes(Top.file)
  BY <1>2, SerializeRefs DEF TreeInv
<1>9. d \in Desc /\ ~ GrowSector /\ ~ ResizeShrink
  BY <1>7, TreeAssumption DEF GrowSector, ResizeShrink, At
<1>10. Bytes(d)' = Bytes(d) /\ Bytes(d) \in Nat
  BY <1>9, TransferBytes
<1>11. Top'.n = Bytes(d)
  BY <1>3, <1>7, <1>8
<1> DEFINE old == Bytes(d)
<1> HIDE DEF old
<1>12. old \in Nat => old <= old
  OBVIOUS
<1> QED BY <1>10, <1>11, <1>12 DEF old

LEMMA ShrinkAlone ==
  ASSUME TypeOK, stack # <<>>, ResizeShrink
  PROVE  ~ ResizeSame /\ ~ ResizeKeep /\ ~ ResizeGrow
<1> DEFINE new == SectorCount(Top.n)
           old == SectorCount(size[Top.file])
<1>1. new \in Nat /\ old \in Nat
  BY TopFrame, SectorCountType DEF TypeOK
<1>2. new < old
  BY DEF ResizeShrink
<1>3. Top.n = size[Top.file] => new = old
  OBVIOUS
<1>4. ResizeGrow => new > old
  BY DEF ResizeGrow
<1>5. ResizeKeep => new = old
  BY DEF ResizeKeep
<1>6. ResizeSame => Top.n = size[Top.file]
  BY DEF ResizeSame
<1> HIDE DEF new, old
<1> QED BY <1>1, <1>2, <1>3, <1>4, <1>5, <1>6

LEMMA TransferRoom ==
  ASSUME TypeOK, TypeOK', TreeInv, SectorsInv', Room, Resized, Transfer
  PROVE  Room'
<1> SUFFICES ASSUME NEW d \in Dirs \cap live' PROVE size'[d] <= Bytes(d)' \/ Due(d)'
  BY DEF Room
<1> DEFINE f == Top.file
<1>1. PICK new \in Seq(Frame) : Moves(new)
  BY TransferMoves
<1>2. /\ UNCHANGED tree /\ stack # <<>> /\ stack[1] = Top /\ 1 \in DOMAIN stack
      /\ f \in Desc /\ live' = live /\ parent_directory' = parent_directory
      /\ Len(stack) \in Nat /\ Len(stack') = Len(new) + Len(stack) - 1
      /\ DOMAIN stack = 1 .. Len(stack)
  BY <1>1, MovesTypes, TransferResizes DEF tree
<1>3. d \in Desc /\ d \in Dirs /\ d \in live /\ size[d] \in Nat /\ size'[d] \in Nat /\ Top.n \in Nat
  BY <1>2, TreeAssumption, TransferResizes DEF TypeOK
<1>4. size[d] <= Bytes(d) \/ Due(d)
  BY <1>3 DEF Room
<1>5. f \in live
  BY <1>2 DEF TreeInv, StackInv, Holds
<1> DEFINE old == Bytes(d)
           new_bytes == Bytes(d)'
<1>6. /\ old \in Nat /\ new_bytes \in Nat
      /\ ~ ResizeShrink => old <= new_bytes
      /\ ~ GrowSector /\ ~ ResizeShrink => new_bytes = old
      /\ d # parent_directory[f] \/ f = Root => new_bytes = old
  BY <1>3, TransferBytes
<1>7. ASSUME NEW frame, Len(new) # 0, new[1] = frame,
             \/ frame.pc = "parent" /\ parent_directory[frame.file] = d
             \/ frame.pc \in {"flush", "resize"} /\ frame.file = d
      PROVE  Due(d)'
  <2>1. Len(stack') # 0 /\ stack' # <<>>
    <3>1. Len(new) \in Nat /\ Len(stack) >= 1
      BY <1>1, <1>2, MovesTypes
    <3>2. Len(stack') # 0
      BY <1>2, <1>7, <3>1
    <3> QED BY <3>2
  <2>2. Top' = frame
    BY <1>1, <1>7, <2>1, MovesTop
  <2> QED BY <1>2, <1>7, <2>1, <2>2 DEF Due
<1> HIDE DEF f
<1>8. Due(d) => \/ Top.pc = "parent" /\ parent_directory[f] = d
                \/ Top.pc \in {"flush", "resize"} /\ f = d
  BY DEF Due, f
<1>9. SUFFICES size'[d] <= new_bytes \/ Due(d)'
  OBVIOUS
<1> HIDE DEF old, new_bytes
<1>a. size[d] <= old \/ Due(d)
  BY <1>4 DEF old
<1>10. CASE ResizeKeep \/ ResizeShrink \/ ResizeGrow
  <2>1. Top.pc = "resize" /\ size'[d] = IF d = f THEN Top.n ELSE size[d]
    <3>1. /\ Top.pc = "resize" /\ size' = [size EXCEPT ![f] = Top.n]
      BY <1>10 DEF ResizeKeep, ResizeShrink, ResizeGrow, At, f
    <3> QED BY <1>3, <3>1 DEF TypeOK
  <2>2. ~ GrowSector
    BY <2>1 DEF GrowSector, At
  <2>3. CASE d = f
    <3>1. Top.n <= old
      BY <1>2, <1>3, <2>1, <2>3 DEF Resized, f, old
    <3>2. new_bytes = old
      <4>1. f = Root \/ d # parent_directory[f]
        <5>1. f # Root => f \in live \ {Root}
          BY <1>5
        <5> QED BY <2>3, <5>1, NotAboveItself DEF TreeInv
      <4> QED BY <1>6, <4>1
    <3> QED BY <2>1, <2>3, <3>1, <3>2
  <2>4. CASE d # f
    <3>1. size[d] <= old /\ size'[d] = size[d]
      BY <1>8, <1>a, <2>1, <2>4
    <3>2. CASE ~ ResizeShrink \/ d # parent_directory[f]
      <4>1. old <= new_bytes
        BY <1>6, <3>2
      <4> QED BY <1>3, <1>6, <3>1, <4>1
    <3>3. CASE ResizeShrink /\ d = parent_directory[f]
      <4>1. Stays(new)
        BY <1>1, <1>2, <2>1, <3>3, ShrinkAlone DEF Moves, Pops, Flushes, Writes, WriteDone,
           ResizeBits, At
      <4>2. Len(new) = 1 /\ new[1].pc = "parent" /\ new[1].file = f
        BY <1>2, <2>1, <3>3, <4>1, ShrinkAlone DEF Stays, f
      <4> QED BY <1>7, <3>3, <4>2
    <3> QED BY <3>2, <3>3
  <2> QED BY <2>3, <2>4
<1>11. CASE ResizeSame
  <2>1. Top.pc = "resize" /\ Top.n = size[f] /\ size' = size
    BY <1>11 DEF ResizeSame, At, f
  <2>2. ~ GrowSector /\ ~ ResizeShrink
    BY <1>2, <1>11, <2>1, ShrinkAlone DEF GrowSector, At
  <2>3. d = f => size[d] <= old
    BY <1>2, <1>3, <2>1 DEF Resized, f, old
  <2>4. size[d] <= old
    BY <1>8, <1>a, <2>1, <2>3
  <2> QED BY <1>6, <2>1, <2>2, <2>4
<1>12. CASE ResizeParent \/ FlushMetadata
  <2>1. size' = size /\ ~ GrowSector /\ ~ ResizeShrink /\ Top.pc \in {"parent", "flush"}
        /\ (ResizeParent => Top.pc = "parent") /\ (FlushMetadata => Top.pc = "flush")
    BY <1>12 DEF ResizeParent, FlushMetadata, GrowSector, ResizeShrink, At
  <2>2. CASE Due(d)
    <3>1. Flushes(new) \/ Writes(new)
      BY <1>1, <1>12, <2>1 DEF Moves, Pops, Stays, WriteDone, ResizeSame, ResizeBits, At
    <3>2. CASE Flushes(new)
      <4>1. Len(new) = 2 /\ new[1].pc = "flush" /\ new[1].file = parent_directory[f]
            /\ Top.pc = "parent"
        BY <3>2 DEF Flushes, f
      <4> QED BY <1>7, <1>8, <2>2, <4>1
    <3>3. CASE Writes(new)
      <4>1. Top.pc = "flush" /\ Len(new) = 2 /\ new[1].pc = "resize" /\ new[1].file = f
        BY <2>1, <3>3 DEF Writes, CopyData, At, f
      <4> QED BY <1>7, <1>8, <2>2, <4>1
    <3> QED BY <3>1, <3>2, <3>3
  <2>3. CASE ~ Due(d)
    BY <1>6, <1>a, <2>1, <2>3
  <2> QED BY <2>2, <2>3
<1>13. CASE WriteSector \/ WriteDone \/ GrowSector \/ GrowDone \/ DiskFull \/ ResizeBits \/ CopyData
  <2>1. size' = size /\ ~ ResizeShrink /\ Top.pc \notin {"parent", "flush", "resize"}
    BY <1>13 DEF WriteSector, WriteDone, GrowSector, GrowDone, DiskFull, ResizeBits,
       CopyData, ResizeShrink, At
  <2>2. size[d] <= old
    BY <1>8, <1>a, <2>1
  <2>3. old <= new_bytes
    BY <1>6, <2>1
  <2> QED BY <1>3, <1>6, <2>1, <2>2, <2>3
<1> QED BY <1>10, <1>11, <1>12, <1>13 DEF Transfer

\* Sizes, sectors and bits as they were.
LEMMA SameLonger ==
  ASSUME TypeOK, UNCHANGED <<tree, size, sectors, bitmap>>, NEW g \in Desc, Longer(g)
  PROVE  Longer(g)'
<1>1. \A d \in Dirs : Bytes(d)' = Bytes(d)
  <2> SUFFICES ASSUME NEW d \in Dirs PROVE Bytes(d)' = Bytes(d)
    OBVIOUS
  <2> QED BY DEF Bytes, Offset, tree
<1> QED BY <1>1 DEF Longer, Saved, tree

LEMMA TransferGrowing ==
  ASSUME TypeOK, TypeOK', TreeInv, SectorsInv', SavingInv, Transfer
  PROVE  Grows'
<1>0. Nesting /\ Unsaved /\ Grows /\ Room
  BY DEF SavingInv
<1>1. PICK new \in Seq(Frame) : Moves(new)
  BY TransferMoves
<1>2. /\ UNCHANGED tree /\ stack # <<>> /\ stack[1] = Top /\ 1 \in DOMAIN stack
      /\ Top.file \in Desc /\ parent_directory' = parent_directory
      /\ Len(new) \in Nat
      /\ \A j \in 1 .. Len(new) : stack'[j] = new[j]
      /\ \A j \in DOMAIN stack' : j > Len(new) =>
           j - Len(new) + 1 \in DOMAIN stack /\ stack'[j] = stack[j - Len(new) + 1]
  BY <1>1, MovesTypes, TransferResizes DEF tree
<1>3. Top.file \in live
  BY <1>2 DEF TreeInv, StackInv, Holds
<1> SUFFICES ASSUME NEW f \in Desc \ {Root}, stack' # <<>>
             PROVE  /\ Top'.pc = "grow" /\ Top'.file = f =>
                         \A d \in Dirs : parent_directory'[f] = d => size'[d] <= Bytes(d)'
                    /\ Top'.pc \in {"grow", "parent"} /\ Top'.file = f => Longer(f)'
                    /\ Top'.pc = "flush" /\ 2 \in DOMAIN stack' /\ stack'[2].pc = "bits"
                         /\ stack'[2].file = f => Longer(f)'
  BY DEF Grows
<1>4. /\ Len(new) = 0 => 2 \in DOMAIN stack /\ Top' = stack[2]
      /\ Len(new) # 0 => Top' = new[1]
  BY <1>1, MovesTop
\* The innermost frame resizes f before and after.
<1>5. ASSUME Top'.pc \in {"grow", "parent"}, Top'.file = f
      PROVE  Stays(new) /\ new[1].pc = Top'.pc /\ Top.file = f /\ f \in live
  <2>1. Len(new) # 0
    BY <1>0, <1>4, <1>5 DEF Nesting, WaitsFor
  <2>2. Stays(new)
    BY <1>1, <1>4, <1>5, <2>1 DEF Moves, Pops, Flushes, Writes
  <2> QED BY <1>3, <1>4, <1>5, <2>1, <2>2 DEF Stays
<1>6. ASSUME ~ GrowSector, ~ ResizeBits, Saved(f), Top.file = f
      PROVE  Saved(f)'
  <2>1. Range(sectors'[f]) \subseteq Range(sectors[f]) /\ bitmap' = bitmap
    BY <1>6, TransferSectors
  <2> QED BY <1>6, <2>1 DEF Saved
\* The directory of f, while f gets its sectors.
<1>7. ASSUME Top.file = f, f \in live, NEW d \in Dirs, parent_directory[f] = d,
             ResizeGrow \/ GrowSector \/ DiskFull
      PROVE  /\ size'[d] \in Nat /\ Bytes(d) \in Nat /\ Bytes(d)' \in Nat
             /\ size'[d] <= Bytes(d)' /\ (GrowSector => size'[d] < Bytes(d)')
  <2>1. d \in Desc /\ d \in live /\ d # f
    <3>1. d \in live
      BY <1>7 DEF TreeInv, Linked
    <3> QED BY <1>7, <3>1, TreeAssumption, NotAboveItself DEF TreeInv
  <2>2. size'[d] = size[d] /\ size[d] \in Nat
    <3>1. size' = size \/ size' = [size EXCEPT ![f] = Top.n]
      BY <1>7 DEF ResizeGrow, GrowSector, DiskFull
    <3> QED BY <2>1, <3>1 DEF TypeOK
  <2>3. size[d] <= Bytes(d)
    <3>1. CASE ResizeGrow
      <4>1. Top.pc = "resize"
        BY <3>1 DEF ResizeGrow, At
      <4>2. ~ Due(d)
        BY <1>7, <2>1, <4>1 DEF Due
      <4> QED BY <1>0, <2>1, <4>2 DEF Room
    <3>2. CASE GrowSector \/ DiskFull
      <4>1. Top.pc = "grow"
        BY <3>2 DEF GrowSector, DiskFull, At
      <4> QED BY <1>0, <1>2, <1>7, <4>1 DEF Grows
    <3> QED BY <1>7, <3>1, <3>2
  <2>4. ~ ResizeShrink
    BY <1>2, <1>7, ShrinkAlone DEF ResizeShrink, GrowSector, DiskFull, At
  <2> DEFINE old == Bytes(d)
             bytes == Bytes(d)'
  <2>5. old \in Nat /\ bytes \in Nat /\ old <= bytes /\ (GrowSector => old < bytes)
    BY <1>7, <2>1, <2>4, TransferBytes
  <2>6. size[d] <= old
    BY <2>3
  <2> HIDE DEF old, bytes
  <2>7. /\ size'[d] \in Nat /\ old \in Nat /\ bytes \in Nat
        /\ size'[d] <= bytes /\ (GrowSector => size'[d] < bytes)
    BY <2>2, <2>5, <2>6
  <2> QED BY <2>7 DEF old, bytes
<1>8. ASSUME Top'.pc = "grow", Top'.file = f
      PROVE  \A d \in Dirs : parent_directory'[f] = d => size'[d] <= Bytes(d)'
  <2>1. Stays(new) /\ new[1].pc = "grow" /\ Top.file = f /\ f \in live
    BY <1>5, <1>8
  <2>2. ResizeGrow \/ GrowSector \/ DiskFull
    BY <2>1 DEF Stays
  <2> QED BY <1>2, <1>7, <2>1, <2>2
<1>9. ASSUME Top'.pc \in {"grow", "parent"}, Top'.file = f
      PROVE  Longer(f)'
  <2>1. Stays(new) /\ Top.file = f /\ f \in live /\ (new[1].pc = "grow" \/ new[1].pc = "parent")
    BY <1>5, <1>9
  <2>2. CASE ResizeKeep \/ ResizeShrink \/ ResizeGrow
    <3>1. Top.pc = "resize" /\ ~ GrowSector /\ ~ ResizeBits
      BY <2>2 DEF ResizeKeep, ResizeShrink, ResizeGrow, GrowSector, ResizeBits, At
    <3>2. Saved(f)
      BY <1>0, <1>2, <2>1, <3>1, ResizedSaved
    <3>3. Saved(f)'
      BY <1>6, <2>1, <3>1, <3>2
    <3> QED BY <3>3 DEF Longer
  <2>3. CASE GrowSector
    <3>1. \A d \in Dirs : parent_directory[f] = d => size'[d] < Bytes(d)'
      BY <1>7, <2>1, <2>3
    <3> QED BY <1>2, <3>1 DEF Longer
  <2>4. CASE DiskFull \/ GrowDone
    <3>1. Top.pc = "grow" /\ UNCHANGED <<size, sectors, bitmap>>
      BY <2>4 DEF DiskFull, GrowDone, At, ondisk
    <3>2. Longer(f)
      BY <1>0, <1>2, <2>1, <3>1 DEF Grows
    <3> QED BY <1>2, <3>1, <3>2, SameLonger
  <2>5. CASE WriteSector
    BY <2>1, <2>5 DEF Stays, ResizeKeep, ResizeShrink, ResizeGrow, GrowSector, DiskFull,
       GrowDone, WriteSector, At
  <2> QED BY <2>1, <2>2, <2>3, <2>4, <2>5 DEF Stays
<1>10. ASSUME Top'.pc = "flush", 2 \in DOMAIN stack', stack'[2].pc = "bits", stack'[2].file = f
       PROVE  Longer(f)'
  <2>1. CASE Pops(new)
    <3>1. Len(new) = 0 /\ Top' = stack[2]
      BY <1>4, <2>1 DEF Pops
    <3>2. 2 > Len(new) /\ 2 - Len(new) + 1 = 3
      BY <3>1
    <3>3. 3 \in DOMAIN stack /\ stack'[2] = stack[3]
      BY <1>2, <1>10, <3>2
    <3>4. WaitsFor(3)
      BY <1>0, <3>3 DEF Nesting
    <3>5. 3 - 1 = 2 /\ 3 # 2
      OBVIOUS
    <3>6. stack[2].pc = "write"
      BY <1>10, <3>3, <3>4, <3>5 DEF WaitsFor
    <3> QED BY <1>10, <3>1, <3>6
  <2>2. CASE Flushes(new)
    <3>1. ResizeParent /\ Top.pc = "parent" /\ Len(new) = 2 /\ new[2].file = Top.file
      BY <2>2 DEF Flushes
    <3>2. 2 \in 1 .. Len(new)
      BY <3>1
    <3>3. Top.file = f
      BY <1>2, <1>10, <3>1, <3>2
    <3>4. Longer(f)
      BY <1>0, <1>2, <3>1, <3>3 DEF Grows
    <3>5. UNCHANGED <<size, sectors, bitmap>>
      BY <3>1 DEF ResizeParent
    <3> QED BY <1>2, <3>4, <3>5, SameLonger
  <2>3. CASE Stays(new) \/ Writes(new)
    <3>1. new[1].pc # "flush" /\ Len(new) # 0
      BY <2>3 DEF Stays, Writes
    <3> QED BY <1>4, <1>10, <3>1
  <2> QED BY <1>1, <2>1, <2>2, <2>3 DEF Moves
<1> QED BY <1>8, <1>9, <1>10

\* The transfers keep the invariant.
LEMMA TransferSaving ==
  ASSUME TypeOK, TypeOK', TreeInv, SectorsInv, SectorsInv', SavingInv, Transfer
  PROVE  SavingInv'
<1>1. Nesting /\ Unsaved /\ UpToDate /\ Guarded /\ Copies /\ Grows /\ Room /\ Resized /\ StackInv
  BY DEF SavingInv, TreeInv
<1>2. Nesting'
  BY <1>1, TransferNest
<1>3. Unsaved'
  BY <1>1, TransferUnsaved
<1>4. UpToDate' /\ Guarded' /\ Copies'
  BY <1>1, TransferUpToDate, TransferGuarded, TransferCopies
<1>5. Grows' /\ Room' /\ Resized'
  BY <1>1, TransferGrowing, TransferRoom, TransferResized
<1> QED BY <1>2, <1>3, <1>4, <1>5 DEF SavingInv

-----------------------------------------------------------------------------
(* The calls that start, and those that remove: no resize is under way.    *)

\* No call that transfers sectors: at most one that has just been asked to
\* give all of them back.
QuietFrame(k) ==
  /\ \/ stack[k].pc \in {"remove", "erase", "delete", "copy", "flush"}
     \/ /\ k = 1 /\ stack[k].pc = "resize" /\ stack[k].n = 0
        /\ 2 \in DOMAIN stack /\ stack[2].pc = "erase"
  /\ stack[k].pc = "copy" => stack[k].to \notin Dirs
  /\ stack[k].pc = "flush" => stack[k].file \in Dirs

Quiet == \A k \in DOMAIN stack : QuietFrame(k)

LEMMA MoreRoom ==
  ASSUME TypeOK, TypeOK', Room, sectors' = sectors, \A d : ~ Due(d),
         \A d \in Dirs \cap live' :
           \/ Due(d)'
           \/ /\ d \in live /\ size'[d] = size[d]
              /\ files'[d] = files[d] \/ \E f \in Desc : files'[d] = Append(files[d], f)
  PROVE  Room'
<1> SUFFICES ASSUME NEW d \in Dirs \cap live', ~ Due(d)' PROVE size'[d] <= Bytes(d)'
  BY DEF Room
<1>1. d \in Desc /\ d \in Dirs /\ d \in live /\ size'[d] = size[d] /\ size[d] \in Nat
  BY TreeAssumption DEF TypeOK
<1>2. size[d] <= Bytes(d)
  BY <1>1 DEF Room
<1>3. files[d] \in Seq(Desc) /\ Len(files[d]) \in Nat /\ DOMAIN files[d] = 1 .. Len(files[d])
  BY <1>1 DEF TypeOK
<1>4. Len(files[d]) <= Len(files'[d]) /\ \A i \in DOMAIN files[d] : files'[d][i] = files[d][i]
  <2>1. CASE files'[d] = files[d]
    BY <1>3, <2>1
  <2>2. ASSUME NEW f \in Desc, files'[d] = Append(files[d], f)
        PROVE  Len(files[d]) <= Len(files'[d])
               /\ \A i \in DOMAIN files[d] : files'[d][i] = files[d][i]
    BY <1>3, <2>2
  <2> QED BY <2>1, <2>2
<1>5. \A i \in DOMAIN files[d] : Len(sectors[files[d][i]]) <= Len(sectors'[files[d][i]])
  BY <1>3 DEF TypeOK
<1> DEFINE old == Bytes(d)
           new == Bytes(d)'
<1>6. old \in Nat /\ new \in Nat
  BY <1>1, BytesType, BytesNextType
<1>7. old <= new
  BY <1>1, <1>4, <1>5, MoreBytes
<1>8. size[d] <= old
  BY <1>2
<1> HIDE DEF old, new
<1>9. size'[d] <= new
  BY <1>1, <1>6, <1>7, <1>8
<1> QED BY <1>9 DEF new

LEMMA QuietStep ==
  ASSUME TypeOK, TypeOK', Unsaved, Room, UNCHANGED <<sectors, bitmap>>,
         \A k \in DOMAIN stack : stack[k].pc \in {"remove", "erase", "delete"},
         Quiet',
         \A d \in Dirs \cap live' :
           \/ Due(d)'
           \/ /\ d \in live /\ size'[d] = size[d]
              /\ files'[d] = files[d] \/ \E f \in Desc : files'[d] = Append(files[d], f)
  PROVE  SavingInv'
<1>1. \A d : ~ Due(d)
  <2>1. stack # <<>> => Top.pc \in {"remove", "erase", "delete"}
    BY TopFrame
  <2> QED BY <2>1 DEF Due
<1>2. Room'
  BY <1>1, MoreRoom
<1>3. Unsaved'
  <2>1. \A g \in Desc : Saved(g)
    BY DEF Unsaved, Resizes
  <2>2. \A g \in Desc : Saved(g)'
    BY <2>1 DEF Saved
  <2> QED BY <2>2 DEF Unsaved
<1>4. \A k \in DOMAIN stack' :
        /\ stack'[k].pc \notin Resizes \cup {"write"}
        /\ stack'[k].pc = "resize" => k = 1 /\ stack'[k].n = 0
        /\ stack'[k].pc = "copy" => stack'[k].to \notin Dirs
  BY DEF Quiet, QuietFrame, Resizes
<1>5. stack' # <<>> => Top' = stack'[1] /\ 1 \in DOMAIN stack'
  <2>1. stack' \in Seq(Frame)
    BY DEF TypeOK
  <2> QED BY <2>1 DEF Top
<1>6. Nesting'
  <2> SUFFICES ASSUME NEW k \in DOMAIN stack', k > 1 PROVE WaitsFor(k)'
    BY DEF Nesting
  <2>1. stack'[k].pc \notin {"resize", "grow", "parent", "bits", "write"}
    BY <1>4 DEF Resizes
  <2> QED BY <2>1 DEF WaitsFor
<1>7. UpToDate' /\ Guarded'
  <2>1. \A k \in DOMAIN stack' : ~ WritesDirectory(k)'
    BY <1>4 DEF WritesDirectory
  <2> QED BY <2>1 DEF UpToDate, Guarded
<1>8. Copies'
  BY <1>4 DEF Copies
<1>9. Grows'
  BY <1>4, <1>5 DEF Grows, Resizes
<1>10. Resized'
  <2> SUFFICES ASSUME NEW d \in Dirs, stack' # <<>>, Top'.pc = "resize", Top'.file = d
               PROVE  Top'.n <= Bytes(d)'
    BY DEF Resized
  <2>1. Top'.n = 0
    BY <1>4, <1>5
  <2> DEFINE new == Bytes(d)'
  <2>2. new \in Nat
    BY BytesNextType, TreeAssumption
  <2> HIDE DEF new
  <2>3. 0 <= new
    BY <2>2
  <2> QED BY <2>1, <2>3 DEF new
<1> QED BY <1>2, <1>3, <1>6, <1>7, <1>8, <1>9, <1>10 DEF SavingInv

\* Above a call that removes there are only calls that remove.
LEMMA OnlyRemoving ==
  ASSUME TypeOK, StackInv, stack # <<>>, Top.pc \in {"remove", "erase", "delete"}
  PROVE  \A k \in DOMAIN stack : /\ stack[k].pc \in {"remove", "erase", "delete"}
                                 /\ k > 1 => stack[k].pc \in {"remove", "delete"}
<1>1. /\ 1 \in DOMAIN stack /\ stack[1] = Top
      /\ Len(stack) \in Nat /\ DOMAIN stack = 1 .. Len(stack)
  BY TopFrame, StackTypes
<1>2. Calls(1)
  BY <1>1 DEF StackInv
<1> SUFFICES ASSUME NEW k \in DOMAIN stack, k # 1 PROVE stack[k].pc \in {"remove", "delete"}
  BY <1>1
<1>3. k > 1
  BY <1>1
<1>4. Top.pc # "delete"
  <2> SUFFICES ASSUME Top.pc = "delete" PROVE FALSE
    OBVIOUS
  <2>1. Len(stack) = 1
    BY <1>1, <1>2 DEF Calls
  <2> QED BY <1>1, <1>3, <2>1
<1> QED BY <1>1, <1>2, <1>3, <1>4 DEF Calls, Removing

\* A step of a removal that changes nothing but the stack.
LEMMA StackStep ==
  ASSUME TypeOK, TypeOK', Unsaved, Room, UNCHANGED <<live, files, size, sectors, bitmap>>,
         \A k \in DOMAIN stack : stack[k].pc \in {"remove", "erase", "delete"},
         Quiet'
  PROVE  SavingInv'
<1>1. \A d \in Dirs \cap live' : d \in live /\ size'[d] = size[d] /\ files'[d] = files[d]
  OBVIOUS
<1> QED BY <1>1, QuietStep

LEMMA RemoveChildQuiet ==
  ASSUME TypeOK, TreeInv, RemoveChild
  PROVE  Quiet' /\ Len(stack') = Len(stack) + 1
<1>1. /\ stack # <<>> /\ Top.pc = "remove" /\ UNCHANGED tree
      /\ UNCHANGED <<live, files, size, sectors, bitmap>>
  BY DEF RemoveChild, At, tree, ondisk
<1>2. /\ 1 \in DOMAIN stack /\ stack[1] = Top /\ Top \in Frame /\ Top.to \in Desc
      /\ stack \in Seq(Frame) /\ Len(stack) \in Nat /\ DOMAIN stack = 1 .. Len(stack)
  BY <1>1, TopFrame, StackTypes
<1>3. \A k \in DOMAIN stack : /\ stack[k].pc \in {"remove", "erase", "delete"}
                              /\ k > 1 => stack[k].pc \in {"remove", "delete"}
  BY <1>1, OnlyRemoving DEF TreeInv
<1>4. Quiet' /\ Len(stack') = Len(stack) + 1
  <2>1. CASE Top.to \in Dirs /\ files[Top.to] # <<>>
    <3> DEFINE child == Discard(Top.to, 1)
    <3>1. stack' = <<child>> \o stack
      BY <2>1 DEF RemoveChild, Call
    <3>2. 1 \in DOMAIN files[Top.to]
      BY <1>2, <2>1 DEF TypeOK
    <3>3. child \in Frame
      BY <1>2, <3>2, DiscardType
    <3>4. child.pc = "remove"
      BY DEF Discard, Activation
    <3> HIDE DEF child
    <3>5. /\ DOMAIN stack' = 1 .. Len(stack) + 1 /\ stack'[1] = child
          /\ Len(stack') = Len(stack) + 1
          /\ \A k \in 2 .. Len(stack) + 1 : stack'[k] = stack[k - 1]
      BY <1>2, <3>1, <3>3
    <3>6. ASSUME NEW k \in DOMAIN stack' PROVE stack'[k].pc \in {"remove", "erase", "delete"}
      <4>1. CASE k = 1
        BY <3>4, <3>5, <4>1
      <4>2. CASE k # 1
        <5>1. k \in 2 .. Len(stack) + 1 /\ k - 1 \in DOMAIN stack
          BY <1>2, <3>5, <4>2
        <5> QED BY <1>3, <3>5, <5>1
      <4> QED BY <4>1, <4>2
    <3> QED BY <3>5, <3>6 DEF Quiet, QuietFrame
  <2>2. CASE ~ (Top.to \in Dirs /\ files[Top.to] # <<>>)
    <3> DEFINE x == Resize(Top.to, 0)
               y == [Top EXCEPT !.pc = "erase"]
    <3>1. /\ x \in Frame /\ x.pc = "resize" /\ x.n = 0
          /\ y \in Frame /\ y.pc = "erase"
      <4>1. x \in Frame
        BY <1>2, ResizeType
      <4> QED BY <1>2, <4>1 DEF Resize, Activation, Frame, Label
    <3>2. stack' = Call(x, Goto("erase"))
      BY <2>2 DEF RemoveChild
    <3>3. stack' = <<x, y>> \o Tail(stack)
      BY <1>1, <3>1, <3>2, StackShapes DEF Label
    <3> HIDE DEF x, y
    <3> DEFINE new == <<x, y>>
    <3>4. new \in Seq(Frame) /\ Len(new) = 2 /\ new[1] = x /\ new[2] = y
      BY <3>1
    <3>5. stack' = new \o Tail(stack)
      BY <3>3
    <3> HIDE DEF new
    <3>6. /\ DOMAIN stack' = 1 .. Len(new) + Len(stack) - 1
          /\ Len(stack') = Len(new) + Len(stack) - 1
          /\ \A k \in 1 .. Len(new) : stack'[k] = new[k]
          /\ \A k \in 1 .. Len(new) + Len(stack) - 1 :
               k > Len(new) => stack'[k] = stack[k - Len(new) + 1]
      <4>1. stack \in Seq(Frame) /\ stack # <<>>
        BY <1>1, <1>2
      <4>2. new \in Seq(Frame)
        BY <3>4
      <4> QED BY <3>5, <4>1, <4>2, ConcatTail
    <3>a. 2 \in DOMAIN stack' /\ stack'[2] = y
      <4>1. Len(stack) > 0
        BY <1>2
      <4>2. 2 \in 1 .. Len(new) + Len(stack) - 1 /\ 2 \in 1 .. Len(new)
        BY <1>2, <3>4, <4>1
      <4> QED BY <3>4, <3>6, <4>2
    <3>7. ASSUME NEW k \in DOMAIN stack' PROVE QuietFrame(k)'
      <4>1. CASE k = 1
        <5>1. stack'[k] = x
          BY <3>4, <3>6, <4>1
        <5> QED BY <3>1, <3>a, <4>1, <5>1 DEF QuietFrame
      <4>2. CASE k = 2
        <5>1. stack'[k] = y
          BY <3>4, <3>6, <4>2
        <5> QED BY <3>1, <5>1 DEF QuietFrame
      <4>3. CASE k # 1 /\ k # 2
        <5>1. k \in 1 .. Len(new) + Len(stack) - 1 /\ k > Len(new)
              /\ k - Len(new) + 1 \in DOMAIN stack
          BY <1>2, <3>4, <3>6, <4>3
        <5>2. stack'[k].pc \in {"remove", "erase", "delete"}
          BY <1>3, <3>6, <5>1
        <5> QED BY <5>2 DEF QuietFrame
      <4> QED BY <4>1, <4>2, <4>3
    <3>8. Len(stack') = Len(stack) + 1
      BY <1>2, <3>4, <3>6
    <3> QED BY <3>7, <3>8 DEF Quiet
  <2> QED BY <2>1, <2>2
<1> QED BY <1>4

LEMMA RemoveChildSaving ==
  ASSUME TypeOK, TypeOK', TreeInv, SavingInv, RemoveChild
  PROVE  SavingInv'
<1>1. /\ stack # <<>> /\ Top.pc = "remove"
      /\ UNCHANGED <<live, files, size, sectors, bitmap>>
  BY DEF RemoveChild, At, tree, ondisk
<1>2. \A k \in DOMAIN stack : stack[k].pc \in {"remove", "erase", "delete"}
  BY <1>1, OnlyRemoving DEF TreeInv
<1> QED BY <1>1, <1>2, RemoveChildQuiet, StackStep DEF SavingInv

LEMMA DeleteNextQuiet ==
  ASSUME TypeOK, TypeOK', TreeInv, DeleteNext
  PROVE  Quiet' /\ \A k \in DOMAIN stack' : stack'[k].pc # "resize"
<1>1. /\ stack # <<>> /\ Top.pc = "delete"
      /\ UNCHANGED <<live, files, size, sectors, bitmap>>
  BY DEF DeleteNext, At, tree, ondisk
<1>2. /\ 1 \in DOMAIN stack /\ stack[1] = Top /\ Top \in Frame
      /\ stack \in Seq(Frame) /\ Len(stack) \in Nat /\ DOMAIN stack = 1 .. Len(stack)
  BY <1>1, TopFrame, StackTypes
<1>3. \A k \in DOMAIN stack : stack[k].pc \in {"remove", "erase", "delete"}
  BY <1>1, OnlyRemoving DEF TreeInv
<1>4. Len(stack) = 1
  BY <1>1, <1>2 DEF TreeInv, StackInv, Calls
<1>5. stack' \in Seq(Frame)
  BY DEF TypeOK
<1>6. Quiet' /\ \A k \in DOMAIN stack' : stack'[k].pc # "resize"
  <2> DEFINE matches == {i \in DOMAIN files[Top.file] :
                           i >= Top.n /\ name[files[Top.file][i]] = Top.name}
             child == Discard(Top.file, Min(matches))
             rest == [stack EXCEPT ![1].n = Min(matches) + 1]
  <2>1. CASE matches = {}
    <3>1. stack' = Tail(stack)
      BY <2>1 DEF DeleteNext, Return
    <3>2. DOMAIN stack' = {}
      BY <1>2, <1>4, <3>1
    <3> QED BY <3>2 DEF Quiet
  <2>2. CASE matches # {}
    <3>1. stack' = <<child>> \o rest
      BY <2>2 DEF DeleteNext, Call
    <3>2. child.pc = "remove"
      BY DEF Discard, Activation
    <3>3. DOMAIN rest = DOMAIN stack /\ rest[1].pc = "delete"
      BY <1>1, <1>2 DEF Frame
    <3>4. Len(rest) = 1 /\ rest = <<rest[1]>>
      BY <1>2, <1>4, <3>3
    <3> HIDE DEF child, rest, matches
    <3>5. /\ DOMAIN stack' = 1 .. 2 /\ stack'[1] = child /\ stack'[2] = rest[1]
      <4>1. stack' = <<child>> \o <<rest[1]>>
        BY <3>1, <3>4
      <4> DEFINE S == {child, rest[1]}
      <4>2. <<child>> \in Seq(S) /\ <<rest[1]>> \in Seq(S)
        OBVIOUS
      <4>3. Len(<<child>>) = 1 /\ Len(<<rest[1]>>) = 1 /\ 1 + 1 = 2 /\ 2 - 1 = 1
            /\ <<child>>[1] = child /\ <<rest[1]>>[1] = rest[1]
        OBVIOUS
      <4> DEFINE s == <<child>>
                 t == <<rest[1]>>
      <4> HIDE DEF S, s, t
      <4>4. /\ DOMAIN (s \o t) = 1 .. 2
            /\ (s \o t)[1] = s[1] /\ (s \o t)[2] = t[1]
        <5>1. s \in Seq(S) /\ t \in Seq(S) /\ Len(s) = 1 /\ Len(t) = 1
          BY <4>2, <4>3 DEF s, t
        <5>2. /\ DOMAIN (s \o t) = 1 .. Len(s) + Len(t)
              /\ \A k \in 1 .. Len(s) : (s \o t)[k] = s[k]
              /\ \A k \in 1 .. Len(s) + Len(t) : k > Len(s) => (s \o t)[k] = t[k - Len(s)]
          BY <5>1, ConcatFacts
        <5>3. 1 \in 1 .. Len(s) /\ 2 \in 1 .. Len(s) + Len(t) /\ 2 > Len(s) /\ 2 - Len(s) = 1
              /\ 1 .. Len(s) + Len(t) = 1 .. 2
          BY <5>1
        <5> QED BY <5>2, <5>3
      <4>5. stack' = s \o t
        BY <4>1 DEF s, t
      <4> QED BY <4>3, <4>4, <4>5 DEF s, t
    <3>6. \A k \in DOMAIN stack' : stack'[k].pc \in {"remove", "delete"}
      BY <3>2, <3>3, <3>5
    <3> QED BY <3>6 DEF Quiet, QuietFrame
  <2> QED BY <2>1, <2>2
<1> QED BY <1>6

LEMMA DeleteNextSaving ==
  ASSUME TypeOK, TypeOK', TreeInv, SavingInv, DeleteNext
  PROVE  SavingInv'
<1>1. /\ stack # <<>> /\ Top.pc = "delete"
      /\ UNCHANGED <<live, files, size, sectors, bitmap>>
  BY DEF DeleteNext, At, tree, ondisk
<1>2. \A k \in DOMAIN stack : stack[k].pc \in {"remove", "erase", "delete"}
  BY <1>1, OnlyRemoving DEF TreeInv
<1> QED BY <1>1, <1>2, DeleteNextQuiet, StackStep DEF SavingInv

LEMMA RemoveEraseQuiet ==
  ASSUME TypeOK, TreeInv, RemoveErase
  PROVE  /\ Quiet' /\ \A k \in DOMAIN stack' : stack'[k].pc # "resize"
         /\ stack' # <<>> /\ Top'.pc = "flush" /\ \A d : d = Top.file => Top'.file = d
<1> DEFINE d == Top.file
           f == Top.to
<1>1. /\ stack # <<>> /\ Top.pc = "erase" 
  BY DEF RemoveErase, At
<1>2. /\ 1 \in DOMAIN stack /\ stack[1] = Top /\ Top \in Frame /\ f \in Desc /\ d \in Desc
      /\ stack \in Seq(Frame) /\ Len(stack) \in Nat /\ DOMAIN stack = 1 .. Len(stack)
  BY <1>1, TopFrame, StackTypes
<1>3. \A k \in DOMAIN stack : /\ stack[k].pc \in {"remove", "erase", "delete"}
                              /\ k > 1 => stack[k].pc \in {"remove", "delete"}
  BY <1>1, OnlyRemoving DEF TreeInv
<1>4. files[d][Top.n] = f
  BY <1>1, <1>2 DEF TreeInv, StackInv, Holds, Removing
<1>5. d \in Dirs
  <2>1. Top.n \in DOMAIN files[d]
    BY <1>1, <1>2 DEF TreeInv, StackInv, Holds, Removing
  <2> QED BY <1>2, <2>1, EntryLinked DEF TreeInv
<1>7. Flush(d) \in Frame /\ Flush(d).file = d /\ Flush(d).pc = "flush"
  BY <1>2, FlushType DEF Flush, Activation
<1> DEFINE x == Flush(d)
<1>8. stack' = <<x>> \o Tail(stack)
  BY DEF RemoveErase, Call, Return
<1> HIDE DEF x
<1>9. x \in Frame /\ x.file = d /\ x.pc = "flush"
  BY <1>7 DEF x
<1>10. /\ DOMAIN stack' = 1 .. Len(stack) /\ stack'[1] = x /\ stack' # <<>>
       /\ \A k \in 1 .. Len(stack) : k > 1 => stack'[k] = stack[k]
  <2>1. /\ DOMAIN stack' = 1 .. Len(stack) /\ stack'[1] = x /\ Len(stack) >= 1
        /\ \A k \in 1 .. Len(stack) : k > 1 => stack'[k] = stack[k]
    BY <1>1, <1>2, <1>8, <1>9, HeadReplaced
  <2> QED BY <1>2, <2>1
<1>11. DOMAIN stack' = DOMAIN stack
  BY <1>2, <1>10
<1>12. Quiet' /\ \A k \in DOMAIN stack' : stack'[k].pc # "resize"
  <2>1. ASSUME NEW k \in DOMAIN stack'
        PROVE  /\ stack'[k].pc \in {"remove", "flush", "delete"}
               /\ stack'[k].pc = "flush" => stack'[k].file \in Dirs
    <3>1. CASE k = 1
      BY <1>5, <1>9, <1>10, <3>1
    <3>2. CASE k # 1
      <4>1. k \in 1 .. Len(stack) /\ k > 1 /\ k \in DOMAIN stack
        BY <1>2, <1>11, <3>2
      <4> QED BY <1>3, <1>10, <4>1
    <3> QED BY <3>1, <3>2
  <2> QED BY <2>1 DEF Quiet, QuietFrame
<1>13. Top' = x
  BY <1>10 DEF Top
<1> QED BY <1>9, <1>10, <1>12, <1>13

LEMMA RemoveEraseSaving ==
  ASSUME TypeOK, TypeOK', LeakInv, SavingInv, RemoveErase
  PROVE  SavingInv'
<1> DEFINE d == Top.file
           f == Top.to
<1>1. /\ stack # <<>> /\ Top.pc = "erase" /\ TreeInv /\ bitmap' = bitmap
  BY DEF RemoveErase, At, LeakInv, ondisk
<1>2. /\ 1 \in DOMAIN stack /\ stack[1] = Top /\ f \in Desc /\ d \in Desc
  BY <1>1, TopFrame
<1>3. \A k \in DOMAIN stack : stack[k].pc \in {"remove", "erase", "delete"}
  BY <1>1, OnlyRemoving DEF TreeInv
<1>4. files[d][Top.n] = f
  BY <1>1, <1>2 DEF TreeInv, StackInv, Holds, Removing
<1>5. sectors' = sectors
  BY <1>1, ErasedIsEmpty DEF LeakInv
<1>6. /\ live' = live \ {f} /\ size' = [size EXCEPT ![f] = 0]
      /\ files' = [files EXCEPT ![d] = Erase(files[d], Top.n), ![f] = <<>>]
  BY <1>4 DEF RemoveErase
<1>7. \A e : e = d => Due(e)'
  BY <1>1, RemoveEraseQuiet DEF Due
<1> HIDE DEF d, f
<1>8. ASSUME NEW e \in Dirs \cap live', e # d
       PROVE  e \in live /\ size'[e] = size[e] /\ files'[e] = files[e]
  <2>1. e \in live /\ e # f /\ e \in Desc
    BY <1>6, <1>8 DEF TypeOK
  <2> QED BY <1>6, <1>8, <2>1 DEF TypeOK
<1>9. \A e \in Dirs \cap live' :
         Due(e)' \/ (e \in live /\ size'[e] = size[e] /\ files'[e] = files[e])
  BY <1>7, <1>8
<1> QED BY <1>1, <1>3, <1>5, <1>9, RemoveEraseQuiet, QuietStep DEF SavingInv

\* A request that starts one or two calls and keeps every sector where it is.
LEMMA RequestQuiet ==
  ASSUME TypeOK, TypeOK', SavingInv, Idle, UNCHANGED <<size, sectors, bitmap>>,
         NEW x, NEW y, stack' = <<x>> \/ stack' = <<x, y>>,
         x.pc \in {"remove", "delete", "copy", "flush"}, y.pc \in {"copy", "flush"},
         x.pc = "copy" => x.to \notin Dirs, y.pc = "copy" => y.to \notin Dirs,
         x.pc = "flush" => x.file \in Dirs, y.pc = "flush" => y.file \in Dirs,
         \A d \in Dirs \cap live' :
           \/ x.pc = "flush" /\ x.file = d
           \/ /\ d \in live
              /\ files'[d] = files[d] \/ \E f \in Desc : files'[d] = Append(files[d], f)
  PROVE  SavingInv'
<1>1. DOMAIN stack = {} /\ Unsaved /\ Room
  BY DEF Idle, SavingInv
<1>2. /\ stack' # <<>> /\ stack'[1] = x
      /\ \A k \in DOMAIN stack' : stack'[k] = x \/ stack'[k] = y
  OBVIOUS
<1>3. Quiet'
  BY <1>2 DEF Quiet, QuietFrame
<1>4. ASSUME NEW d, x.pc = "flush", x.file = d
      PROVE  Due(d)'
  <2>1. Top' = x
    BY <1>2 DEF Top
  <2> QED BY <1>2, <1>4, <2>1 DEF Due
<1>5. \A d \in Dirs \cap live' :
        \/ Due(d)'
        \/ /\ d \in live /\ size'[d] = size[d]
           /\ files'[d] = files[d] \/ \E f \in Desc : files'[d] = Append(files[d], f)
  BY <1>4
<1> QED BY <1>1, <1>3, <1>5, QuietStep

\* write of a regular file: nothing of a directory is on the stack.
LEMMA WriteFileSaving ==
  ASSUME TypeOK, TypeOK', SavingInv, NEW f \in Desc \ Dirs, NEW arr \in Seq(Token),
         WriteFile(f, arr)
  PROVE  SavingInv'
<1>1. /\ Idle /\ UNCHANGED tree /\ UNCHANGED <<live, size, sectors, files, bitmap>>
  BY DEF WriteFile, tree, ondisk
<1>2. DOMAIN stack = {} /\ stack = <<>> /\ Unsaved /\ Room
  BY <1>1 DEF Idle, SavingInv
<1> DEFINE x == Resize(f, Len(arr))
           y == Write(f, arr)
<1>3. /\ x.pc = "resize" /\ x.file = f /\ y.pc = "write" /\ y.file = f
      /\ x \in Frame /\ y \in Frame
  <2>1. Len(arr) \in Nat
    OBVIOUS
  <2> QED BY <2>1, ResizeType, WriteType DEF Resize, Write, Activation
<1>4. stack' = <<x, y>>
  <2>1. stack' = <<x, y>> \o <<>>
    BY DEF WriteFile, CallWrite
  <2>2. <<x, y>> \in Seq(Frame)
    BY <1>3
  <2> DEFINE xy == <<x, y>>
  <2> HIDE DEF xy
  <2>3. xy \in Seq(Frame) => xy \o <<>> = xy
    OBVIOUS
  <2> QED BY <2>1, <2>2, <2>3 DEF xy
<1> HIDE DEF x, y
<1>5. /\ DOMAIN stack' = {1, 2} /\ stack'[1] = x /\ stack'[2] = y /\ stack' # <<>>
  BY <1>4
<1>6. Top' = x
  BY <1>5 DEF Top
<1>7. Nesting'
  <2>1. f \in Above(f) /\ Above(f)' = Above(f)
    BY <1>1, AboveRises, SameAbove
  <2>2. ASSUME NEW k \in DOMAIN stack', k > 1 PROVE WaitsFor(k)'
    <3>1. k = 2 /\ k - 1 = 1
      BY <1>5, <2>2
    <3>2. \A j \in DOMAIN stack' : j < k => j = 1
      BY <1>5, <3>1
    <3> QED BY <1>3, <1>5, <2>1, <3>1, <3>2 DEF WaitsFor
  <2> QED BY <2>2 DEF Nesting
<1>8. Unsaved'
  <2>1. \A g \in Desc : Saved(g)
    BY <1>2 DEF Unsaved
  <2>2. \A g \in Desc : Saved(g)'
    BY <1>1, <2>1 DEF Saved
  <2> QED BY <2>2 DEF Unsaved
<1>9. UpToDate' /\ Guarded'
  <2>1. \A k \in DOMAIN stack' : ~ WritesDirectory(k)'
    BY <1>3, <1>5 DEF WritesDirectory
  <2> QED BY <2>1 DEF UpToDate, Guarded
<1>10. Copies'
  BY <1>3, <1>5 DEF Copies
<1>11. Grows'
  BY <1>3, <1>6 DEF Grows
<1>12. Room'
  <2>1. \A d : ~ Due(d)
    BY <1>2 DEF Due
  <2>2. \A d \in Dirs \cap live' : d \in live /\ size'[d] = size[d] /\ files'[d] = files[d]
    BY <1>1
  <2> QED BY <1>1, <1>2, <2>1, <2>2, MoreRoom
<1>13. Resized'
  BY <1>3, <1>6 DEF Resized
<1> QED BY <1>7, <1>8, <1>9, <1>10, <1>11, <1>12, <1>13 DEF SavingInv

LEMMA RequestSaving ==
  ASSUME Careful, TypeOK, TypeOK', TreeInv, SavingInv, Request
  PROVE  SavingInv'
<1>1. OpenDirs \subseteq Dirs \cap live /\ OpenFiles \subseteq live
  BY OpenLinked DEF TreeInv
<1>2. \A f \in live : f \in Desc
  BY DEF TypeOK
<1>3. \A d : Flush(d).pc = "flush" /\ Flush(d).file = d
  BY DEF Flush, Activation
<1>4. \A f, g : Copy(f, g).pc = "copy" /\ Copy(f, g).to = g
  BY DEF Copy, Activation
\* A request that leaves the lists alone.
<1>5. ASSUME NEW x, stack' = <<x>>, Idle, UNCHANGED tree, UNCHANGED <<size, sectors, bitmap>>,
             x.pc \in {"remove", "delete", "copy"}, x.pc = "copy" => x.to \notin Dirs
      PROVE  SavingInv'
  <2> DEFINE y == Flush(Root)
  <2>1. y.pc = "flush" /\ y.file \in Dirs
    BY <1>3, TreeAssumption
  <2> HIDE DEF y
  <2>2. \A d \in Dirs \cap live' : d \in live /\ files'[d] = files[d]
    BY <1>5 DEF tree
  <2> QED BY <1>5, <2>1, <2>2, RequestQuiet
\* A request that adds a file.
<1>6. ASSUME NEW d \in OpenDirs, NEW nm, NEW f \in Unused, AddFile(d, nm, f), NEW y,
             Idle, UNCHANGED <<size, sectors, bitmap>>,
             stack' = <<Flush(d)>> \/ stack' = <<Flush(d), y>>,
             y.pc \in {"copy", "flush"}, y.pc = "copy" => y.to \notin Dirs,
             y.pc = "flush" => y.file \in Dirs
      PROVE  SavingInv'
  <2> DEFINE x == Flush(d)
  <2>1. x.pc = "flush" /\ x.file = d /\ d \in Dirs /\ (stack' = <<x>> \/ stack' = <<x, y>>)
    BY <1>1, <1>3, <1>6
  <2> HIDE DEF x
  <2>2. ASSUME NEW e \in Dirs \cap live', e # d
        PROVE  e \in live /\ files'[e] = files[e]
    <3>1. e # f /\ f \in Desc
      BY DEF Unused
    <3> QED BY <1>6, <2>2, <3>1, TreeAssumption DEF AddFile, TypeOK
  <2> QED BY <1>6, <2>1, <2>2, RequestQuiet
<1>7. ASSUME NEW d \in OpenDirs, NEW nm \in Names, CreateFile(d, nm)
      PROVE  SavingInv'
  <2>1. PICK f \in Unused : AddFile(d, nm, f)
    BY <1>7 DEF CreateFile
  <2>2. Idle /\ UNCHANGED <<size, sectors, bitmap>> /\ stack' = <<Flush(d)>>
    BY <1>7 DEF CreateFile, ondisk
  <2> DEFINE y == Flush(d)
  <2>3. y.pc = "flush" /\ y.file \in Dirs
    BY <1>1, <1>3
  <2> HIDE DEF y
  <2> QED BY <1>6, <2>1, <2>2, <2>3
<1>8. ASSUME NEW f \in OpenFiles \ Dirs, NEW n \in 0 .. MaxFile, NEW v \in Data,
             WriteFile(f, [i \in 1 .. n |-> <<"data", v>>])
      PROVE  SavingInv'
  <2> DEFINE arr == [i \in 1 .. n |-> <<"data", v>>]
  <2>1. arr \in Seq(Token)
    BY DataArray
  <2>2. WriteFile(f, arr)
    BY <1>8
  <2>3. f \in Desc \ Dirs
    BY <1>1, <1>2
  <2> HIDE DEF arr
  <2> QED BY <2>1, <2>2, <2>3, WriteFileSaving
<1>9. ASSUME NEW f \in OpenFiles, DeleteFile(f)
      PROVE  SavingInv'
  <2> DEFINE x == Delete(parent_directory[f], name[f])
  <2>1. x.pc = "delete"
    BY DEF Delete, Activation
  <2>2. stack' = <<x>> /\ Idle /\ UNCHANGED tree /\ UNCHANGED <<size, sectors, bitmap>>
    BY <1>9 DEF DeleteFile, ondisk
  <2> HIDE DEF x
  <2> QED BY <1>5, <2>1, <2>2
<1>10. ASSUME NEW d \in OpenDirs, NEW index \in DOMAIN files[d], RemoveFile(d, index)
       PROVE  SavingInv'
  <2> DEFINE x == Discard(d, index)
  <2>1. x.pc = "remove"
    BY DEF Discard, Activation
  <2>2. stack' = <<x>> /\ Idle /\ UNCHANGED tree /\ UNCHANGED <<size, sectors, bitmap>>
    BY <1>10 DEF RemoveFile, ondisk
  <2> HIDE DEF x
  <2> QED BY <1>5, <2>1, <2>2
<1>11. ASSUME NEW original \in OpenFiles, NEW d \in OpenDirs, NEW nm \in Names,
              CopyFile(original, d, nm)
       PROVE  SavingInv'
  <2>1. Idle /\ UNCHANGED <<size, sectors, bitmap>>
    BY <1>11 DEF CopyFile, ondisk
  <2>2. ASSUME NEW copy, copy \notin Dirs, stack' = <<Copy(original, copy)>>, UNCHANGED tree
        PROVE  SavingInv'
    <3> DEFINE x == Copy(original, copy)
    <3>1. x.pc = "copy" /\ x.to = copy /\ stack' = <<x>>
      BY <1>4, <2>2
    <3> HIDE DEF x
    <3> QED BY <1>5, <2>1, <2>2, <3>1
  <2>3. ASSUME NEW copy \in Unused, AddFile(d, nm, copy),
               stack' = <<Flush(d), Copy(original, copy)>>
        PROVE  SavingInv'
    <3> DEFINE y == Copy(original, copy)
    <3>1. y.pc = "copy" /\ y.to \notin Dirs
      BY <1>4 DEF Unused
    <3>2. stack' = <<Flush(d), y>>
      BY <2>3
    <3> HIDE DEF y
    <3> QED BY <1>6, <2>1, <2>3, <3>1, <3>2
  <2> QED BY <1>11, <2>2, <2>3 DEF CopyFile
<1>12. ASSUME NEW d \in OpenDirs, NEW e \in OpenDirs, NEW nm \in Names,
              NEW index \in DOMAIN files[d], MoveFile(d, index, e, nm)
       PROVE  SavingInv'
  <2> DEFINE x == Flush(d)
             y == Flush(e)
             f == files[d][index]
             erased == [files EXCEPT ![d] = Erase(files[d], index)]
  <2>1. /\ Idle /\ UNCHANGED <<size, sectors, bitmap>> /\ stack' = <<x, y>> /\ live' = live
        /\ files' = [erased EXCEPT ![e] = Append(erased[e], f)]
    BY <1>12 DEF MoveFile, ondisk
  <2>2. x.pc = "flush" /\ x.file = d /\ y.pc = "flush" /\ d \in Dirs /\ y.file \in Dirs
    BY <1>1, <1>3
  <2>3. d \in Desc /\ e \in Desc /\ f \in Desc
    <3>1. d \in Desc /\ e \in Desc
      BY <1>1, <1>2
    <3> QED BY <3>1, ListedChild
  <2>4. \A g \in Desc : g # d => erased[g] = files[g]
    BY DEF TypeOK
  <2>5. DOMAIN erased = Desc
    BY DEF TypeOK
  <2> HIDE DEF x, y, f, erased
  <2>6. \A g \in Dirs \cap live' :
          g # d => /\ g \in live
                   /\ files'[g] = files[g] \/ files'[g] = Append(files[g], f)
    <3> SUFFICES ASSUME NEW g \in Dirs \cap live', g # d
                 PROVE  g \in live /\ (files'[g] = files[g] \/ files'[g] = Append(files[g], f))
      OBVIOUS
    <3>1. g \in live /\ g \in Desc
      BY <1>2, <2>1
    <3>2. CASE g = e
      <4>1. files'[e] = Append(erased[e], f)
        BY <2>1, <2>3, <2>5
      <4> QED BY <2>4, <3>1, <3>2, <4>1
    <3>3. CASE g # e
      BY <2>1, <2>4, <2>5, <3>1, <3>3
    <3> QED BY <3>2, <3>3
  <2>7. \A g \in Dirs \cap live' :
          \/ x.pc = "flush" /\ x.file = g
          \/ /\ g \in live
             /\ files'[g] = files[g] \/ \E h \in Desc : files'[g] = Append(files[g], h)
    BY <2>2, <2>3, <2>6
  <2> QED BY <2>1, <2>2, <2>7, RequestQuiet
<1> QED BY <1>7, <1>8, <1>9, <1>10, <1>11, <1>12 DEF Request

\* The directories of the image are as long as their entries.
LEMMA ImageSizes ==
  ASSUME NEW d \in Dirs \cap Image.live
  PROVE  Image.size[d]
           = Cardinality({p \in (1 .. (Len(Image.files[d]) + 1) - 1) \X (0 .. DiskSize) :
                            p[2] <= Len(Image.sectors[Image.files[d][p[1]]])})
<1> DEFINE list == Image.files[d]
           offset(i) == Cardinality({p \in (1 .. i - 1) \X (0 .. DiskSize) :
                                       p[2] <= Len(Image.sectors[list[p[1]]])})
           token(t) == Image.disk[Image.sectors[d][((t - 1) \div SectorSize) + 1]]
                                 [((t - 1) % SectorSize) + 1]
<1>1. /\ Image.size[d] = offset(Len(list) + 1)
      /\ \A i \in DOMAIN list :
           LET f == list[i]
           IN  /\ token(offset(i) + 1) = <<"head", Image.name[f], f \in Dirs, Image.size[f]>>
               /\ \A j \in DOMAIN Image.sectors[f] :
                    token(offset(i) + 1 + j) = <<"ref", Image.sectors[f][j]>>
  BY EntriesAssumption, Zenon
<1>2. Image.size[d] = offset(Len(list) + 1)
  BY <1>1, Zenon
<1> QED BY <1>2, Zenon

LEMMA InitSaving == TypeOK /\ Init => SavingInv
<1> SUFFICES ASSUME TypeOK, Init PROVE SavingInv
  OBVIOUS
<1>1. stack = <<>> /\ DOMAIN stack = {} /\ bitmap = sector_bits /\ sector_bits = Reserved \cup Owned
  BY DEF Init
<1>2. Unsaved
  BY <1>1 DEF Unsaved, Saved, Owned
<1>3. Room
  <2> SUFFICES ASSUME NEW d \in Dirs \cap live PROVE size[d] <= Bytes(d)
    BY DEF Room
  <2>1. live = Image.live /\ size = Image.size /\ files = Image.files /\ sectors = Image.sectors
    BY DEF Init
  <2>2. size[d] = Bytes(d)
    BY <2>1, ImageSizes DEF Bytes, Offset
  <2> QED BY <2>2, BytesType, TreeAssumption
<1>4. Nesting /\ UpToDate /\ Guarded /\ Copies /\ Grows /\ Resized
  BY <1>1 DEF Nesting, UpToDate, Guarded, Copies, Grows, Resized
<1> QED BY <1>2, <1>3, <1>4 DEF SavingInv

LEMMA StutterSaving ==
  ASSUME SavingInv, UNCHANGED vars
  PROVE  SavingInv'
<1>1. Nesting' /\ Unsaved'
  BY DEF SavingInv, Nesting, WaitsFor, Above, Rising, Unsaved, Saved, vars
<1>2. UpToDate' /\ Guarded' /\ Copies'
  BY DEF SavingInv, UpToDate, Guarded, Copies, WritesDirectory, WrittenNext, ArrayRefs,
     ChildSectors, Children, vars
<1>3. Grows' /\ Room' /\ Resized'
  BY DEF SavingInv, Grows, Room, Resized, Longer, Saved, Due, Bytes, Offset, Top, vars
<1> QED BY <1>1, <1>2, <1>3 DEF SavingInv

LEMMA NextSaving ==
  ASSUME Careful, TypeOK, TypeOK', LeakInv, SectorsInv', SavingInv, [Next]_vars
  PROVE  SavingInv'
<1>1. TreeInv /\ SectorsInv
  BY DEF LeakInv
<1>2. CASE Request
  BY <1>1, <1>2, RequestSaving
<1>3. CASE Transfer
  BY <1>1, <1>3, TransferSaving
<1>4. CASE RemoveChild \/ RemoveErase \/ DeleteNext
  BY <1>1, <1>4, RemoveChildSaving, RemoveEraseSaving, DeleteNextSaving
<1>5. CASE UNCHANGED vars
  BY <1>5, StutterSaving
<1> QED BY <1>2, <1>3, <1>4, <1>5 DEF Next, Step, Transfer

\* What a sector gets is a part of what is being written.
LEMMA WrittenRefs ==
  ASSUME TypeOK, SavingInv, WriteSector, NEW s \in Sector, disk'[s] # disk[s],
         Top.file \in Dirs \ {Root}
  PROVE  References(disk'[s]) \subseteq bitmap
<1> DEFINE f == Top.file
           base == Top.n * SectorSize
           token(j) == IF base + j <= Min({size[f], Len(Top.array)})
                         THEN Top.array[base + j] ELSE Junk
           arr == Top.array
<1>1. /\ stack # <<>> /\ Top.pc = "write"
      /\ disk' = [disk EXCEPT ![sectors[f][Top.n + 1]] = [j \in 1 .. SectorSize |-> token(j)]]
  BY DEF WriteSector, At
<1>2. /\ 1 \in DOMAIN stack /\ stack[1] = Top /\ Top \in Frame /\ f \in Desc /\ Top.n \in Nat
  BY <1>1, TopFrame
<1>3. arr \in Seq(Token) /\ Len(arr) \in Nat /\ DOMAIN arr = 1 .. Len(arr)
  BY <1>2 DEF Frame
<1>4. ArrayRefs(arr) \subseteq bitmap
  BY <1>1, <1>2 DEF SavingInv, Guarded, WritesDirectory, WrittenNext
<1>5. size[f] \in Nat /\ base \in Nat
  <2>1. size[f] \in Nat
    BY <1>2 DEF TypeOK
  <2> QED BY <1>2, <2>1, SizesAssumption
<1>6. Min({size[f], Len(arr)}) <= Len(arr)
  <2> DEFINE a == size[f]
             b == Len(arr)
  <2>1. a \in Nat /\ b \in Nat
    BY <1>3, <1>5
  <2> HIDE DEF a, b
  <2>2. \E m \in {a, b} : \A k \in {a, b} : m <= k
    BY <2>1
  <2>3. Min({a, b}) \in {a, b} /\ \A k \in {a, b} : Min({a, b}) <= k
    BY <2>2 DEF Min
  <2>4. Min({a, b}) <= b
    BY <2>3
  <2> QED BY <2>4 DEF a, b
<1>7. disk'[s] = [j \in 1 .. SectorSize |-> token(j)]
  <2> DEFINE at == sectors[f][Top.n + 1]
             new == [j \in 1 .. SectorSize |-> token(j)]
  <2>1. disk \in [Sector -> Block] /\ disk' = [disk EXCEPT ![at] = new]
    BY <1>1 DEF TypeOK
  <2> HIDE DEF at, new
  <2>2. s = at /\ disk'[s] = new
    BY <2>1
  <2> QED BY <2>2 DEF new
<1>8. ASSUME NEW j \in 1 .. SectorSize, token(j)[1] = "ref"
      PROVE  token(j)[2] \in bitmap
  <2>1. token(j) # Junk
    <3>1. Junk[1] = "junk"
      BY Zenon DEF Junk
    <3> QED BY <1>8, <3>1
  <2>2. base + j <= Min({size[f], Len(arr)}) /\ token(j) = arr[base + j]
    BY <2>1
  <2> DEFINE i == base + j
             m == Min({size[f], Len(arr)})
  <2>3. m \in Nat
    <3> DEFINE a == size[f]
               b == Len(arr)
    <3>1. a \in Nat /\ b \in Nat
      BY <1>3, <1>5
    <3> HIDE DEF a, b
    <3>2. \E k \in {a, b} : \A l \in {a, b} : k <= l
      BY <3>1
    <3>3. Min({a, b}) \in {a, b}
      BY <3>2 DEF Min
    <3>4. Min({a, b}) \in Nat
      BY <3>1, <3>3
    <3> QED BY <3>4 DEF a, b
  <2>4. i <= m /\ m <= Len(arr) /\ i \in Nat /\ i >= 1
    <3>1. i \in Nat /\ i >= 1
      BY <1>5, SizesAssumption
    <3> QED BY <1>6, <2>2, <3>1
  <2> HIDE DEF i, m, base
  <2>5. i \in DOMAIN arr
    BY <1>3, <2>3, <2>4
  <2>6. token(j) = arr[i]
    BY <2>2 DEF i
  <2> HIDE DEF token
  <2>7. arr[i][1] = "ref" /\ arr[i][2] = token(j)[2]
    BY <1>8, <2>6
  <2> HIDE DEF arr
  <2>8. arr[i][2] \in ArrayRefs(arr)
    BY <2>5, <2>7 DEF ArrayRefs
  <2> QED BY <1>4, <2>7, <2>8 DEF arr
<1> HIDE DEF token
<1>9. \A j \in 1 .. SectorSize : disk'[s][j] = token(j)
  BY <1>7
<1> QED BY <1>8, <1>9 DEF References

\* A crash at any moment leaves no entry of a directory but the root on the
\* disk that names a sector the next mount would hand out: whoever calls what,
\* the bits of all sectors in the entries are on the disk before them.  The
\* proviso is that nobody moves a directory into itself or copies onto one.
THEOREM BitsPrecedeReferences == Careful => (Spec => BitsBeforeReferences)
<1> SUFFICES ASSUME Careful PROVE Spec => BitsBeforeReferences
  OBVIOUS
<1>1. TypeOK /\ Init => LeakInv /\ SavingInv
  BY InitLeak, InitSaving
<1>2. TypeOK /\ TypeOK' /\ LeakInv /\ SavingInv /\ [Next]_vars => LeakInv' /\ SavingInv'
  <2> SUFFICES ASSUME TypeOK, TypeOK', LeakInv, SavingInv, [Next]_vars
               PROVE  LeakInv' /\ SavingInv'
    OBVIOUS
  <2>1. LeakInv'
    BY NextLeak
  <2>2. SectorsInv'
    BY <2>1 DEF LeakInv
  <2> QED BY <2>1, <2>2, NextSaving
<1>3. TypeOK /\ SavingInv /\ [Next]_vars =>
        [\A s \in Sector :
           /\ disk'[s] # disk[s]
           /\ Top.file \in Dirs \ {Root}
           => References(disk'[s]) \subseteq bitmap]_vars
  <2> SUFFICES ASSUME TypeOK, SavingInv, [Next]_vars
               PROVE  \A s \in Sector :
                        /\ disk'[s] # disk[s]
                        /\ Top.file \in Dirs \ {Root}
                        => References(disk'[s]) \subseteq bitmap
    OBVIOUS
  <2>1. CASE WriteSector
    BY <2>1, WrittenRefs
  <2>2. CASE ~ WriteSector
    <3>1. disk' = disk
      BY <2>2 DEF Next, Request, Step, vars, ondisk, CreateFile, WriteFile, DeleteFile,
         RemoveFile, CopyFile, MoveFile, WriteDone, ResizeSame, ResizeKeep, ResizeShrink,
         ResizeGrow, GrowSector, GrowDone, DiskFull, ResizeParent, ResizeBits,
         FlushMetadata, RemoveChild, RemoveErase, DeleteNext, CopyData
    <3> QED BY <3>1
  <2> QED BY <2>1, <2>2
<1> QED BY <1>1, <1>2, <1>3, TypeCorrect, PTL DEF Spec, BitsBeforeReferences

-----------------------------------------------------------------------------
(* What a file holds.                                                      *)

\* The sector and the place in it of a byte.
LEMMA Quotient ==
  ASSUME NEW m \in Nat, NEW B \in Nat \ {0}
  PROVE  /\ m \div B \in Nat /\ m % B \in 0 .. B - 1
         /\ (m \div B) * B \in Nat /\ m = (m \div B) * B + (m % B)
<1>1. m \div B \in Nat /\ m % B \in 0 .. B - 1
  BY Z3
<1>2. m = B * (m \div B) + (m % B)
  BY Z3
<1> DEFINE q == m \div B
<1>3. q \in Nat
  BY <1>1
<1> HIDE DEF q
<1>4. B * q = q * B /\ q * B \in Nat
  BY <1>3
<1> QED BY <1>1, <1>2, <1>4 DEF q

LEMMA TimesMore ==
  ASSUME NEW a \in Nat, NEW b \in Nat, NEW B \in Nat, a <= b
  PROVE  a * B <= b * B /\ a * B \in Nat /\ (a + 1) * B = a * B + B
OBVIOUS

\* The j-th token of the k-th sector of f, and the t-th of all of them.
Slot(f, k, j) == IF k \in DOMAIN sectors[f] THEN disk[sectors[f][k]][j] ELSE Junk
Stored(f, t) == Slot(f, ((t - 1) \div SectorSize) + 1, ((t - 1) % SectorSize) + 1)

\* File::read gives what the sectors of the file hold.
LEMMA ReadStored ==
  ASSUME NEW f
  PROVE  Read(f) = [t \in 1 .. size[f] |-> Stored(f, t)]
BY DEF Read, Stored, Slot

\* A byte stays when its sector does and the list of sectors.
LEMMA SameStored ==
  ASSUME NEW f, NEW t, sectors'[f] = sectors[f],
         \A s \in Range(sectors[f]) : disk'[s] = disk[s]
  PROVE  Stored(f, t)' = Stored(f, t)
<1>1. \A k, j : Slot(f, k, j)' = Slot(f, k, j)
  BY DEF Slot, Range
<1> QED BY <1>1 DEF Stored

\* A sector that begins before the end of a file is one of its sectors.
LEMMA SectorsReach ==
  ASSUME NEW m \in Nat, NEW n \in Nat, n * SectorSize < m
  PROVE  n + 1 <= SectorCount(m)
<1> DEFINE product == n * SectorSize
           u == m + SectorSize - 1
           q == u \div SectorSize
           base == q * SectorSize
<1>1. SectorSize \in Nat \ {0} /\ product \in Nat /\ product < m
  BY SizesAssumption
<1>2. u \in Nat
  BY <1>1
<1>3. q \in Nat /\ base \in Nat /\ u < base + SectorSize
  <2> HIDE DEF u
  <2>1. base \in Nat /\ q \in Nat /\ u % SectorSize \in 0 .. SectorSize - 1
        /\ u = base + (u % SectorSize)
    BY <1>1, <1>2, Quotient
  <2> DEFINE r == u % SectorSize
  <2> HIDE DEF base, q, r
  <2>2. u < base + SectorSize
    BY <1>1, <1>2, <2>1 DEF r
  <2> QED BY <2>1, <2>2 DEF q, base
<1>4. q <= n => base <= product
  <2> HIDE DEF q
  <2> QED BY <1>1, <1>3, TimesMore
<1> HIDE DEF product, base, q
<1>5. product < base
  BY <1>1, <1>3 DEF u
<1>6. q >= n + 1
  BY <1>1, <1>3, <1>4, <1>5
<1> QED BY <1>6 DEF q, SectorCount

\* The sector a step of write() writes.
LEMMA WriteTarget ==
  ASSUME TypeOK, SizesFit, WriteSector
  PROVE  /\ Top.n + 1 \in DOMAIN sectors[Top.file]
         /\ sectors[Top.file][Top.n + 1] \in Sector
         /\ disk' = [disk EXCEPT ![sectors[Top.file][Top.n + 1]] =
                       [j \in 1 .. SectorSize |->
                          IF Top.n * SectorSize + j <= Min({size[Top.file], Len(Top.array)})
                            THEN Top.array[Top.n * SectorSize + j] ELSE Junk]]
<1> DEFINE f == Top.file
           n == Top.n
           product == n * SectorSize
<1>1. stack # <<>> /\ Top.pc = "write" /\ product < size[f]
  BY DEF WriteSector, At
<1>2. f \in Desc /\ n \in Nat
  BY <1>1, TopFrame
<1>3. size[f] \in Nat /\ sectors[f] \in Seq(Sector)
  BY <1>2 DEF TypeOK
<1>4. Len(sectors[f]) = SectorCount(size[f])
  BY <1>1, <1>2 DEF SizesFit, Growing
<1>5. n + 1 <= SectorCount(size[f])
  BY <1>1, <1>2, <1>3, SectorsReach
<1>6. n + 1 \in DOMAIN sectors[f]
  BY <1>2, <1>3, <1>4, <1>5
<1>7. sectors[f][n + 1] \in Sector
  BY <1>3, <1>6
<1> QED BY <1>6, <1>7 DEF WriteSector

\* The steps that write a sector of a file.
LEMMA DiskSteps ==
  ASSUME [Next]_vars
  PROVE  disk' = disk \/ WriteSector
BY DEF Next, Request, Step, vars, ondisk, CreateFile, WriteFile, DeleteFile,
       RemoveFile, CopyFile, MoveFile, WriteDone, ResizeSame, ResizeKeep, ResizeShrink,
       ResizeGrow, GrowSector, GrowDone, DiskFull, ResizeParent, ResizeBits,
       FlushMetadata, RemoveChild, RemoveErase, DeleteNext, CopyData

\* Other files than the one of the innermost frame stay as they are.
LEMMA TransferStored ==
  ASSUME TypeOK, SectorsInv, SizesFit, Transfer, NEW g \in Desc, g # Top.file
  PROVE  /\ \A t : Stored(g, t)' = Stored(g, t)
         /\ size'[g] = size[g]
<1> DEFINE f == Top.file
<1>1. f \in Desc /\ sectors'[g] = sectors[g]
  BY TransferTurns, TopFrame, TransferSectors
<1>2. \A s \in Range(sectors[g]) : disk'[s] = disk[s]
  <2>1. CASE WriteSector
    <3> DEFINE at == sectors[f][Top.n + 1]
    <3>1. at \in Range(sectors[f]) /\ \A s \in Sector : s # at => disk'[s] = disk[s]
      BY <2>1, WriteTarget DEF TypeOK, Range
    <3>2. Range(sectors[f]) \cap Range(sectors[g]) = {}
      BY <1>1 DEF SectorsInv, SectorsExclusive
    <3>3. Range(sectors[g]) \subseteq Sector
      BY DEF TypeOK, Range
    <3> QED BY <3>1, <3>2, <3>3
  <2>2. CASE disk' = disk
    BY <2>2
  <2> QED BY <2>1, <2>2, DiskSteps DEF Transfer, Next, Step
<1>3. \A t : Stored(g, t)' = Stored(g, t)
  BY <1>1, <1>2, SameStored
<1>4. size'[g] = size[g]
  BY TransferTurns DEF Turns
<1> QED BY <1>3, <1>4

\* A step of write() changes the slots of one sector.
LEMMA WriteSlots ==
  ASSUME TypeOK, SectorsInv, SizesFit, WriteSector, NEW f, f = Top.file, NEW n, n = Top.n,
         NEW arr, arr = Top.array, size[f] = Len(arr)
  PROVE  /\ \A k, j : k # n + 1 => Slot(f, k, j)' = Slot(f, k, j)
         /\ \A j \in 1 .. SectorSize :
              n * SectorSize + j <= size[f] => Slot(f, n + 1, j)' = arr[n * SectorSize + j]
<1> DEFINE at == sectors[f][n + 1]
           token(j) == IF n * SectorSize + j <= Min({size[f], Len(arr)})
                         THEN arr[n * SectorSize + j] ELSE Junk
           new == [j \in 1 .. SectorSize |-> token(j)]
<1>1. stack # <<>> /\ sectors' = sectors
  BY DEF WriteSector, At
<1>2. f \in Desc /\ n \in Nat /\ size[f] \in Nat /\ sectors[f] \in Seq(Sector)
      /\ disk \in [Sector -> Block]
  BY <1>1, TopFrame DEF TypeOK
<1>3. n + 1 \in DOMAIN sectors[f] /\ at \in Sector /\ disk' = [disk EXCEPT ![at] = new]
  BY WriteTarget
<1>4. \A i \in DOMAIN sectors[f] : sectors[f][i] = at => i = n + 1
  BY <1>2, <1>3 DEF SectorsInv, SectorsExclusive
<1>5. Min({size[f], Len(arr)}) = size[f]
  <2> DEFINE a == size[f]
  <2>1. a \in Nat /\ {size[f], Len(arr)} = {a}
    BY <1>2
  <2> HIDE DEF a
  <2>2. Min({a}) = a
    BY <2>1 DEF Min
  <2> QED BY <2>1, <2>2 DEF a
<1>6. \A j \in 1 .. SectorSize : new[j] = token(j)
  OBVIOUS
<1> HIDE DEF new
<1>7. disk'[at] = new /\ \A s \in Sector : s # at => disk'[s] = disk[s]
  <2> HIDE DEF at
  <2> QED BY <1>2, <1>3
<1>8. ASSUME NEW k, NEW j, k # n + 1
      PROVE  Slot(f, k, j)' = Slot(f, k, j)
  <2>1. CASE k \in DOMAIN sectors[f]
    <3>1. sectors[f][k] \in Sector /\ sectors[f][k] # at
      BY <1>2, <1>4, <1>8, <2>1
    <3>2. disk'[sectors[f][k]] = disk[sectors[f][k]]
      BY <1>7, <3>1
    <3> QED BY <1>1, <2>1, <3>2 DEF Slot
  <2>2. CASE k \notin DOMAIN sectors[f]
    BY <1>1, <2>2 DEF Slot
  <2> QED BY <2>1, <2>2
<1>9. ASSUME NEW j \in 1 .. SectorSize, n * SectorSize + j <= size[f]
      PROVE  Slot(f, n + 1, j)' = arr[n * SectorSize + j]
  <2>1. Slot(f, n + 1, j)' = disk'[at][j]
    BY <1>1, <1>3 DEF Slot
  <2>2. token(j) = arr[n * SectorSize + j]
    BY <1>5, <1>9
  <2> HIDE DEF token
  <2> QED BY <1>6, <1>7, <2>1, <2>2
<1> QED BY <1>8, <1>9

\* One more sector of the array.
LEMMA WriteExtends ==
  ASSUME TypeOK, SectorsInv, SizesFit, WriteSector, NEW f, f = Top.file, NEW n, n = Top.n,
         NEW arr, arr = Top.array, size[f] = Len(arr),
         \A t \in 1 .. size[f] : t <= n * SectorSize => Stored(f, t) = arr[t]
  PROVE  \A t \in 1 .. size[f] : t <= (n + 1) * SectorSize => Stored(f, t)' = arr[t]
<1> DEFINE product == n * SectorSize
           last == (n + 1) * SectorSize
<1>1. n \in Nat /\ size[f] \in Nat
  <2>1. stack # <<>>
    BY DEF WriteSector, At
  <2> QED BY <2>1, TopFrame DEF TypeOK
<1>2. SectorSize \in Nat \ {0} /\ product \in Nat /\ last = product + SectorSize
  BY <1>1, SizesAssumption
<1>3. ASSUME NEW t \in 1 .. size[f], t <= last, NEW q, q = (t - 1) \div SectorSize,
             NEW r, r = (t - 1) % SectorSize
      PROVE  Stored(f, t)' = arr[t]
  <2> DEFINE base == q * SectorSize
  <2>1. q \in Nat /\ r \in 0 .. SectorSize - 1 /\ t - 1 = base + r /\ base \in Nat
    <3> DEFINE u == t - 1
    <3>1. u \in Nat
      BY <1>1
    <3> HIDE DEF u
    <3>2. /\ u \div SectorSize \in Nat /\ u % SectorSize \in 0 .. SectorSize - 1
          /\ (u \div SectorSize) * SectorSize \in Nat
          /\ u = (u \div SectorSize) * SectorSize + (u % SectorSize)
      BY <3>1, SizesAssumption, Quotient
    <3> QED BY <1>3, <3>2 DEF u
  <2>2. Stored(f, t)' = Slot(f, q + 1, r + 1)' /\ Stored(f, t) = Slot(f, q + 1, r + 1)
    BY <1>3 DEF Stored
  <2>3. t \in Nat /\ r \in Nat /\ r < SectorSize /\ t <= size[f] /\ t = base + r + 1
    BY <1>1, <1>2, <2>1
  <2>4. CASE q = n
    <3>1. base = product
      BY <2>4
    <3>2. r + 1 \in 1 .. SectorSize /\ product + (r + 1) = t
      <4> HIDE DEF base, product, last
      <4> QED BY <1>2, <2>1, <2>3, <3>1
    <3>3. Slot(f, n + 1, r + 1)' = arr[t]
      BY <2>3, <3>2, WriteSlots
    <3> QED BY <2>2, <2>4, <3>3
  <2>5. CASE q # n
    <3>1. base < last
      <4> HIDE DEF base, product, last
      <4> QED BY <1>2, <1>3, <2>1, <2>3
    <3>2. q < n
      <4> SUFFICES ASSUME n + 1 <= q PROVE FALSE
        BY <1>1, <2>1, <2>5
      <4>1. n + 1 \in Nat
        BY <1>1
      <4>2. last <= base
        BY <1>2, <2>1, <4>1, TimesMore
      <4> HIDE DEF base, product, last
      <4> QED BY <1>2, <2>1, <3>1, <4>2
    <3>3. base + SectorSize <= product
      <4>1. q + 1 \in Nat /\ q + 1 <= n
        BY <1>1, <2>1, <3>2
      <4>2. (q + 1) * SectorSize <= product
        BY <1>1, <1>2, <4>1, TimesMore
      <4>3. (q + 1) * SectorSize = base + SectorSize
        BY <1>2, <2>1, TimesMore
      <4> QED BY <4>2, <4>3
    <3>4. t <= product
      <4> HIDE DEF base, product, last
      <4> QED BY <1>2, <2>1, <2>3, <3>3
    <3>5. Stored(f, t) = arr[t]
      BY <3>4
    <3>6. q + 1 # n + 1
      BY <1>1, <2>1, <2>5
    <3>7. Slot(f, q + 1, r + 1)' = Slot(f, q + 1, r + 1)
      BY <3>6, WriteSlots
    <3> QED BY <2>2, <3>5, <3>7
  <2> QED BY <2>4, <2>5
<1> QED BY <1>3

-----------------------------------------------------------------------------
(* What a directory would write.                                           *)

\* Serialize as a function of the fields it reads.
EntryOf(nm, sz, sc, f) ==
  <<<<"head", nm[f], f \in Dirs, sz[f]>>>> \o [j \in 1 .. Len(sc[f]) |-> <<"ref", sc[f][j]>>]
OffsetOf(list, sc, i) ==
  Cardinality({p \in (1 .. i - 1) \X (0 .. DiskSize) : p[2] <= Len(sc[list[p[1]]])})
SerializeOf(list, nm, sz, sc) ==
  [t \in 1 .. OffsetOf(list, sc, Len(list) + 1) |->
     LET i == CHOOSE i \in DOMAIN list :
                OffsetOf(list, sc, i) < t /\ t <= OffsetOf(list, sc, i + 1)
     IN  EntryOf(nm, sz, sc, list[i])[t - OffsetOf(list, sc, i)]]

\* The entries as a function of the fields they are made of.
LEMMA SerializeFields ==
  ASSUME NEW d
  PROVE  /\ Serialize(d) = SerializeOf(files[d], name, size, sectors)
         /\ Serialize(d)' = SerializeOf(files'[d], name', size', sectors')
BY DEF Serialize, SerializeOf, Offset, OffsetOf, Entry, EntryOf

LEMMA SameOffset ==
  ASSUME NEW S, NEW list \in Seq(S), NEW c1, NEW c2,
         \A j \in DOMAIN list : c1[list[j]] = c2[list[j]],
         NEW i \in 1 .. Len(list) + 1
  PROVE  OffsetOf(list, c1, i) = OffsetOf(list, c2, i)
<1> DEFINE places == (1 .. i - 1) \X (0 .. DiskSize)
           old == {p \in places : p[2] <= Len(c1[list[p[1]]])}
           new == {p \in places : p[2] <= Len(c2[list[p[1]]])}
<1>1. \A j \in 1 .. i - 1 : j \in DOMAIN list
  OBVIOUS
<1>2. \A p \in places : c1[list[p[1]]] = c2[list[p[1]]]
  BY <1>1
<1>3. old = new
  BY <1>2
<1> QED BY <1>3 DEF OffsetOf

\* The entries stay when the children keep their names, sizes and sectors.
LEMMA SameEntries ==
  ASSUME NEW S, NEW list \in Seq(S), NEW n1, NEW n2, NEW s1, NEW s2, NEW c1, NEW c2,
         \A j \in DOMAIN list : /\ n1[list[j]] = n2[list[j]]
                                /\ s1[list[j]] = s2[list[j]] /\ c1[list[j]] = c2[list[j]],
         \A t \in 1 .. OffsetOf(list, c1, Len(list) + 1) :
           \E i \in DOMAIN list : OffsetOf(list, c1, i) < t /\ t <= OffsetOf(list, c1, i + 1)
  PROVE  SerializeOf(list, n1, s1, c1) = SerializeOf(list, n2, s2, c2)
<1> DEFINE o1(i) == OffsetOf(list, c1, i)
           o2(i) == OffsetOf(list, c2, i)
           len == o1(Len(list) + 1)
           child1(t) == CHOOSE i \in DOMAIN list : o1(i) < t /\ t <= o1(i + 1)
           child2(t) == CHOOSE i \in DOMAIN list : o2(i) < t /\ t <= o2(i + 1)
           token1(t) == EntryOf(n1, s1, c1, list[child1(t)])[t - o1(child1(t))]
           token2(t) == EntryOf(n2, s2, c2, list[child2(t)])[t - o2(child2(t))]
<1>1. Len(list) \in Nat /\ DOMAIN list = 1 .. Len(list)
  OBVIOUS
<1>2. \A i \in 1 .. Len(list) + 1 : o1(i) = o2(i)
  BY SameOffset
<1>3. \A i \in DOMAIN list : o1(i) = o2(i) /\ o1(i + 1) = o2(i + 1)
  BY <1>1, <1>2
<1>4. \A i \in DOMAIN list : EntryOf(n1, s1, c1, list[i]) = EntryOf(n2, s2, c2, list[i])
  BY DEF EntryOf
<1>5. SerializeOf(list, n1, s1, c1) = [t \in 1 .. len |-> token1(t)]
  BY DEF SerializeOf
<1>6. SerializeOf(list, n2, s2, c2) = [t \in 1 .. o2(Len(list) + 1) |-> token2(t)]
  BY DEF SerializeOf
<1>7. o2(Len(list) + 1) = len
  BY <1>1, <1>2
<1>8. ASSUME NEW t \in 1 .. len
      PROVE  token1(t) = token2(t)
  <2>1. child1(t) = child2(t)
    <3> HIDE DEF o1, o2
    <3>1. \A i : (i \in DOMAIN list /\ o1(i) < t /\ t <= o1(i + 1))
                   <=> (i \in DOMAIN list /\ o2(i) < t /\ t <= o2(i + 1))
      BY <1>3
    <3> QED BY <3>1, Zenon
  <2>2. child1(t) \in DOMAIN list
    <3> HIDE DEF o1
    <3>1. \E i \in DOMAIN list : o1(i) < t /\ t <= o1(i + 1)
      BY DEF o1
    <3> QED BY <3>1
  <2> HIDE DEF child1, child2, o1, o2
  <2> QED BY <1>3, <1>4, <2>1, <2>2
<1> HIDE DEF token1, token2, len
<1> QED BY <1>5, <1>6, <1>7, <1>8

\* A directory serializes the same when its children stay the same.
LEMMA KeptSerialize ==
  ASSUME TypeOK, NEW d \in Desc, files'[d] = files[d],
         \A i \in DOMAIN files[d] : /\ name'[files[d][i]] = name[files[d][i]]
                                    /\ size'[files[d][i]] = size[files[d][i]]
                                    /\ sectors'[files[d][i]] = sectors[files[d][i]]
  PROVE  Serialize(d)' = Serialize(d)
<1> DEFINE list == files[d]
<1>1. list \in Seq(Desc)
  BY DEF TypeOK
<1>2. \A i : Offset(d, i) = OffsetOf(list, sectors, i)
  BY DEF Offset, OffsetOf
<1>3. \A t \in 1 .. OffsetOf(list, sectors, Len(list) + 1) :
        \E i \in DOMAIN list :
          OffsetOf(list, sectors, i) < t /\ t <= OffsetOf(list, sectors, i + 1)
  BY <1>2, SerializeCovers
<1>4. Serialize(d) = SerializeOf(list, name, size, sectors)
      /\ Serialize(d)' = SerializeOf(list, name', size', sectors')
  BY SerializeFields
<1>5. SerializeOf(list, name, size, sectors) = SerializeOf(list, name', size', sectors')
  <2> HIDE DEF list
  <2>1. \A j \in DOMAIN list : /\ name[list[j]] = name'[list[j]]
                                /\ size[list[j]] = size'[list[j]]
                                /\ sectors[list[j]] = sectors'[list[j]]
    BY DEF list
  <2> QED BY <1>1, <1>3, <2>1, SameEntries
<1> QED BY <1>4, <1>5

LEMMA SameSerialize ==
  ASSUME TypeOK, NEW d \in Desc, UNCHANGED <<files, name>>,
         \A i \in DOMAIN files[d] : /\ size'[files[d][i]] = size[files[d][i]]
                                    /\ sectors'[files[d][i]] = sectors[files[d][i]]
  PROVE  Serialize(d)' = Serialize(d)
BY KeptSerialize

-----------------------------------------------------------------------------
(* The frames that transfer, and what the history says of them.            *)

Resizing == Resizes \cup {"resize"}

InTransfer(f) == \E k \in DOMAIN stack : stack[k].file = f /\ stack[k].pc \in Resizing \cup {"write"}

\* Reading f gives the array last written to it.
Recorded(f) ==
  /\ size[f] = Len(content[f])
  /\ \A t \in 1 .. size[f] : Stored(f, t) = content[f][t]

Settled == \A f \in Desc : InTransfer(f) \/ Recorded(f)

\* A frame that is to write, or has begun to, has the array of the history; a
\* directory is as long as the entries it has now.
WritesKept(k) ==
  stack[k].pc = "write" =>
    /\ content[stack[k].file] = stack[k].array
    /\ k > 1 => stack[k].n = 0
    /\ stack[k].file \in Dirs => content[stack[k].file] = Serialize(stack[k].file)

\* A resize serves the write of the same file, or the erasure of the file.
ResizesKept(k) ==
  stack[k].pc \in Resizing =>
    /\ stack[k].n = Len(content[stack[k].file])
    /\ stack[k].pc # "resize" => size[stack[k].file] = stack[k].n
    /\ k + 1 \in DOMAIN stack
    /\ \/ stack[k + 1].pc = "write" /\ stack[k + 1].file = stack[k].file
       \/ stack[k + 1].pc = "erase" /\ stack[k].n = 0

FlushesKept(k) == stack[k].pc = "flush" => stack[k].file \in Dirs

Kept(k) == WritesKept(k) /\ ResizesKept(k) /\ FlushesKept(k)
FramesKept == \A k \in DOMAIN stack : Kept(k)

\* The sectors written so far hold their part of the array.
TopWrites ==
  stack # <<>> /\ Top.pc = "write" =>
    /\ size[Top.file] = Len(content[Top.file])
    /\ \A t \in 1 .. size[Top.file] :
         t <= Top.n * SectorSize => Stored(Top.file, t) = content[Top.file][t]

DeadEmpty == \A f \in Desc \ live : size[f] = 0

ContentType == content \in [Desc -> Seq(Token)]

ContentInv == ContentType /\ DeadEmpty /\ Settled /\ FramesKept /\ TopWrites

AuditStep == content' = [f \in Desc |-> Written(f)]

\* What a transfer passes to write().
LEMMA MovesContent ==
  ASSUME TypeOK, Transfer, ContentType, AuditStep, NEW new, Moves(new)
  PROVE  /\ \A f \in live : ~ (Writes(new) /\ f = new[2].file) => content'[f] = content[f]
         /\ Writes(new) /\ new[2].file \in live => content'[new[2].file] = new[2].array
         /\ \A f \in Desc \ live : content'[f] = <<>>
         /\ ContentType'
<1>1. /\ stack # <<>> /\ UNCHANGED tree /\ Len(new) \in Nat /\ Len(stack) \in Nat
      /\ Len(stack') = Len(new) + Len(stack) - 1 /\ new \in Seq(Frame)
      /\ DOMAIN stack' = 1 .. Len(new) + Len(stack) - 1
      /\ DOMAIN new = 1 .. Len(new)
      /\ \A k \in 1 .. Len(new) : stack'[k] = new[k]
  BY MovesTypes
<1>2. live \subseteq Desc /\ live' = live
  BY <1>1 DEF TypeOK, tree
<1>3. \A f \in Desc : content'[f] = Written(f)
  BY DEF AuditStep
<1>4. ~ At("remove")
  BY TransferTurns DEF At, Removing
<1>5. ASSUME Len(new) # 0
      PROVE  Head(stack') = new[1]
  <2>1. 1 \in DOMAIN stack'
    <3>1. Len(stack) > 0
      BY <1>1, StackTypes, TopFrame
    <3> QED BY <1>1, <1>5, <3>1
  <2>2. stack'[1] = new[1]
    BY <1>1, <1>5
  <2>3. Head(stack') = stack'[1]
    OBVIOUS
  <2> QED BY <2>2, <2>3
<1>6. Len(new) > 1 => Writes(new) \/ Flushes(new)
  BY DEF Moves, Pops, Stays
<1>7. Len(stack') > Len(stack) <=> Len(new) > 1
  BY <1>1
<1>8. Writes(new) => /\ Len(new) > 1 /\ new[1].pc = "resize" /\ new[1].file = new[2].file
                     /\ stack'[2] = new[2] /\ new[2] \in Frame
  <2> SUFFICES ASSUME Writes(new)
               PROVE  /\ Len(new) > 1 /\ new[1].pc = "resize" /\ new[1].file = new[2].file
                      /\ stack'[2] = new[2] /\ new[2] \in Frame
    OBVIOUS
  <2>1. Len(new) = 2 /\ new[1].pc = "resize" /\ new[1].file = new[2].file
    BY DEF Writes
  <2>2. 2 \in DOMAIN new /\ 2 \in 1 .. Len(new) /\ new \in Seq(Frame)
    BY <1>1, <2>1
  <2>3. new[2] \in Frame
    BY ONLY <2>2
  <2>4. stack'[2] = new[2]
    BY <1>1, <2>2
  <2>5. Len(new) > 1
    BY <2>1
  <2> QED BY <2>1, <2>3, <2>4, <2>5
<1>9. Flushes(new) => new[1].pc = "flush"
  BY DEF Flushes
<1>10. \A f \in live : ~ (Writes(new) /\ f = new[2].file) => Written(f) = content[f]
  BY <1>2, <1>5, <1>6, <1>7, <1>8, <1>9 DEF Written
<1>11. Writes(new) /\ new[2].file \in live => Written(new[2].file) = new[2].array
  BY <1>1, <1>2, <1>4, <1>5, <1>7, <1>8 DEF Written
<1>12. \A f \in Desc \ live : Written(f) = <<>>
  BY <1>2 DEF Written
<1>13. \A f \in Desc : Written(f) \in Seq(Token)
  <2>1. Writes(new) => new[2].array \in Seq(Token)
    BY <1>8 DEF Frame
  <2>2. \A f \in Desc : content[f] \in Seq(Token)
    BY DEF ContentType
  <2>3. <<>> \in Seq(Token)
    OBVIOUS
  <2> QED BY <1>10, <1>11, <1>12, <2>1, <2>2, <2>3
<1> QED BY <1>2, <1>3, <1>10, <1>11, <1>12, <1>13 DEF AuditStep, ContentType

-----------------------------------------------------------------------------
(* The frames after a transfer.                                            *)

\* The counts of the frames that a transfer leaves.
LEMMA MovesCounts ==
  ASSUME TypeOK, Transfer, NEW new, Moves(new)
  PROVE  /\ Stays(new) /\ new[1].pc \in Resizing => new[1].n = Top.n
         /\ Flushes(new) => new[2].n = Top.n
         /\ Writes(new) => new[2].n = 0
<1>1. /\ stack # <<>> /\ Top = stack[1] /\ 1 \in DOMAIN stack /\ new \in Seq(Frame)
      /\ DOMAIN new = 1 .. Len(new) /\ Len(new) \in Nat
      /\ \A k \in 1 .. Len(new) : stack'[k] = new[k]
  BY MovesTypes
<1>2. stack \in Seq(Frame) /\ Top \in Frame /\ Top.n \in Nat /\ Top.to \in Desc /\ Top.file \in Desc
  BY <1>1, StackTypes, TopFrame
<1>3. \A label \in Label : Goto(label)[1].n = Top.n
  BY <1>1, <1>2 DEF Goto, Frame
<1>4. ASSUME Stays(new), new[1].pc \in Resizing
      PROVE  new[1].n = Top.n
  <2>1. new[1] = stack'[1]
    <3>1. Len(new) = 1
      BY <1>4 DEF Stays
    <3> QED BY <1>1, <3>1
  <2>2. CASE ResizeKeep \/ ResizeShrink
    <3>1. stack' = Goto("parent")
      BY <2>2 DEF ResizeKeep, ResizeShrink
    <3> QED BY <1>3, <2>1, <3>1 DEF Label
  <2>3. CASE ResizeGrow
    <3>1. stack' = Goto("grow")
      BY <2>3 DEF ResizeGrow
    <3> QED BY <1>3, <2>1, <3>1 DEF Label
  <2>4. CASE GrowSector \/ DiskFull
    BY <1>1, <2>1, <2>4 DEF GrowSector, DiskFull
  <2>5. CASE GrowDone
    <3>1. stack' = Goto("parent")
      BY <2>5 DEF GrowDone
    <3> QED BY <1>3, <2>1, <3>1 DEF Label
  <2> QED BY <1>4, <2>2, <2>3, <2>4, <2>5 DEF Stays, Resizing, Resizes
<1>5. ASSUME Flushes(new)
      PROVE  new[2].n = Top.n
  <2>1. Len(new) = 2 /\ stack' = Call(Flush(parent_directory[Top.file]), Goto("bits"))
    BY <1>5 DEF Flushes, ResizeParent
  <2>2. new[2] = stack'[2]
    BY <1>1, <2>1
  <2> DEFINE y == Flush(parent_directory[Top.file])
             x == [Top EXCEPT !.pc = "bits"]
  <2>3. y \in Frame
    <3>1. parent_directory[Top.file] \in Desc
      BY <1>2 DEF TypeOK
    <3> QED BY <3>1, FlushType
  <2>4. Call(y, Goto("bits")) = <<y, x>> \o Tail(stack)
    BY <1>1, <2>3, StackShapes DEF Label
  <2>5. x.n = Top.n
    BY <1>2 DEF Frame
  <2>6. x \in Frame
    BY <1>2, FrameUpdates DEF Label
  <2> HIDE DEF x, y
  <2>7. (<<y, x>> \o Tail(stack))[2] = x
    <3>1. Tail(stack) \in Seq(Frame)
      BY <1>1, <1>2
    <3> QED BY <2>3, <2>6, <3>1
  <2> QED BY <2>1, <2>2, <2>4, <2>5, <2>7 DEF y
<1>6. ASSUME Writes(new)
      PROVE  new[2].n = 0
  <2>1. Len(new) = 2
    BY <1>6 DEF Writes
  <2>2. new[2] = stack'[2]
    BY <1>1, <2>1
  <2>3. ASSUME NEW f \in Desc, NEW arr \in Seq(Token), stack' = CallWrite(f, arr, Return)
        PROVE  new[2].n = 0
    <3> DEFINE y == Resize(f, Len(arr))
               x == Write(f, arr)
    <3>1. y \in Frame /\ x \in Frame
      BY <2>3, ResizeType, WriteType
    <3>2. stack' = <<y, x>> \o Tail(stack)
      BY <1>1, <2>3, StackShapes
    <3>3. x.n = 0
      BY DEF Write, Activation
    <3> HIDE DEF x, y
    <3>4. (<<y, x>> \o Tail(stack))[2] = x
      <4>1. Tail(stack) \in Seq(Frame)
        BY <1>1, <1>2
      <4> QED BY <3>1, <4>1
    <3> QED BY <2>2, <3>2, <3>3, <3>4
  <2>4. CASE FlushMetadata
    <3>1. stack' = CallWrite(Top.file, Serialize(Top.file), Return)
      BY <2>4 DEF FlushMetadata
    <3>2. Serialize(Top.file) \in Seq(Token)
      BY <1>2, SerializeType
    <3> QED BY <1>2, <2>3, <3>1, <3>2
  <2>5. CASE CopyData
    <3>1. stack' = CallWrite(Top.to, Read(Top.file), Return)
      BY <2>5 DEF CopyData
    <3>2. Read(Top.file) \in Seq(Token)
      BY <1>2, ReadType
    <3> QED BY <1>2, <2>3, <3>1, <3>2
  <2> QED BY <1>6, <2>4, <2>5 DEF Writes
<1> QED BY <1>4, <1>5, <1>6

\* A write that waits has the entries its directory has now, as the innermost
\* frame works above that directory.
LEMMA CallersSerialize ==
  ASSUME TypeOK, TreeInv, Nesting, Transfer, NEW k \in DOMAIN stack, k > 1,
         stack[k].pc = "write", NEW d, d = stack[k].file
  PROVE  Serialize(d)' = Serialize(d)
<1>1. UNCHANGED tree /\ stack # <<>> /\ stack[1] = Top /\ 1 \in DOMAIN stack
  BY TransferTurns, TopFrame
<1>2. d \in Desc
  BY StackTypes
<1>3. Top.file \in Above(d)
  BY <1>1 DEF Nesting, WaitsFor
<1>4. ASSUME NEW i \in DOMAIN files[d]
      PROVE  size'[files[d][i]] = size[files[d][i]] /\ sectors'[files[d][i]] = sectors[files[d][i]]
  <2>1. files[d][i] \in live \ {Root} /\ parent_directory[files[d][i]] = d
    BY <1>2, EntryLinked DEF TreeInv
  <2>2. files[d][i] # Top.file
    BY <1>3, <2>1, NotAboveItself DEF TreeInv
  <2>3. files[d][i] \in Desc
    BY <2>1 DEF TypeOK
  <2> QED BY <2>2, <2>3, TransferSectors, TransferTurns DEF Turns
<1> QED BY <1>1, <1>2, <1>4, SameSerialize DEF tree

\* What waits for a call keeps its array: a flush of the same directory would
\* serialize the same entries.
LEMMA CallersContent ==
  ASSUME TypeOK, TreeInv, Nesting, EraseInv, FramesKept, ContentType, Transfer, AuditStep,
         NEW k \in DOMAIN stack, k > 1, stack[k].pc \in Resizing \cup {"write"},
         NEW f, f = stack[k].file
  PROVE  content'[f] = content[f]
<1>1. PICK new \in Seq(Frame) : Moves(new)
  BY TransferMoves
<1>2. stack # <<>> /\ stack[1] = Top /\ 1 \in DOMAIN stack
      /\ Len(stack) \in Nat /\ DOMAIN stack = 1 .. Len(stack)
  BY TransferTurns, TopFrame, StackTypes
<1>3. f \in live
  BY DEF TreeInv, StackInv, Holds
<1>4. CASE ~ (Writes(new) /\ f = new[2].file)
  BY <1>1, <1>3, <1>4, MovesContent
<1>5. CASE Writes(new) /\ f = new[2].file
  <2>1. content'[f] = new[2].array
    BY <1>1, <1>3, <1>5, MovesContent
  <2>2. ~ CopyData
    <3> SUFFICES ASSUME CopyData PROVE FALSE
      OBVIOUS
    <3>1. Top.pc = "copy"
      BY DEF CopyData, At
    <3>2. Len(stack) = 1
      BY <1>2, <3>1, CopyAlone DEF TreeInv
    <3> QED BY <1>2, <3>2
  <2>3. Top.pc = "flush" /\ Top.file = f /\ new[2].array = Serialize(f)
    BY <1>5, <2>2 DEF Writes
  <2>4. f \in Dirs
    BY <1>2, <2>3 DEF FramesKept, Kept, FlushesKept
  <2>5. CASE stack[k].pc = "write"
    BY <2>1, <2>3, <2>4, <2>5 DEF FramesKept, Kept, WritesKept
  <2>6. CASE stack[k].pc \in Resizing
    <3>1. /\ k + 1 \in DOMAIN stack
          /\ \/ stack[k + 1].pc = "write" /\ stack[k + 1].file = f
             \/ stack[k + 1].pc = "erase"
      BY <2>6 DEF FramesKept, Kept, ResizesKept
    <3>2. CASE stack[k + 1].pc = "write" /\ stack[k + 1].file = f
      BY <2>1, <2>3, <2>4, <3>1, <3>2 DEF FramesKept, Kept, WritesKept
    <3>3. CASE stack[k + 1].pc = "erase"
      <4> DEFINE m == k + 1
      <4>1. m \in DOMAIN stack /\ m - 1 = k /\ m > 1 /\ 1 < m - 1 /\ stack[m].pc = "erase"
        BY <1>2, <3>1, <3>3
      <4> HIDE DEF m
      <4>2. Erases(m)
        BY <4>1 DEF EraseInv
      <4>3. stack[k].file = stack[m].to /\ stack[1].file \in Above(stack[m].file)
        BY <1>2, <4>1, <4>2 DEF Erases
      <4>4. stack[m].to \in live \ {Root} /\ parent_directory[stack[m].to] = stack[m].file
        BY <4>1, RemovedLinked DEF TreeInv, Removing
      <4>5. f \notin Above(parent_directory[f])
        BY <4>3, <4>4, NotAboveItself DEF TreeInv
      <4> QED BY <1>2, <2>3, <4>3, <4>4, <4>5
    <3> QED BY <3>1, <3>2, <3>3
  <2> QED BY <2>5, <2>6
<1> QED BY <1>4, <1>5

\* The sizes of the files that are being resized below the innermost frame.
LEMMA CallersSize ==
  ASSUME TypeOK, FramesKept, Transfer, NEW k \in DOMAIN stack,
         stack[k].pc \in Resizing, size[stack[k].file] = stack[k].n,
         NEW f, f = stack[k].file
  PROVE  size'[f] = stack[k].n
<1>1. f \in Desc /\ stack # <<>> /\ stack[1] = Top /\ 1 \in DOMAIN stack
  BY StackTypes, TransferTurns, TopFrame
<1>2. CASE size' = size
  BY <1>2
<1>3. CASE f # Top.file
  BY <1>1, <1>3, TransferTurns DEF Turns
<1>4. CASE f = Top.file /\ size' # size
  <2>1. Top.pc = "resize" /\ size'[f] = Top.n
    BY <1>1, <1>4, TransferResizes
  <2>2. Top.n = Len(content[f])
    BY <1>1, <1>4, <2>1 DEF FramesKept, Kept, ResizesKept, Resizing
  <2>3. stack[k].n = Len(content[f])
    BY DEF FramesKept, Kept, ResizesKept
  <2> QED BY <2>1, <2>2, <2>3
<1> QED BY <1>2, <1>3, <1>4

\* The frames below the innermost one.
LEMMA CallerKept ==
  ASSUME TypeOK, TreeInv, Nesting, EraseInv, FramesKept, ContentType, Transfer, AuditStep,
         NEW new, Moves(new), NEW k \in DOMAIN stack, k > 1, NEW j, j = k + Len(new) - 1
  PROVE  Kept(j)'
<1> DEFINE n == Len(new)
           x == stack[k]
           f == x.file
           y == stack[k + 1]
<1>1. /\ n \in Nat /\ Len(stack) \in Nat /\ DOMAIN stack = 1 .. Len(stack)
      /\ DOMAIN stack' = 1 .. n + Len(stack) - 1 /\ UNCHANGED tree
      /\ \A i \in DOMAIN stack' : i > n => i - n + 1 \in DOMAIN stack /\ stack'[i] = stack[i - n + 1]
  BY MovesTypes
<1>2. k \in Nat /\ k \in 1 .. Len(stack)
  BY <1>1
<1> HIDE DEF n
<1>3. j = k + n - 1
  BY DEF n
<1>4. j \in DOMAIN stack' /\ stack'[j] = x
  <2>1. j \in 1 .. n + Len(stack) - 1 /\ j > n /\ j - n + 1 = k
    <3> DEFINE l == Len(stack)
    <3>1. n \in Nat /\ l \in Nat /\ k \in 1 .. l /\ k > 1 /\ j = k + n - 1
      BY <1>1, <1>2, <1>3
    <3> HIDE DEF l
    <3>2. j \in 1 .. n + l - 1 /\ j > n /\ j - n + 1 = k
      BY ONLY <3>1
    <3> QED BY ONLY <3>2 DEF l
  <2> QED BY <1>1, <2>1
<1>5. k + 1 \in DOMAIN stack => j + 1 \in DOMAIN stack' /\ stack'[j + 1] = y
  <2> SUFFICES ASSUME k + 1 \in DOMAIN stack
               PROVE  j + 1 \in DOMAIN stack' /\ stack'[j + 1] = y
    OBVIOUS
  <2>0. k + 1 \in 1 .. Len(stack)
    BY <1>1
  <2> DEFINE len == Len(stack)
  <2>a. n \in Nat /\ len \in Nat /\ k \in Nat /\ k >= 1 /\ k + 1 <= len /\ j = k + n - 1
    BY <1>1, <1>2, <1>3, <2>0
  <2> HIDE DEF len
  <2>1. j + 1 \in 1 .. n + len - 1 /\ j + 1 > n /\ (j + 1) - n + 1 = k + 1
    <3>1. j \in Int
      BY <2>a
    <3>2. j + 1 \in Int /\ j + 1 >= 1 /\ j + 1 <= n + len - 1
      BY <2>a, <3>1
    <3>3. j + 1 > n
      BY <2>a, <3>1
    <3>4. (j + 1) - n + 1 = k + 1
      BY <2>a, <3>1
    <3> QED BY <2>a, <3>2, <3>3, <3>4
  <2> QED BY <1>1, <2>1 DEF len
<1>6. Kept(k) /\ WaitsFor(k)
  BY DEF FramesKept, Nesting
<1>7. ASSUME x.pc \in Resizing \cup {"write"}, NEW e, e = f
      PROVE  content'[e] = content[e]
  BY <1>7, CallersContent
<1>8. x.pc = "write" => content'[x.file] = content[x.file]
  BY <1>7
<1>9. x.pc \in Resizing => content'[x.file] = content[x.file]
  BY <1>7
<1>10. x.pc = "write" =>
         \A e : e = x.file => content'[e] = x.array /\ x.n = 0
                              /\ (e \in Dirs => content'[e] = Serialize(e)')
  BY <1>6, <1>8, CallersSerialize DEF Kept, WritesKept
<1>11. x.pc \in Resizing /\ x.pc # "resize" => \A e : e = x.file => size'[e] = x.n
  BY <1>6, CallersSize DEF Kept, ResizesKept
<1>12. x.pc # "resize"
  BY <1>6 DEF WaitsFor
<1>13. WritesKept(j)'
  <2> HIDE DEF x
  <2> QED BY <1>4, <1>10 DEF WritesKept
<1>14. ResizesKept(j)'
  <2>1. x.pc \in Resizing => /\ x.n = Len(content[x.file]) /\ k + 1 \in DOMAIN stack
                             /\ \/ y.pc = "write" /\ y.file = x.file
                                \/ y.pc = "erase" /\ x.n = 0
    BY <1>6 DEF Kept, ResizesKept
  <2> HIDE DEF x, y
  <2> QED BY <1>4, <1>5, <1>9, <1>11, <1>12, <2>1 DEF ResizesKept
<1>15. FlushesKept(j)'
  BY <1>4, <1>6 DEF Kept, FlushesKept
<1> QED BY <1>13, <1>14, <1>15 DEF Kept

\* The frames that a transfer leaves on the top.
LEMMA NewKept ==
  ASSUME TypeOK, TypeOK', TreeInv, Nesting, Copies, FramesKept, ContentType, SizesFit,
         Transfer, AuditStep, NEW new, Moves(new), NEW j \in 1 .. Len(new)
  PROVE  Kept(j)'
<1> DEFINE f == Top.file
           n == Len(new)
<1>1. /\ n \in Nat /\ Len(stack) \in Nat /\ DOMAIN stack = 1 .. Len(stack)
      /\ DOMAIN stack' = 1 .. n + Len(stack) - 1 /\ UNCHANGED tree
      /\ stack # <<>> /\ Top = stack[1] /\ 1 \in DOMAIN stack
      /\ \A k \in 1 .. n : stack'[k] = new[k]
      /\ \A i \in DOMAIN stack' : i > n => i - n + 1 \in DOMAIN stack /\ stack'[i] = stack[i - n + 1]
  BY MovesTypes
<1>2. f \in live /\ f \in Desc /\ Top.n \in Nat
  BY <1>1, TopFrame DEF TreeInv, StackInv, Holds
<1>3. Kept(1)
  BY <1>1 DEF FramesKept
<1>4. CASE Stays(new)
  <2>1. n = 1 /\ j = 1 /\ stack'[1] = new[1] /\ new[1].file = f /\ ~ Writes(new)
    BY <1>1, <1>4 DEF Stays, Writes
  <2>2. content'[f] = content[f]
    BY <1>2, <2>1, MovesContent
  <2>3. 2 \in DOMAIN stack => 2 \in DOMAIN stack' /\ stack'[2] = stack[2]
    <3> SUFFICES ASSUME 2 \in DOMAIN stack PROVE 2 \in DOMAIN stack' /\ stack'[2] = stack[2]
      OBVIOUS
    <3>1. 2 \in DOMAIN stack' /\ 2 > n /\ 2 - n + 1 = 2
      BY <1>1, <2>1
    <3> QED BY <1>1, <3>1
  <2>4. CASE WriteSector
    <3>1. Top.pc = "write" /\ new[1].pc = "write" /\ new[1].array = Top.array
      <4>1. Top.pc = "write"
        BY <2>4 DEF WriteSector, At
      <4> QED BY <1>4, <4>1 DEF Stays
    <3>2. content[f] = Top.array /\ (f \in Dirs => content[f] = Serialize(f))
      BY <1>1, <1>3, <3>1 DEF Kept, WritesKept
    <3>3. \A e : e = f => Serialize(e)' = Serialize(e)
      <4>1. UNCHANGED <<files, name, size, sectors>>
        BY <2>4 DEF WriteSector, tree
      <4> QED BY <1>2, <4>1, SameSerialize
    <3>4. WritesKept(1)'
      <4> DEFINE x == new[1]
      <4>1. stack'[1] = x /\ x.file = f /\ x.array = content'[f]
            /\ (f \in Dirs => \A e : e = f => content'[f] = Serialize(e)')
        BY <2>1, <2>2, <3>1, <3>2, <3>3
      <4> HIDE DEF x
      <4> QED BY <4>1 DEF WritesKept
    <3>5. ResizesKept(1)' /\ FlushesKept(1)'
      BY <2>1, <3>1 DEF ResizesKept, FlushesKept, Resizing, Resizes
    <3> QED BY <2>1, <3>4, <3>5 DEF Kept
  <2>5. CASE ~ WriteSector
    <3>1. /\ Top.pc \in Resizing /\ new[1].pc \in Resizes
      BY <1>4, <2>5 DEF Stays, Resizing, Resizes
    <3>2. new[1].n = Top.n
      BY <1>4, <3>1, MovesCounts DEF Resizing
    <3>3. /\ Top.n = Len(content[f]) /\ 2 \in DOMAIN stack
          /\ \/ stack[2].pc = "write" /\ stack[2].file = f
             \/ stack[2].pc = "erase" /\ Top.n = 0
      BY <1>1, <1>3, <3>1 DEF Kept, ResizesKept
    <3>4. size'[f] = Top.n
      <4>1. CASE Top.pc # "resize"
        <5>1. size[f] = Top.n
          BY <1>1, <1>3, <3>1, <4>1 DEF Kept, ResizesKept
        <5> QED BY <1>1, <3>1, <5>1, CallersSize
      <4>2. CASE Top.pc = "resize"
        <5>1. size' = [size EXCEPT ![f] = Top.n]
          BY <1>4, <2>5, <4>2 DEF Stays, ResizeKeep, ResizeShrink, ResizeGrow
        <5> QED BY <1>2, <5>1 DEF TypeOK
      <4> QED BY <4>1, <4>2
    <3>5. ResizesKept(1)'
      <4> DEFINE x == new[1]
                 y == stack[2]
      <4>1. /\ stack'[1] = x /\ x.file = f /\ x.n = Len(content'[f]) /\ size'[f] = x.n
            /\ 1 + 1 \in DOMAIN stack' /\ stack'[1 + 1] = y
            /\ \/ y.pc = "write" /\ y.file = x.file
               \/ y.pc = "erase" /\ x.n = 0
        BY <2>1, <2>2, <2>3, <3>2, <3>3, <3>4
      <4> HIDE DEF x, y
      <4> QED BY <4>1 DEF ResizesKept
    <3>6. WritesKept(1)' /\ FlushesKept(1)'
      BY <2>1, <3>1 DEF WritesKept, FlushesKept, Resizes
    <3> QED BY <2>1, <3>5, <3>6 DEF Kept
  <2> QED BY <2>4, <2>5
<1>5. CASE Flushes(new)
  <2>1. /\ n = 2 /\ stack'[1] = new[1] /\ stack'[2] = new[2] /\ new[2].file = f
        /\ new[1].pc = "flush" /\ new[1].file = parent_directory[f] /\ new[2].pc = "bits"
        /\ Top.pc = "parent" /\ ResizeParent /\ ~ Writes(new)
    BY <1>1, <1>5 DEF Flushes, Writes
  <2>2. content'[f] = content[f]
    BY <1>2, <2>1, MovesContent
  <2>3. new[2].n = Top.n
    BY <1>5, MovesCounts
  <2>4. /\ Top.n = Len(content[f]) /\ 2 \in DOMAIN stack /\ size[f] = Top.n
        /\ \/ stack[2].pc = "write" /\ stack[2].file = f
           \/ stack[2].pc = "erase" /\ Top.n = 0
    BY <1>1, <1>3, <2>1 DEF Kept, ResizesKept, Resizing, Resizes
  <2>5. 3 \in DOMAIN stack' /\ stack'[3] = stack[2]
    <3>1. 3 \in DOMAIN stack' /\ 3 > n /\ 3 - n + 1 = 2
      BY <1>1, <2>1, <2>4
    <3> QED BY <1>1, <3>1
  <2>6. size'[f] = size[f]
    BY <2>1 DEF ResizeParent
  <2>7. CASE j = 1
    <3>1. parent_directory[f] \in Dirs
      BY <1>2 DEF TreeInv, Linked
    <3>2. FlushesKept(1)'
      BY <2>1, <3>1 DEF FlushesKept
    <3>3. WritesKept(1)' /\ ResizesKept(1)'
      BY <2>1 DEF WritesKept, ResizesKept, Resizing, Resizes
    <3> QED BY <2>7, <3>2, <3>3 DEF Kept
  <2>8. CASE j = 2
    <3>1. ResizesKept(2)'
      <4> DEFINE x == new[2]
                 y == stack[2]
      <4>1. /\ stack'[2] = x /\ x.file = f /\ x.n = Len(content'[f]) /\ size'[f] = x.n
            /\ 2 + 1 \in DOMAIN stack' /\ stack'[2 + 1] = y
            /\ \/ y.pc = "write" /\ y.file = x.file
               \/ y.pc = "erase" /\ x.n = 0
        BY <2>1, <2>2, <2>3, <2>4, <2>5, <2>6
      <4> HIDE DEF x, y
      <4> QED BY <4>1 DEF ResizesKept
    <3>2. WritesKept(2)' /\ FlushesKept(2)'
      BY <2>1 DEF WritesKept, FlushesKept
    <3> QED BY <2>8, <3>1, <3>2 DEF Kept
  <2> QED BY <2>1, <2>7, <2>8
<1>6. CASE Writes(new)
  <2> DEFINE g == new[2].file
  <2>1. /\ n = 2 /\ stack'[1] = new[1] /\ stack'[2] = new[2] /\ new[1].file = g
        /\ new[1].pc = "resize" /\ new[2].pc = "write" /\ new[1].n = Len(new[2].array)
    BY <1>1, <1>6 DEF Writes
  <2>2. 1 \in DOMAIN stack' /\ 2 \in DOMAIN stack'
    <3>1. 1 \in 1 .. 2 + Len(stack) - 1 /\ 2 \in 1 .. 2 + Len(stack) - 1
      BY <1>1
    <3> QED BY <1>1, <2>1, <3>1
  <2>3. g \in live
    <3>1. CASE CopyData
      <4>1. Top.pc = "copy"
        BY <3>1 DEF CopyData, At
      <4>2. g = Top.to
        BY <1>6, <4>1 DEF Writes
      <4> QED BY <1>1, <4>1, <4>2 DEF TreeInv, StackInv, Holds
    <3>2. CASE ~ CopyData
      <4>1. g = f
        BY <1>6, <3>2 DEF Writes
      <4> QED BY <1>2, <4>1
    <3> QED BY <3>1, <3>2
  <2>4. content'[g] = new[2].array
    BY <1>6, <2>3, MovesContent
  <2>5. new[2].n = 0
    BY <1>6, MovesCounts
  <2>6. g \in Dirs => \A e : e = g => new[2].array = Serialize(e)'
    <3> SUFFICES ASSUME g \in Dirs PROVE \A e : e = g => new[2].array = Serialize(e)'
      OBVIOUS
    <3>1. ~ CopyData
      <4> SUFFICES ASSUME CopyData PROVE FALSE
        OBVIOUS
      <4>1. Top.pc = "copy"
        BY DEF CopyData, At
      <4>2. g = Top.to
        BY <1>6, <4>1 DEF Writes
      <4> QED BY <1>1, <4>1, <4>2 DEF Copies
    <3>2. FlushMetadata /\ g = f /\ new[2].array = Serialize(f)
      BY <1>6, <3>1 DEF Writes
    <3>3. \A e : e = f => Serialize(e)' = Serialize(e)
      <4>1. UNCHANGED <<files, name, size, sectors>>
        BY <3>2 DEF FlushMetadata, tree
      <4> QED BY <1>2, <4>1, SameSerialize
    <3> QED BY <3>2, <3>3
  <2>7. CASE j = 1
    <3>1. ResizesKept(1)'
      <4> DEFINE x == new[1]
                 y == new[2]
      <4>1. /\ stack'[1] = x /\ x.file = g /\ x.n = Len(content'[g]) /\ x.pc = "resize"
            /\ 1 + 1 \in DOMAIN stack' /\ stack'[1 + 1] = y /\ y.pc = "write" /\ y.file = g
        BY <2>1, <2>2, <2>4
      <4> HIDE DEF x, y, g
      <4> QED BY <4>1 DEF ResizesKept
    <3>2. WritesKept(1)' /\ FlushesKept(1)'
      BY <2>1 DEF WritesKept, FlushesKept
    <3> QED BY <2>7, <3>1, <3>2 DEF Kept
  <2>8. CASE j = 2
    <3>1. WritesKept(2)'
      <4> DEFINE y == new[2]
      <4>1. /\ stack'[2] = y /\ y.file = g /\ y.n = 0 /\ content'[g] = y.array
            /\ g \in Dirs => \A e : e = g => content'[g] = Serialize(e)'
        BY <2>1, <2>4, <2>5, <2>6
      <4> HIDE DEF y, g
      <4> QED BY <4>1 DEF WritesKept
    <3>2. ResizesKept(2)' /\ FlushesKept(2)'
      BY <2>1 DEF ResizesKept, FlushesKept, Resizing, Resizes
    <3> QED BY <2>8, <3>1, <3>2 DEF Kept
  <2> QED BY <2>1, <2>7, <2>8
<1>7. CASE Pops(new)
  <2>1. Len(new) = 0
    BY <1>7 DEF Pops
  <2> QED BY <2>1
<1> QED BY <1>4, <1>5, <1>6, <1>7 DEF Moves

\* All frames after a transfer keep their arrays and sizes.
LEMMA TransferKept ==
  ASSUME TypeOK, TypeOK', TreeInv, Nesting, Copies, EraseInv, FramesKept, ContentType,
         SizesFit, Transfer, AuditStep
  PROVE  FramesKept'
<1>1. PICK new \in Seq(Frame) : Moves(new)
  BY TransferMoves
<1>2. /\ Len(new) \in Nat /\ Len(stack) \in Nat /\ DOMAIN stack = 1 .. Len(stack)
      /\ DOMAIN stack' = 1 .. Len(new) + Len(stack) - 1
      /\ \A i \in DOMAIN stack' : i > Len(new) => i - Len(new) + 1 \in DOMAIN stack
  BY <1>1, MovesTypes
<1> SUFFICES ASSUME NEW j \in DOMAIN stack' PROVE Kept(j)'
  BY DEF FramesKept
<1>3. CASE j > Len(new)
  <2> DEFINE k == j - Len(new) + 1
  <2>1. k \in DOMAIN stack /\ k > 1 /\ j = k + Len(new) - 1
    BY <1>2, <1>3
  <2> HIDE DEF k
  <2> QED BY <1>1, <2>1, CallerKept
<1>4. CASE ~ (j > Len(new))
  <2>1. j \in 1 .. Len(new)
    BY <1>2, <1>4
  <2> QED BY <1>1, <2>1, NewKept
<1> QED BY <1>3, <1>4

-----------------------------------------------------------------------------
(* The files after a transfer.                                             *)

\* Nothing of a file changes.
LEMMA SameRecorded ==
  ASSUME TypeOK, NEW f \in Desc, Recorded(f), size'[f] = size[f], content'[f] = content[f],
         \A t : Stored(f, t)' = Stored(f, t)
  PROVE  Recorded(f)'
BY DEF Recorded

\* A file that is removed or new is empty.
LEMMA EmptyRecorded ==
  ASSUME NEW f, size'[f] = 0, Len(content'[f]) = 0
  PROVE  Recorded(f)'
BY DEF Recorded

\* A frame below the innermost one goes on.
LEMMA CallerStays ==
  ASSUME TypeOK, Transfer, NEW new, Moves(new), NEW k \in DOMAIN stack, k > 1,
         stack[k].pc \in Resizing \cup {"write"}, NEW f, f = stack[k].file
  PROVE  InTransfer(f)'
<1> DEFINE n == Len(new)
           j == k + n - 1
           len == Len(stack)
<1>1. /\ n \in Nat /\ len \in Nat /\ DOMAIN stack = 1 .. len
      /\ DOMAIN stack' = 1 .. n + len - 1
      /\ \A i \in DOMAIN stack' : i > n => i - n + 1 \in DOMAIN stack /\ stack'[i] = stack[i - n + 1]
  BY MovesTypes
<1> HIDE DEF n, len
<1>2. j \in 1 .. n + len - 1 /\ j > n /\ j - n + 1 = k
  <2>1. k \in Nat /\ k <= len /\ k > 1
    BY <1>1
  <2> QED BY <1>1, <2>1
<1>3. j \in DOMAIN stack' /\ stack'[j] = stack[k]
  BY <1>1, <1>2
<1> QED BY <1>3 DEF InTransfer

\* The files that the innermost frame does not work on.
LEMMA OtherSettled ==
  ASSUME TypeOK, SectorsInv, SizesFit, ContentType, DeadEmpty, Settled, Transfer, AuditStep,
         NEW f \in Desc, f # Top.file
  PROVE  InTransfer(f)' \/ Recorded(f)'
<1>1. PICK new \in Seq(Frame) : Moves(new)
  BY TransferMoves
<1>2. /\ stack # <<>> /\ Top = stack[1] /\ Len(stack) \in Nat /\ DOMAIN stack = 1 .. Len(stack)
      /\ DOMAIN stack' = 1 .. Len(new) + Len(stack) - 1 /\ Len(stack) > 0
      /\ \A k \in 1 .. Len(new) : stack'[k] = new[k]
  <2>1. Len(stack) > 0
    BY TransferTurns, StackTypes, TopFrame
  <2> QED BY <1>1, <2>1, MovesTypes
<1>3. CASE InTransfer(f)
  <2>1. PICK k \in DOMAIN stack : stack[k].file = f /\ stack[k].pc \in Resizing \cup {"write"}
    BY <1>3 DEF InTransfer
  <2>2. k > 1
    BY <1>2, <2>1
  <2> QED BY <1>1, <2>1, <2>2, CallerStays
<1>4. CASE ~ InTransfer(f) /\ Writes(new) /\ f = new[2].file
  <2>1. Len(new) = 2 /\ new[2].pc = "write"
    BY <1>4 DEF Writes
  <2>2. 2 \in DOMAIN stack' /\ stack'[2] = new[2]
    <3>1. 2 \in 1 .. Len(new) /\ 2 \in 1 .. Len(new) + Len(stack) - 1
      BY <1>2, <2>1
    <3> QED BY <1>2, <3>1
  <2> QED BY <1>4, <2>1, <2>2 DEF InTransfer
<1>5. CASE ~ InTransfer(f) /\ ~ (Writes(new) /\ f = new[2].file)
  <2>1. Recorded(f)
    BY <1>5 DEF Settled
  <2>2. size'[f] = size[f] /\ \A t : Stored(f, t)' = Stored(f, t)
    BY TransferStored
  <2>3. CASE f \in live
    <3>1. content'[f] = content[f]
      BY <1>1, <1>5, <2>3, MovesContent
    <3> QED BY <2>1, <2>2, <3>1, SameRecorded
  <2>4. CASE f \notin live
    <3>1. content'[f] = <<>>
      BY <1>1, <2>4, MovesContent
    <3>2. size'[f] = 0
      BY <2>2, <2>4 DEF DeadEmpty
    <3> QED BY <3>1, <3>2, EmptyRecorded
  <2> QED BY <2>3, <2>4
<1> QED BY <1>3, <1>4, <1>5

\* A step that changes nothing on the disk and no file.
LEMMA StillStored ==
  ASSUME UNCHANGED <<sectors, disk>>
  PROVE  \A f, t : Stored(f, t)' = Stored(f, t)
BY DEF Stored, Slot

\* The file of the innermost frame.
LEMMA TopSettled ==
  ASSUME TypeOK, TreeInv, ContentType, Settled, FramesKept, TopWrites, Transfer, AuditStep,
         NEW f, f = Top.file
  PROVE  InTransfer(f)' \/ Recorded(f)'
<1>1. PICK new \in Seq(Frame) : Moves(new)
  BY TransferMoves
<1> DEFINE len == Len(stack)
           n == Len(new)
<1>2. /\ stack # <<>> /\ Top = stack[1] /\ 1 \in DOMAIN stack /\ len \in Nat
      /\ DOMAIN stack = 1 .. len /\ n \in Nat
      /\ DOMAIN stack' = 1 .. n + len - 1 /\ len > 0
      /\ \A k \in 1 .. n : stack'[k] = new[k]
      /\ \A i \in DOMAIN stack' : i > n => i - n + 1 \in DOMAIN stack /\ stack'[i] = stack[i - n + 1]
  <2>1. Len(stack) > 0
    BY TransferTurns, StackTypes, TopFrame
  <2> QED BY <1>1, <2>1, MovesTypes
<1>3. f \in live /\ f \in Desc /\ size[f] \in Nat /\ Kept(1) /\ Top.n \in Nat
  BY <1>2, TopFrame DEF TreeInv, StackInv, Holds, FramesKept, TypeOK
<1>4. \A k \in 1 .. n : k \in DOMAIN stack' /\ stack'[k] = new[k]
  <2> HIDE DEF n, len
  <2> SUFFICES ASSUME NEW k \in 1 .. n PROVE k \in DOMAIN stack' /\ stack'[k] = new[k]
    OBVIOUS
  <2>1. k \in 1 .. n + len - 1
    BY <1>2
  <2> QED BY <1>2, <2>1
<1>5. \A k \in 1 .. n : new[k].file = f /\ new[k].pc \in Resizing \cup {"write"} => InTransfer(f)'
  BY <1>4 DEF InTransfer
<1>6. CASE Stays(new)
  <2>1. 1 \in 1 .. n /\ new[1].file = f /\ new[1].pc \in Resizing \cup {"write"}
    BY <1>6 DEF Stays, Resizing, Resizes
  <2> QED BY <1>5, <2>1
<1>7. CASE Flushes(new)
  <2>1. 2 \in 1 .. n /\ new[2].file = f /\ new[2].pc \in Resizing \cup {"write"}
    BY <1>7 DEF Flushes, Resizing, Resizes
  <2> QED BY <1>5, <2>1
<1>8. CASE Writes(new) /\ new[2].file = f
  <2>1. 2 \in 1 .. n /\ new[2].pc \in Resizing \cup {"write"}
    BY <1>8 DEF Writes
  <2> QED BY <1>5, <1>8, <2>1
<1>9. CASE Writes(new) /\ new[2].file # f
  <2>1. CopyData /\ Top.pc = "copy" /\ UNCHANGED <<size, sectors, disk>>
    BY <1>9 DEF Writes, CopyData, At, ondisk
  <2>2. len = 1
    BY <1>2, <2>1, CopyAlone DEF TreeInv
  <2>3. ~ InTransfer(f)
    BY <1>2, <2>1, <2>2 DEF InTransfer, Resizing, Resizes
  <2>4. Recorded(f)
    BY <1>3, <2>3 DEF Settled
  <2>5. content'[f] = content[f]
    BY <1>1, <1>3, <1>9, MovesContent
  <2> QED BY <1>3, <2>1, <2>4, <2>5, StillStored, SameRecorded
<1>10. CASE Pops(new)
  <2>1. UNCHANGED <<size, sectors, disk>> /\ n = 0 /\ ~ Writes(new)
    BY <1>10 DEF Pops, Writes, WriteDone, ResizeSame, ResizeBits, ondisk
  <2>2. content'[f] = content[f]
    BY <1>1, <1>3, <2>1, MovesContent
  <2>3. CASE WriteDone
    <3> DEFINE product == Top.n * SectorSize
    <3>1. Top.pc = "write" /\ product >= size[f]
      BY <2>3 DEF WriteDone, At
    <3>2. product \in Nat
      BY <1>3, SizesAssumption
    <3>3. \A t \in 1 .. size[f] : t <= product
      <4> HIDE DEF product
      <4> QED BY <1>3, <3>1, <3>2
    <3>4. Recorded(f)
      BY <1>2, <3>1, <3>3 DEF TopWrites, Recorded
    <3> QED BY <1>3, <2>1, <2>2, <3>4, StillStored, SameRecorded
  <2>4. CASE ResizeSame \/ ResizeBits
    <3>1. Top.pc \in Resizing /\ size[f] = Top.n
      BY <1>2, <1>3, <2>4 DEF ResizeSame, ResizeBits, At, Resizing, Resizes, Kept, ResizesKept
    <3>2. /\ Top.n = Len(content[f]) /\ 2 \in DOMAIN stack
          /\ \/ stack[2].pc = "write" /\ stack[2].file = f
             \/ stack[2].pc = "erase" /\ Top.n = 0
      BY <1>2, <1>3, <3>1 DEF Kept, ResizesKept
    <3>3. CASE stack[2].pc = "write" /\ stack[2].file = f
      <4>1. 2 > 1
        OBVIOUS
      <4> QED BY <1>1, <3>2, <3>3, <4>1, CallerStays
    <3>4. CASE Top.n = 0
      BY <2>1, <2>2, <3>1, <3>2, <3>4, EmptyRecorded
    <3> QED BY <3>2, <3>3, <3>4
  <2> QED BY <1>10, <2>3, <2>4 DEF Pops
<1> QED BY <1>1, <1>6, <1>7, <1>8, <1>9, <1>10 DEF Moves

\* After a transfer every file reads as written, or is being written.
LEMMA TransferSettled ==
  ASSUME TypeOK, TreeInv, SectorsInv, SizesFit, ContentInv, Transfer, AuditStep
  PROVE  Settled'
<1> SUFFICES ASSUME NEW f \in Desc PROVE InTransfer(f)' \/ Recorded(f)'
  BY DEF Settled
<1>1. CASE f # Top.file
  BY <1>1, OtherSettled DEF ContentInv
<1>2. CASE f = Top.file
  BY <1>2, TopSettled DEF ContentInv
<1> QED BY <1>1, <1>2

\* The write that goes on, or the one that the resize has returned to.
LEMMA TransferTopWrites ==
  ASSUME TypeOK, TypeOK', TreeInv, Nesting, SectorsInv, SizesFit, ContentInv, Transfer, AuditStep
  PROVE  TopWrites'
<1> SUFFICES ASSUME stack' # <<>>, Top'.pc = "write",
                    NEW f, f = Top'.file, NEW n, n = Top'.n
             PROVE  /\ size'[f] = Len(content'[f])
                    /\ \A t \in 1 .. size'[f] :
                         t <= n * SectorSize => Stored(f, t)' = content'[f][t]
  BY DEF TopWrites
<1>1. PICK new \in Seq(Frame) : Moves(new)
  BY TransferMoves
<1>2. /\ stack # <<>> /\ Top = stack[1] /\ 1 \in DOMAIN stack /\ FramesKept /\ TopWrites /\ ContentType
      /\ Len(new) = 0 => 2 \in DOMAIN stack /\ Top' = stack[2]
      /\ Len(new) # 0 => Top' = new[1]
  BY <1>1, MovesTop, TransferTurns, TopFrame DEF ContentInv
<1>3. CASE Stays(new)
  <2>1. Len(new) = 1 /\ WriteSector /\ Top.pc = "write" /\ new[1].array = Top.array /\ Top' = new[1]
        /\ f = Top.file /\ ~ Writes(new)
    BY <1>2, <1>3 DEF Stays, Writes
  <2>2. f \in live /\ Top.n \in Nat
    BY <1>2, <2>1, TopFrame DEF TreeInv, StackInv, Holds
  <2>3. content'[f] = content[f] /\ content[f] = Top.array /\ size'[f] = size[f]
    <3>1. content'[f] = content[f]
      BY <1>1, <1>2, <2>1, <2>2, MovesContent
    <3>2. content[f] = Top.array
      BY <1>2, <2>1 DEF FramesKept, Kept, WritesKept
    <3> QED BY <2>1, <3>1, <3>2 DEF WriteSector
  <2>4. n = Top.n + 1
    <3>1. stack' = [stack EXCEPT ![1].n = @ + 1] /\ stack \in Seq(Frame)
      BY <2>1, StackTypes DEF WriteSector
    <3>2. stack' = <<[Top EXCEPT !.n = Top.n + 1]>> \o Tail(stack)
      <4>1. stack' = [stack EXCEPT ![1].n = Top.n + 1]
        BY <1>2, <3>1
      <4>2. Top.n + 1 \in Nat
        BY <2>2
      <4> QED BY <1>2, <4>1, <4>2, StackShapes
    <3> DEFINE x == [Top EXCEPT !.n = Top.n + 1]
    <3>3. x \in Frame /\ x.n = Top.n + 1
      <4>1. Top \in Frame
        BY <1>2, TopFrame
      <4> QED BY <2>2, <4>1 DEF Frame
    <3>4. Tail(stack) \in Seq(Frame)
      BY <1>2, <3>1
    <3> HIDE DEF x
    <3>5. Head(<<x>> \o Tail(stack)) = x
      BY <3>3, <3>4
    <3>6. Top' = Head(stack')
      BY DEF Top
    <3> QED BY <3>2, <3>3, <3>5, <3>6 DEF x
  <2> DEFINE m == Top.n
             arr == Top.array
  <2>5. size[f] = Len(arr) /\ \A t \in 1 .. size[f] : t <= m * SectorSize => Stored(f, t) = arr[t]
    BY <1>2, <2>1, <2>3 DEF TopWrites
  <2>6. f = Top.file /\ m = Top.n /\ arr = Top.array /\ WriteSector
    BY <2>1
  <2>7. \A t \in 1 .. size[f] : t <= (m + 1) * SectorSize => Stored(f, t)' = arr[t]
    <3> SUFFICES ASSUME NEW i, i = m, NEW a, a = arr
                 PROVE  \A t \in 1 .. size[f] : t <= (i + 1) * SectorSize => Stored(f, t)' = a[t]
      OBVIOUS
    <3> HIDE DEF m, arr
    <3> QED BY <2>5, <2>6, WriteExtends
  <2>8. n = m + 1
    BY <2>4
  <2> HIDE DEF m, arr
  <2> QED BY <2>3, <2>5, <2>6, <2>7, <2>8
<1>4. CASE Pops(new)
  <2>1. Len(new) = 0 /\ ~ Writes(new) /\ 2 \in DOMAIN stack /\ Top' = stack[2]
    BY <1>2, <1>4 DEF Pops, Writes
  <2>2. WaitsFor(2)
    BY <2>1 DEF Nesting
  <2>3. stack[2].pc = "write" /\ stack[2].file = f /\ stack[2].n = n
    BY <2>1
  <2>4. Top.file = f /\ Top.pc \in Resizing
    <3>1. 2 - 1 = 1
      OBVIOUS
    <3> QED BY <1>2, <2>2, <2>3, <3>1 DEF WaitsFor, Resizing
  <2>5. n = 0
    <3>1. Kept(2) /\ 2 > 1
      BY <1>2, <2>1 DEF FramesKept
    <3> QED BY <2>3, <3>1 DEF Kept, WritesKept
  <2>6. ResizeSame \/ ResizeBits
    BY <1>4, <2>4 DEF Pops, WriteDone, At, Resizing, Resizes
  <2>7. f \in live /\ f \in Desc /\ size[f] \in Nat
    BY <1>2, <2>4 DEF TreeInv, StackInv, Holds, TypeOK
  <2>8. size[f] = Len(content[f])
    BY <1>2, <2>4, <2>6 DEF FramesKept, Kept, ResizesKept, ResizeSame, ResizeBits, At, Resizing, Resizes
  <2>9. content'[f] = content[f] /\ size' = size
    BY <1>1, <1>2, <2>1, <2>6, <2>7, MovesContent DEF ResizeSame, ResizeBits
  <2>10. n * SectorSize = 0
    BY <2>5, SizesAssumption
  <2> DEFINE product == n * SectorSize
  <2>11. \A t \in 1 .. size'[f] : ~ (t <= product)
    <3>1. product = 0
      BY <2>10
    <3> HIDE DEF product
    <3> QED BY <2>7, <2>9, <3>1
  <2> QED BY <2>8, <2>9, <2>11
<1>5. CASE Flushes(new)
  BY <1>2, <1>5 DEF Flushes
<1>6. CASE Writes(new)
  BY <1>2, <1>6 DEF Writes
<1> QED BY <1>1, <1>3, <1>4, <1>5, <1>6 DEF Moves

\* Writing, resizing and flushing keep what is written.
LEMMA TransferContent ==
  ASSUME TypeOK, TypeOK', LeakInv, SavingInv, ContentInv, Transfer, AuditStep
  PROVE  ContentInv'
<1>1. TreeInv /\ SectorsInv /\ SizesFit /\ EraseInv /\ Nesting /\ Copies
  BY DEF LeakInv, SavingInv
<1>2. ContentType /\ DeadEmpty /\ FramesKept
  BY DEF ContentInv
<1>3. ContentType'
  BY <1>2, TransferMoves, MovesContent
<1>4. Settled'
  BY <1>1, TransferSettled
<1>5. FramesKept'
  BY <1>1, <1>2, TransferKept
<1>6. TopWrites'
  BY <1>1, TransferTopWrites
<1>7. DeadEmpty'
  <2>1. stack # <<>> /\ live' = live /\ \A g \in Desc : g # Top.file => size'[g] = size[g]
    BY TransferTurns DEF Turns, tree
  <2>2. Top.file \in live
    BY <1>1, <2>1, TopFrame DEF TreeInv, StackInv, Holds
  <2> QED BY <1>2, <2>1, <2>2 DEF DeadEmpty
<1> QED BY <1>3, <1>4, <1>5, <1>6, <1>7 DEF ContentInv

-----------------------------------------------------------------------------
(* The calls that start, and those that remove.                            *)

\* A step that finds no transfer under way and starts none, but for the
\* resize of a file that is being removed.
LEMMA QuietContent ==
  ASSUME TypeOK, TypeOK', TreeInv', ContentInv, AuditStep, disk' = disk, Quiet',
         \A k \in DOMAIN stack : stack[k].pc \notin Resizing \cup {"write"},
         \A k \in DOMAIN stack' :
           stack'[k].pc = "resize" => At("remove") /\ Len(stack') = Len(stack) + 1,
         \A f \in Desc : \/ /\ size'[f] = size[f] /\ sectors'[f] = sectors[f]
                            /\ f \in live => f \in live'
                         \/ f \notin live' /\ size'[f] = 0
  PROVE  ContentInv'
<1>1. ContentType /\ DeadEmpty /\ Settled
  BY DEF ContentInv
<1>2. /\ stack' \in Seq(Frame) /\ Len(stack') \in Nat /\ DOMAIN stack' = 1 .. Len(stack')
      /\ Len(stack) \in Nat /\ live' \subseteq Desc
  BY StackTypes DEF TypeOK
<1>3. \A f \in Desc : content'[f] = Written(f) /\ content[f] \in Seq(Token)
  BY <1>1 DEF AuditStep, ContentType
<1>4. Len(stack') > Len(stack) =>
        1 \in DOMAIN stack' /\ Head(stack') = stack'[1] /\ stack'[1] \in Frame
        /\ stack'[1].file \in live'
  <2> SUFFICES ASSUME Len(stack') > Len(stack)
               PROVE  1 \in DOMAIN stack' /\ Head(stack') = stack'[1] /\ stack'[1] \in Frame
                      /\ stack'[1].file \in live'
    OBVIOUS
  <2>1. 1 \in DOMAIN stack'
    <3> DEFINE m == Len(stack)
               n == Len(stack')
    <3>1. m \in Nat /\ n \in Nat /\ n > m /\ DOMAIN stack' = 1 .. n
      BY <1>2
    <3> HIDE DEF m, n
    <3>2. 1 \in 1 .. n
      BY <3>1
    <3> QED BY <3>1, <3>2
  <2>2. Head(stack') = stack'[1] /\ stack'[1] \in Frame
    <3> DEFINE new == stack'
    <3>1. new \in Seq(Frame) /\ 1 \in DOMAIN new
      BY <1>2, <2>1
    <3> HIDE DEF new
    <3>2. Head(new) = new[1] /\ new[1] \in Frame
      BY ONLY <3>1
    <3> QED BY <3>2 DEF new
  <2>3. stack'[1].file \in live'
    BY <2>1 DEF TreeInv, StackInv, Holds
  <2> QED BY <2>1, <2>2, <2>3
<1>5. \A f \in Desc : \/ f \in live' /\ content'[f] = content[f]
                      \/ f \in live' /\ content'[f] = <<>> /\ InTransfer(f)'
                      \/ f \notin live' /\ content'[f] = <<>>
  <2> SUFFICES ASSUME NEW f \in Desc, f \in live', content'[f] # content[f]
               PROVE  content'[f] = <<>> /\ InTransfer(f)'
    BY <1>3 DEF Written
  <2>1. Len(stack') > Len(stack) /\ Head(stack').file = f /\ Head(stack').pc = "resize"
    BY <1>3 DEF Written
  <2>2. At("remove")
    BY <1>4, <2>1
  <2>3. content'[f] = <<>>
    BY <1>3, <2>1, <2>2 DEF Written
  <2>4. InTransfer(f)'
    BY <1>4, <2>1 DEF InTransfer, Resizing
  <2> QED BY <2>3, <2>4
<1>6. ContentType'
  <2>1. <<>> \in Seq(Token)
    OBVIOUS
  <2>2. \A f \in Desc : content'[f] \in Seq(Token)
    BY <1>3, <1>5, <2>1
  <2>3. content' = [f \in Desc |-> Written(f)]
    BY DEF AuditStep
  <2> QED BY <2>2, <2>3 DEF ContentType
<1>7. DeadEmpty'
  BY <1>1 DEF DeadEmpty
<1>8. Settled'
  <2> SUFFICES ASSUME NEW f \in Desc, ~ InTransfer(f)' PROVE Recorded(f)'
    BY DEF Settled
  <2>1. Recorded(f)
    BY <1>1 DEF Settled, InTransfer
  <2>2. CASE f \in live'
    <3>1. size'[f] = size[f] /\ sectors'[f] = sectors[f] /\ content'[f] = content[f]
      BY <1>5, <2>2
    <3>2. \A t : Stored(f, t)' = Stored(f, t)
      BY <3>1 DEF Stored, Slot
    <3> QED BY <2>1, <3>1, <3>2, SameRecorded
  <2>3. CASE f \notin live'
    <3>1. size'[f] = 0 /\ content'[f] = <<>>
      BY <1>5, <1>7, <2>3 DEF DeadEmpty
    <3> QED BY <3>1, EmptyRecorded
  <2> QED BY <2>2, <2>3
<1>9. FramesKept'
  <2> SUFFICES ASSUME NEW k \in DOMAIN stack' PROVE Kept(k)'
    BY DEF FramesKept
  <2>1. QuietFrame(k)'
    BY DEF Quiet
  <2>2. WritesKept(k)' /\ FlushesKept(k)'
    BY <2>1 DEF QuietFrame, WritesKept, FlushesKept
  <2>3. CASE stack'[k].pc # "resize"
    BY <2>1, <2>2, <2>3 DEF QuietFrame, Kept, ResizesKept, Resizing, Resizes
  <2>4. CASE stack'[k].pc = "resize"
    <3>1. k = 1 /\ stack'[k].n = 0 /\ 1 + 1 \in DOMAIN stack' /\ stack'[1 + 1].pc = "erase"
      BY <2>1, <2>4 DEF QuietFrame
    <3>2. content'[stack'[1].file] = <<>>
      <4> DEFINE f == stack'[1].file
      <4>1. Len(stack') > Len(stack) /\ At("remove")
        <5> DEFINE m == Len(stack)
        <5>1. At("remove") /\ Len(stack') = m + 1 /\ m \in Nat
          BY <1>2, <2>4
        <5> HIDE DEF m
        <5>2. m + 1 > m
          BY <5>1
        <5> QED BY <5>1, <5>2 DEF m
      <4>2. f \in live' /\ Head(stack').file = f /\ Head(stack').pc = "resize"
        BY <1>4, <2>4, <3>1, <4>1
      <4> HIDE DEF f
      <4>3. content'[f] = <<>>
        <5>1. f \in Desc
          BY <1>2, <4>2
        <5>2. ~ (Len(stack') <= Len(stack))
          <6> DEFINE m == Len(stack)
                     n == Len(stack')
          <6>1. m \in Nat /\ n \in Nat /\ n > m
            BY <1>2, <4>1
          <6> HIDE DEF m, n
          <6>2. ~ (n <= m)
            BY <6>1
          <6> QED BY <6>2 DEF m, n
        <5>3. Written(f) = <<>>
          BY <4>1, <4>2, <5>2 DEF Written
        <5> QED BY <1>3, <5>1, <5>3
      <4> QED BY <4>3 DEF f
    <3>3. ResizesKept(1)'
      <4> DEFINE x == stack'[1]
                 y == stack'[1 + 1]
      <4>1. x.n = Len(content'[x.file]) /\ x.pc = "resize" /\ 1 + 1 \in DOMAIN stack' /\ y.pc = "erase" /\ x.n = 0
        BY <2>4, <3>1, <3>2
      <4> QED BY <4>1 DEF ResizesKept
    <3> QED BY <2>2, <3>1, <3>3 DEF Kept
  <2> QED BY <2>3, <2>4
<1>10. TopWrites'
  <2>1. stack' # <<>> => 1 \in DOMAIN stack' /\ Top' = stack'[1]
    <3> DEFINE new == stack'
    <3>1. new \in Seq(Frame)
      BY <1>2
    <3>2. Top' = Head(new)
      BY DEF Top
    <3> HIDE DEF new
    <3>3. new # <<>> => 1 \in DOMAIN new /\ Head(new) = new[1]
      BY ONLY <3>1
    <3> QED BY <3>2, <3>3 DEF new
  <2> QED BY <2>1 DEF TopWrites, Quiet, QuietFrame
<1> QED BY <1>6, <1>7, <1>8, <1>9, <1>10 DEF ContentInv

\* So does the removal of a file or of a directory.
LEMMA RemovalContent ==
  ASSUME TypeOK, TypeOK', LeakInv, LeakInv', ContentInv, AuditStep,
         RemoveChild \/ RemoveErase \/ DeleteNext
  PROVE  ContentInv'
<1>1. TreeInv /\ TreeInv' /\ stack # <<>> /\ Top.pc \in {"remove", "erase", "delete"} /\ disk' = disk
  BY DEF LeakInv, RemoveChild, RemoveErase, DeleteNext, At, ondisk
<1>2. \A k \in DOMAIN stack : stack[k].pc \notin Resizing \cup {"write"}
  BY <1>1, OnlyRemoving DEF TreeInv, Resizing, Resizes
<1>3. CASE RemoveChild
  <2>1. At("remove") /\ UNCHANGED <<live, size, sectors>>
    BY <1>3 DEF RemoveChild, tree
  <2> QED BY <1>1, <1>2, <1>3, <2>1, RemoveChildQuiet, QuietContent
<1>4. CASE DeleteNext
  <2>1. UNCHANGED <<live, size, sectors>>
    BY <1>4 DEF DeleteNext, tree
  <2> QED BY <1>1, <1>2, <1>4, <2>1, DeleteNextQuiet, QuietContent
<1>5. CASE RemoveErase
  <2> DEFINE d == files[Top.file][Top.n]
  <2>1. sectors' = sectors
    BY <1>1, <1>5, ErasedIsEmpty DEF LeakInv
  <2>2. live' = live \ {d} /\ size' = [size EXCEPT ![d] = 0] /\ size \in [Desc -> Nat]
    BY <1>5 DEF RemoveErase, TypeOK
  <2> HIDE DEF d
  <2>3. \A f \in Desc : \/ size'[f] = size[f] /\ sectors'[f] = sectors[f] /\ (f \in live => f \in live')
                        \/ f \notin live' /\ size'[f] = 0
    BY <2>1, <2>2
  <2> QED BY <1>1, <1>2, <1>5, <2>3, RemoveEraseQuiet, QuietContent
<1> QED BY <1>3, <1>4, <1>5

\* What a request but write() starts.
Asks(frame) ==
  /\ frame.pc \in {"remove", "delete", "copy", "flush"}
  /\ frame.pc = "copy" => frame.to \notin Dirs
  /\ frame.pc = "flush" => frame.file \in Dirs

WriteRequest ==
  \E f \in OpenFiles \ Dirs, n \in 0 .. MaxFile, v \in Data :
    WriteFile(f, [i \in 1 .. n |-> <<"data", v>>])

\* No request but write() changes a size, or asks to change one at once.
LEMMA RequestFrames ==
  ASSUME Careful, TypeOK, TreeInv, Request, ~ WriteRequest
  PROVE  /\ Idle /\ UNCHANGED <<size, sectors, bits, ondisk, halted>> /\ live \subseteq live'
         /\ \E x, y : Asks(x) /\ Asks(y) /\ (stack' = <<x>> \/ stack' = <<x, y>>)
<1>1. OpenDirs \subseteq Dirs \cap live /\ OpenFiles \subseteq live
  BY OpenLinked DEF TreeInv
<1>2. \A d \in Dirs : Asks(Flush(d))
  BY DEF Flush, Activation, Asks
<1>3. \A f, g : g \notin Dirs => Asks(Copy(f, g))
  BY DEF Copy, Activation, Asks
<1>4. \A d, nm : Asks(Delete(d, nm))
  BY DEF Delete, Activation, Asks
<1>5. \A d, index : Asks(Discard(d, index))
  BY DEF Discard, Activation, Asks
<1>6. ASSUME NEW d \in OpenDirs, NEW nm \in Names, CreateFile(d, nm)
      PROVE  /\ Idle /\ UNCHANGED <<size, sectors, bits, ondisk, halted>> /\ live \subseteq live'
             /\ \E x, y : Asks(x) /\ Asks(y) /\ (stack' = <<x>> \/ stack' = <<x, y>>)
  <2>1. Idle /\ UNCHANGED <<size, sectors, bits, ondisk, halted>> /\ live \subseteq live'
        /\ stack' = <<Flush(d)>>
    BY <1>6 DEF CreateFile, AddFile
  <2>2. Asks(Flush(d))
    BY <1>1, <1>2
  <2> QED BY <2>1, <2>2
<1>7. ASSUME NEW f \in OpenFiles, DeleteFile(f)
      PROVE  /\ Idle /\ UNCHANGED <<size, sectors, bits, ondisk, halted>> /\ live \subseteq live'
             /\ \E x, y : Asks(x) /\ Asks(y) /\ (stack' = <<x>> \/ stack' = <<x, y>>)
  BY <1>4, <1>7 DEF DeleteFile, tree
<1>8. ASSUME NEW d \in OpenDirs, NEW index \in DOMAIN files[d], RemoveFile(d, index)
      PROVE  /\ Idle /\ UNCHANGED <<size, sectors, bits, ondisk, halted>> /\ live \subseteq live'
             /\ \E x, y : Asks(x) /\ Asks(y) /\ (stack' = <<x>> \/ stack' = <<x, y>>)
  BY <1>5, <1>8 DEF RemoveFile, tree
<1>9. ASSUME NEW original \in OpenFiles, NEW d \in OpenDirs, NEW nm \in Names,
             CopyFile(original, d, nm)
      PROVE  /\ Idle /\ UNCHANGED <<size, sectors, bits, ondisk, halted>> /\ live \subseteq live'
             /\ \E x, y : Asks(x) /\ Asks(y) /\ (stack' = <<x>> \/ stack' = <<x, y>>)
  <2>1. Idle /\ UNCHANGED <<size, sectors, bits, ondisk, halted>>
    BY <1>9 DEF CopyFile
  <2>2. \E copy : /\ copy \notin Dirs /\ live \subseteq live'
                  /\ stack' = <<Copy(original, copy)>> \/ stack' = <<Flush(d), Copy(original, copy)>>
    BY <1>9 DEF CopyFile, AddFile, Unused, tree
  <2>3. Asks(Flush(d))
    BY <1>1, <1>2
  <2> QED BY <1>3, <2>1, <2>2, <2>3
<1>10. ASSUME NEW d \in OpenDirs, NEW e \in OpenDirs, NEW nm \in Names,
              NEW index \in DOMAIN files[d], MoveFile(d, index, e, nm)
       PROVE  /\ Idle /\ UNCHANGED <<size, sectors, bits, ondisk, halted>> /\ live \subseteq live'
              /\ \E x, y : Asks(x) /\ Asks(y) /\ (stack' = <<x>> \/ stack' = <<x, y>>)
  <2>1. Idle /\ UNCHANGED <<size, sectors, bits, ondisk, halted>> /\ live \subseteq live'
        /\ stack' = <<Flush(d), Flush(e)>>
    BY <1>10 DEF MoveFile
  <2>2. Asks(Flush(d)) /\ Asks(Flush(e))
    BY <1>1, <1>2
  <2> QED BY <2>1, <2>2
<1> QED BY <1>6, <1>7, <1>8, <1>9, <1>10 DEF Request, WriteRequest

\* A new call finds every file as it was written.
LEMMA RequestContent ==
  ASSUME Careful, TypeOK, TypeOK', TreeInv, TreeInv', ContentInv, AuditStep, Request
  PROVE  ContentInv'
<1>1. CASE ~ WriteRequest
  <2>1. /\ Idle /\ UNCHANGED <<size, sectors, bits, ondisk, halted>> /\ live \subseteq live'
        /\ \E x, y : Asks(x) /\ Asks(y) /\ (stack' = <<x>> \/ stack' = <<x, y>>)
    BY <1>1, RequestFrames
  <2>2. PICK x, y : Asks(x) /\ Asks(y) /\ (stack' = <<x>> \/ stack' = <<x, y>>)
    BY <2>1
  <2>3. \A k \in DOMAIN stack' : stack'[k] = x \/ stack'[k] = y
    BY <2>2
  <2>4. Quiet'
    BY <2>2, <2>3 DEF Quiet, QuietFrame, Asks
  <2>5. \A k \in DOMAIN stack' : stack'[k].pc # "resize"
    BY <2>2, <2>3 DEF Asks
  <2>6. DOMAIN stack = {} /\ disk' = disk
    BY <2>1 DEF Idle, ondisk
  <2> QED BY <2>1, <2>4, <2>5, <2>6, QuietContent
<1>2. CASE WriteRequest
  <2>1. PICK f \in OpenFiles \ Dirs, n \in 0 .. MaxFile, v \in Data :
               WriteFile(f, [i \in 1 .. n |-> <<"data", v>>])
    BY <1>2 DEF WriteRequest
  <2> DEFINE arr == [i \in 1 .. n |-> <<"data", v>>]
             x == Resize(f, Len(arr))
             y == Write(f, arr)
  <2>2. arr \in Seq(Token)
    BY DataArray
  <2>3. WriteFile(f, arr)
    BY <2>1
  <2> HIDE DEF arr
  <2>4. f \in live /\ f \in Desc /\ f \notin Dirs
    BY OpenLinked DEF TreeInv, TypeOK
  <2>5. /\ x.pc = "resize" /\ x.file = f /\ x.n = Len(arr) /\ x \in Frame
        /\ y.pc = "write" /\ y.file = f /\ y.n = 0 /\ y.array = arr /\ y \in Frame
    <3>1. x \in Frame /\ y \in Frame
      BY <2>2, <2>4, ResizeType, WriteType
    <3> QED BY <3>1 DEF Resize, Write, Activation
  <2>6. stack' = <<x, y>> \o <<>> /\ Idle /\ UNCHANGED <<tree, size, sectors, ondisk>>
    BY <2>3 DEF WriteFile, CallWrite
  <2> HIDE DEF x, y
  <2>7. stack' = <<x, y>> /\ stack = <<>>
    BY <2>5, <2>6 DEF Idle
  <2>8. /\ DOMAIN stack' = {1, 2} /\ stack'[1] = x /\ stack'[2] = y /\ Head(stack') = x
        /\ Len(stack') = 2 /\ Len(stack) = 0 /\ stack' # <<>> /\ DOMAIN stack = {}
    BY <2>7
  <2>9. \A g \in Desc : content'[g] = IF g \notin live THEN <<>> ELSE IF g = f THEN arr ELSE content[g]
    <3>1. live' = live /\ ~ At("remove")
      BY <2>6, <2>7 DEF tree, At
    <3> SUFFICES ASSUME NEW g \in Desc
                 PROVE  Written(g) = IF g \notin live THEN <<>> ELSE IF g = f THEN arr ELSE content[g]
      BY DEF AuditStep
    <3>2. CASE g \notin live
      BY <3>1, <3>2 DEF Written
    <3>3. CASE g \in live /\ g # f
      BY <2>5, <2>8, <3>1, <3>3 DEF Written
    <3>4. CASE g \in live /\ g = f
      <4>1. ~ (Len(stack') <= Len(stack))
        BY <2>8
      <4>2. Head(stack').file = g /\ Head(stack').pc = "resize" /\ stack'[2].array = arr
        BY <2>5, <2>8, <3>4
      <4> QED BY <3>1, <3>4, <4>1, <4>2 DEF Written
    <3> QED BY <3>2, <3>3, <3>4
  <2>10. ContentType' /\ DeadEmpty'
    <3>1. ContentType /\ DeadEmpty
      BY DEF ContentInv
    <3>2. \A g \in Desc : content'[g] \in Seq(Token)
      <4>1. <<>> \in Seq(Token)
        OBVIOUS
      <4>2. \A g \in Desc : content[g] \in Seq(Token)
        BY <3>1 DEF ContentType
      <4> QED BY <2>2, <2>9, <4>1, <4>2
    <3>3. content' = [g \in Desc |-> Written(g)]
      BY DEF AuditStep
    <3>4. DeadEmpty'
      BY <2>6, <3>1 DEF DeadEmpty, tree
    <3> QED BY <3>2, <3>3, <3>4 DEF ContentType
  <2>11. Settled'
    <3> SUFFICES ASSUME NEW g \in Desc PROVE InTransfer(g)' \/ Recorded(g)'
      BY DEF Settled
    <3>1. CASE g = f
      BY <2>5, <2>8, <3>1 DEF InTransfer
    <3>2. CASE g # f
      <4>1. Recorded(g)
        BY <2>8 DEF ContentInv, Settled, InTransfer
      <4>2. UNCHANGED <<size, sectors, disk>>
        BY <2>6 DEF ondisk
      <4>3. CASE g \in live
        <5>1. content'[g] = content[g]
          BY <2>9, <3>2, <4>3
        <5> QED BY <4>1, <4>2, <5>1, StillStored, SameRecorded
      <4>4. CASE g \notin live
        <5>1. size'[g] = 0 /\ content'[g] = <<>>
          BY <2>9, <4>2, <4>4 DEF ContentInv, DeadEmpty
        <5> QED BY <5>1, EmptyRecorded
      <4> QED BY <4>3, <4>4
    <3> QED BY <3>1, <3>2
  <2>12. content'[f] = arr
    BY <2>4, <2>9
  <2>13. FramesKept'
    <3>1. Kept(1)'
      <4>1. 1 + 1 \in DOMAIN stack' /\ stack'[1 + 1] = y
        BY <2>8
      <4> QED BY <2>5, <2>8, <2>12, <4>1 DEF Kept, WritesKept, ResizesKept, FlushesKept
    <3>2. Kept(2)'
      BY <2>4, <2>5, <2>8, <2>12 DEF Kept, WritesKept, ResizesKept, FlushesKept, Resizing, Resizes
    <3> QED BY <2>8, <3>1, <3>2 DEF FramesKept
  <2>14. TopWrites'
    <3>1. Top' = x
      BY <2>8 DEF Top
    <3> QED BY <2>5, <3>1 DEF TopWrites
  <2> QED BY <2>10, <2>11, <2>13, <2>14 DEF ContentInv
<1> QED BY <1>1, <1>2

-----------------------------------------------------------------------------
(* What every step leaves to read.                                         *)

LEMMA InitContent ==
  ASSUME TypeOK, AuditInit
  PROVE  ContentInv
<1>1. /\ stack = <<>> /\ DOMAIN stack = {} /\ content = [f \in Desc |-> Read(f)]
      /\ live = Image.live /\ size = Image.size
  BY DEF AuditInit, Init
<1>2. ASSUME NEW f \in Desc
      PROVE  Read(f) \in Seq(Token) /\ Recorded(f)
  <2>1. Read(f) \in Seq(Token)
    BY ReadType
  <2>2. size[f] \in Nat /\ Read(f) = [t \in 1 .. size[f] |-> Stored(f, t)]
    BY ReadStored DEF TypeOK
  <2>3. Len(Read(f)) = size[f] /\ \A t \in 1 .. size[f] : Read(f)[t] = Stored(f, t)
    <3> DEFINE m == size[f]
               data == Read(f)
               token(t) == Stored(f, t)
    <3>1. m \in Nat /\ data = [t \in 1 .. m |-> token(t)]
      BY <2>2
    <3> HIDE DEF m, data, token
    <3>2. Len(data) = m /\ \A t \in 1 .. m : data[t] = token(t)
      BY <3>1
    <3> QED BY <3>2 DEF m, data, token
  <2>4. content[f] = Read(f)
    BY <1>1
  <2> QED BY <2>1, <2>3, <2>4 DEF Recorded
<1>3. ContentType /\ Settled
  BY <1>1, <1>2 DEF ContentType, Settled
<1>4. DeadEmpty
  BY <1>1, LoadAssumption DEF DeadEmpty
<1>5. FramesKept /\ TopWrites
  BY <1>1 DEF FramesKept, TopWrites
<1> QED BY <1>3, <1>4, <1>5 DEF ContentInv

LEMMA StutterContent ==
  ASSUME ContentInv, UNCHANGED <<vars, history>>
  PROVE  ContentInv'
<1>1. /\ content' = content /\ stack' = stack /\ size' = size /\ sectors' = sectors
      /\ disk' = disk /\ live' = live /\ files' = files /\ name' = name
  BY DEF vars, history
<1>2. ContentType' /\ DeadEmpty'
  BY <1>1 DEF ContentInv, ContentType, DeadEmpty
<1>3. \A f, t : Stored(f, t)' = Stored(f, t)
  BY <1>1 DEF Stored, Slot
<1>4. \A d : Serialize(d)' = Serialize(d)
  BY <1>1 DEF Serialize, Offset, Entry
<1>5. Settled'
  BY <1>1, <1>3 DEF ContentInv, Settled, InTransfer, Recorded
<1>6. FramesKept'
  BY <1>1, <1>4 DEF ContentInv, FramesKept, Kept, WritesKept, ResizesKept, FlushesKept
<1>7. Top' = Top
  BY <1>1 DEF Top
<1>8. TopWrites'
  BY <1>1, <1>3, <1>7 DEF ContentInv, TopWrites
<1> QED BY <1>2, <1>5, <1>6, <1>8 DEF ContentInv

\* Every step leaves all files as they were written.
LEMMA NextContent ==
  ASSUME Careful, TypeOK, TypeOK', LeakInv, LeakInv', SavingInv, ContentInv,
         [AuditNext]_<<vars, history>>
  PROVE  ContentInv'
<1>1. CASE UNCHANGED <<vars, history>>
  BY <1>1, StutterContent
<1>2. CASE AuditNext
  <2>1. Next /\ AuditStep
    BY <1>2 DEF AuditNext, AuditStep
  <2>2. TreeInv /\ TreeInv'
    BY DEF LeakInv
  <2>3. CASE Request
    BY <2>1, <2>2, <2>3, RequestContent
  <2>4. CASE Transfer
    BY <2>1, <2>4, TransferContent
  <2>5. CASE RemoveChild \/ RemoveErase \/ DeleteNext
    BY <2>1, <2>5, RemovalContent
  <2> QED BY <2>1, <2>3, <2>4, <2>5 DEF Next, Step, Transfer
<1> QED BY <1>1, <1>2

\* A file that no frame transfers reads as it was written.
LEMMA ReadsBack ==
  ASSUME TypeOK, ContentInv, NEW f \in Desc, ~ InTransfer(f)
  PROVE  size[f] = Len(content[f]) /\ Read(f) = content[f]
<1>1. Recorded(f)
  BY DEF ContentInv, Settled
<1>2. content[f] \in Seq(Token)
  BY DEF ContentInv, ContentType
<1>3. Read(f) = [t \in 1 .. size[f] |-> Stored(f, t)]
  BY ReadStored
<1> DEFINE m == size[f]
           data == Read(f)
           arr == content[f]
           token(t) == Stored(f, t)
<1>4. /\ arr \in Seq(Token) /\ m = Len(arr) /\ data = [t \in 1 .. m |-> token(t)]
      /\ \A t \in 1 .. m : token(t) = arr[t]
  BY <1>1, <1>2, <1>3 DEF Recorded
<1> HIDE DEF m, data, arr, token
<1>5. data = arr
  BY <1>4
<1> QED BY <1>4, <1>5 DEF m, data, arr

\* What the invariant says of the files outside a call.
LEMMA ContentSafe ==
  ASSUME TypeOK, ContentInv
  PROVE  ContentSurvives
<1> SUFFICES ASSUME NEW f \in live, Idle \/ f \notin InCall \cup Dirs
             PROVE  size[f] = Len(content[f]) /\ Read(f) = content[f]
  BY DEF ContentSurvives
<1>1. f \in Desc
  BY DEF TypeOK
<1>2. ~ InTransfer(f)
  BY DEF Idle, InCall, InTransfer
<1> QED BY <1>1, <1>2, ReadsBack

\* The history takes no step of its own.
LEMMA AuditSteps == [AuditNext]_<<vars, history>> => [Next]_vars
BY DEF AuditNext

\* The invariants of the tree, the sectors and the saved bits hold with the
\* history as without it.
LEMMA AuditInvariant ==
  Careful => (AuditSpec => [](TypeOK /\ LeakInv /\ SavingInv /\ ContentInv))
<1> SUFFICES ASSUME Careful
             PROVE  AuditSpec => [](TypeOK /\ LeakInv /\ SavingInv /\ ContentInv)
  OBVIOUS
<1>1. AuditInit => TypeOK /\ LeakInv /\ SavingInv /\ ContentInv
  <2> SUFFICES ASSUME AuditInit PROVE TypeOK /\ LeakInv /\ SavingInv /\ ContentInv
    OBVIOUS
  <2>1. Init
    BY DEF AuditInit
  <2>2. TypeOK
    BY <2>1, InitType
  <2> QED BY <2>1, <2>2, InitLeak, InitSaving, InitContent
<1>2. TypeOK /\ LeakInv /\ SavingInv /\ ContentInv /\ [AuditNext]_<<vars, history>> =>
        TypeOK' /\ LeakInv' /\ SavingInv' /\ ContentInv'
  <2> SUFFICES ASSUME TypeOK, LeakInv, SavingInv, ContentInv, [AuditNext]_<<vars, history>>
               PROVE  TypeOK' /\ LeakInv' /\ SavingInv' /\ ContentInv'
    OBVIOUS
  <2>1. [Next]_vars
    BY AuditSteps
  <2>2. TypeOK'
    BY <2>1, StepType, RequestType, StutterType DEF Next
  <2>3. LeakInv'
    BY <2>1, <2>2, NextLeak
  <2>4. SavingInv'
    <3>1. SectorsInv'
      BY <2>3 DEF LeakInv
    <3> QED BY <2>1, <2>2, <3>1, NextSaving
  <2> QED BY <2>2, <2>3, <2>4, NextContent
<1> QED BY <1>1, <1>2, PTL DEF AuditSpec

\* Every array that was written can be read back, as long as nobody writes the
\* file again: no allocation, no flush of another file and no reuse of a freed
\* sector by any series of calls takes a byte of it, or of a directory's
\* entries, at any point of a call.
THEOREM FilesSurvive == Careful => (AuditSpec => []ContentSurvives)
<1> SUFFICES ASSUME Careful PROVE AuditSpec => []ContentSurvives
  OBVIOUS
<1>1. TypeOK /\ ContentInv => ContentSurvives
  BY ContentSafe
<1> QED BY <1>1, AuditInvariant, PTL

-----------------------------------------------------------------------------
(* A full disk.                                                            *)

Transfers == {"write", "bits", "flush", "resize", "grow", "parent"}

\* The frames of a createFile or a write: only the innermost does anything but
\* wait for the flush above it, or for its resize.
Descends ==
  \A k \in DOMAIN stack : /\ stack[k].pc \in Transfers
                          /\ k > 1 => stack[k].pc \in {"write", "bits"}

\* Once the root's size is on the disk, whatever is still to be resized keeps
\* its size.
Returning ==
  stack # <<>> =>
    \/ Top.pc \in {"write", "bits"}
    \/ /\ Top.file = Root
       /\ \/ Top.pc = "flush" /\ size[Root] = Len(Serialize(Root))
          \/ Top.pc = "resize" /\ Top.n = size[Root]

FullInv ==
  /\ written \in BOOLEAN
  /\ stack = <<>> => ~ written
  /\ request \in {"create", "write"} =>
       Descends /\ (halted => ~ written) /\ (written /\ ~ halted => Returning)

WrittenStep == written' = (stack' # <<>> /\ (written \/ DiskWrite))

\* The root is flushed after its own resize, whose write has serialized it.
LEMMA RootUpToDate ==
  ASSUME TypeOK, ContentInv, Descends, ResizeParent, Top.file = Root
  PROVE  size[Root] = Len(Serialize(Root))
<1>1. stack # <<>> /\ Top.pc = "parent"
  BY DEF ResizeParent, At
<1>2. 1 \in DOMAIN stack /\ stack[1] = Top
  BY <1>1, TopFrame
<1>3. ResizesKept(1) /\ (1 + 1 \in DOMAIN stack => WritesKept(1 + 1))
  BY <1>2 DEF ContentInv, FramesKept, Kept
<1>4. /\ stack[1].n = Len(content[Root]) /\ size[Root] = stack[1].n
      /\ 1 + 1 \in DOMAIN stack
      /\ (stack[1 + 1].pc = "write" /\ stack[1 + 1].file = Root) \/ stack[1 + 1].pc = "erase"
  BY <1>1, <1>2, <1>3 DEF ResizesKept, Resizing, Resizes
<1>5. stack[1 + 1].pc = "write" /\ stack[1 + 1].file = Root
  BY <1>4 DEF Descends, Transfers
<1>6. content[Root] = Serialize(Root)
  BY <1>3, <1>4, <1>5, TreeAssumption DEF WritesKept
<1> QED BY <1>4, <1>6

\* What the innermost frame becomes is again a frame of such a call.
LEMMA TransferDescends ==
  ASSUME TypeOK, TypeOK', Transfer, Descends
  PROVE  Descends'
<1>1. PICK new \in Seq(Frame) : Moves(new)
  BY TransferMoves
<1>2. /\ stack # <<>> /\ Top = stack[1] /\ 1 \in DOMAIN stack
      /\ Len(new) \in Nat /\ DOMAIN new = 1 .. Len(new)
      /\ Len(stack) \in Nat /\ DOMAIN stack = 1 .. Len(stack)
      /\ Len(stack') = Len(new) + Len(stack) - 1
      /\ DOMAIN stack' = 1 .. Len(new) + Len(stack) - 1
      /\ \A k \in 1 .. Len(new) : stack'[k] = new[k]
  BY <1>1, MovesTypes
<1>3. Top.pc \in Transfers
  BY <1>2 DEF Descends
<1>4. ASSUME NEW k \in 1 .. Len(new)
      PROVE  new[k].pc \in Transfers /\ (k > 1 => new[k].pc \in {"write", "bits"})
  <2>1. CASE Pops(new)
    BY <2>1 DEF Pops
  <2>2. CASE Stays(new)
    <3>1. k = 1
      BY <2>2 DEF Stays
    <3> QED BY <2>2, <3>1 DEF Stays, Transfers
  <2>3. CASE Flushes(new)
    <3>1. k = 1 \/ k = 2
      BY <2>3 DEF Flushes
    <3> QED BY <2>3, <3>1 DEF Flushes, Transfers
  <2>4. CASE Writes(new)
    <3>1. k = 1 \/ k = 2
      BY <2>4 DEF Writes
    <3> QED BY <2>4, <3>1 DEF Writes, Transfers
  <2> QED BY <1>1, <2>1, <2>2, <2>3, <2>4 DEF Moves
<1>5. ASSUME NEW k \in DOMAIN stack', k > Len(new)
      PROVE  stack'[k].pc \in {"write", "bits"}
  <2> DEFINE n == Len(new)
             len == Len(stack)
             j == k - n + 1
  <2>1. n \in Nat /\ len \in Nat /\ k \in 1 .. n + len - 1 /\ k > n
    BY <1>2, <1>5
  <2> HIDE DEF n, len
  <2>2. j \in 1 .. len /\ j > 1
    BY <2>1
  <2>3. stack'[k] = stack[j]
    <3> HIDE DEF j
    <3>1. k = n + j - 1
      BY <2>1 DEF j
    <3>2. j \in DOMAIN stack
      BY <1>2, <2>2 DEF len
    <3> QED BY <1>1, <2>2, <3>1, <3>2, MovesTypes DEF n
  <2>4. j \in DOMAIN stack
    BY <1>2, <2>2 DEF len
  <2> HIDE DEF j
  <2> QED BY <2>2, <2>3, <2>4 DEF Descends
<1>6. ASSUME NEW k \in DOMAIN stack'
      PROVE  /\ stack'[k].pc \in Transfers
             /\ k > 1 => stack'[k].pc \in {"write", "bits"}
  <2>1. CASE k > Len(new)
    BY <1>5, <2>1 DEF Transfers
  <2>2. CASE ~ (k > Len(new))
    <3>1. k \in 1 .. Len(new)
      BY <1>2, <2>2
    <3> QED BY <1>2, <1>4, <3>1
  <2> QED BY <2>1, <2>2
<1> QED BY <1>6 DEF Descends

\* Nothing is allocated any more once something is on the disk.
LEMMA TransferReturning ==
  ASSUME TypeOK, TypeOK', TreeInv, ContentInv, Transfer, Descends, WrittenStep,
         written \in BOOLEAN, ~ halted, written => Returning,
         stack' # <<>>
  PROVE  (halted' => ~ written') /\ (written' /\ ~ halted' => Returning')
<1>1. PICK new \in Seq(Frame) : Moves(new)
  BY TransferMoves
<1>2. /\ stack # <<>> /\ Top = stack[1] /\ 1 \in DOMAIN stack
      /\ Len(new) \in Nat /\ DOMAIN new = 1 .. Len(new)
  BY <1>1, MovesTypes
<1>3. /\ Top' = stack'[1] /\ 1 \in DOMAIN stack'
      /\ Len(new) = 0 => 2 \in DOMAIN stack /\ Top' = stack[2]
      /\ Len(new) # 0 => Top' = new[1]
  BY <1>1, MovesTop
<1>4. /\ Top.pc \in {"grow", "parent"} => ~ written
      /\ Top.pc = "resize" /\ Top.n # size[Top.file] => ~ written
  BY <1>2 DEF Returning
<1>5. written' = (written \/ DiskWrite)
  BY DEF WrittenStep
<1>6. CASE Pops(new)
  <2>1. Top' = stack[2] /\ 2 \in DOMAIN stack
    BY <1>3, <1>6 DEF Pops
  <2>2. Top'.pc \in {"write", "bits"}
    BY <2>1 DEF Descends
  <2>3. halted' = halted
    BY <1>6 DEF Pops, WriteDone, ResizeSame, ResizeBits
  <2> QED BY <2>2, <2>3 DEF Returning
<1>7. CASE Stays(new)
  <2>1. Top' = new[1]
    BY <1>3, <1>7 DEF Stays
  <2>2. CASE WriteSector
    <3>1. halted' = halted /\ At("write")
      BY <2>2 DEF WriteSector
    <3>2. Top'.pc = "write"
      BY <1>7, <2>1, <3>1 DEF Stays, At
    <3> QED BY <3>1, <3>2 DEF Returning
  <2>3. CASE ResizeKeep \/ ResizeShrink \/ ResizeGrow
    <3>1. At("resize") /\ Top.n # size[Top.file] /\ UNCHANGED <<superblock, bitmap>>
      <4>1. At("resize") /\ UNCHANGED <<superblock, bitmap>>
        BY <2>3 DEF ResizeKeep, ResizeShrink, ResizeGrow, ondisk
      <4>2. Top.file \in Desc /\ size[Top.file] \in Nat
        BY <1>2, TopFrame DEF TypeOK
      <4>3. CASE ResizeKeep
        BY <4>1, <4>3 DEF ResizeKeep
      <4>4. CASE ResizeShrink \/ ResizeGrow
        <5> DEFINE c(n) == SectorCount(n)
        <5>1. c(Top.n) < c(size[Top.file]) \/ c(Top.n) > c(size[Top.file])
          BY <4>4 DEF ResizeShrink, ResizeGrow
        <5>2. c(size[Top.file]) \in Int
          BY <4>2, SizesAssumption DEF SectorCount
        <5> HIDE DEF c
        <5>3. Top.n # size[Top.file]
          BY <5>1, <5>2
        <5> QED BY <4>1, <5>3
      <4> QED BY <2>3, <4>3, <4>4
    <3>2. ~ written /\ ~ DiskWrite
      BY <1>4, <3>1 DEF At, DiskWrite
    <3> QED BY <1>5, <3>2
  <2>4. CASE GrowSector \/ DiskFull \/ GrowDone
    <3>1. At("grow") /\ UNCHANGED <<superblock, bitmap>>
      BY <2>4 DEF GrowSector, DiskFull, GrowDone, ondisk
    <3>2. ~ written /\ ~ DiskWrite
      BY <1>4, <3>1 DEF At, DiskWrite
    <3> QED BY <1>5, <3>2
  <2> QED BY <1>7, <2>2, <2>3, <2>4 DEF Stays
<1>8. CASE Flushes(new)
  <2>1. /\ ResizeParent /\ At("parent") /\ Top' = new[1] /\ new[1].pc = "flush"
        /\ new[1].file = parent_directory[Top.file]
    BY <1>3, <1>8 DEF Flushes, ResizeParent
  <2>2. ~ written /\ halted' = halted /\ bitmap' = bitmap
    BY <1>4, <2>1 DEF ResizeParent, At
  <2>3. CASE Top.file # Root
    <3>1. Top.file \in live \ {Root}
      BY <1>2, <2>3 DEF TreeInv, StackInv, Holds
    <3>2. parent_directory[Top.file] # Top.file
      BY <3>1, NotAboveItself DEF TreeInv
    <3>3. superblock' = superblock
      BY <2>1, <3>2 DEF ResizeParent
    <3>4. ~ DiskWrite
      BY <2>1, <2>2, <3>3 DEF DiskWrite, At
    <3> QED BY <1>5, <2>2, <3>4
  <2>4. CASE Top.file = Root
    <3>1. size[Root] = Len(Serialize(Root))
      BY <2>1, <2>4, RootUpToDate
    <3>2. UNCHANGED <<files, name, size, sectors>>
      BY <2>1 DEF ResizeParent, tree
    <3>3. Serialize(Root)' = Serialize(Root)
      BY <3>2 DEF Serialize, Offset, Entry
    <3>4. parent_directory[Root] = Root
      BY DEF TreeInv, Linked
    <3>5. Top'.pc = "flush" /\ Top'.file = Root /\ size'[Root] = Len(Serialize(Root)')
      BY <2>1, <2>4, <3>1, <3>2, <3>3, <3>4
    <3> QED BY <2>2, <3>5 DEF Returning
  <2> QED BY <2>3, <2>4
<1>9. CASE Writes(new)
  <2>1. Top.pc \in Transfers
    BY <1>2 DEF Descends
  <2>2. /\ FlushMetadata /\ Top.pc = "flush" /\ new[2].file = Top.file
        /\ new[2].array = Serialize(Top.file)
    BY <1>9, <2>1 DEF Writes, Transfers
  <2>3. /\ Top' = new[1] /\ new[1].pc = "resize" /\ new[1].file = Top.file
        /\ new[1].n = Len(Serialize(Top.file))
    BY <1>3, <1>9, <2>2 DEF Writes
  <2>4. UNCHANGED <<size, superblock, bitmap>> /\ At("flush") /\ halted' = halted
    BY <2>2 DEF FlushMetadata, ondisk
  <2>5. written' = written
    BY <1>5, <2>4 DEF DiskWrite, At
  <2>6. ASSUME written
        PROVE  Top'.pc = "resize" /\ Top'.file = Root /\ Top'.n = size'[Root]
    <3>1. Top.file = Root /\ size[Root] = Len(Serialize(Root))
      BY <1>2, <2>2, <2>6 DEF Returning
    <3> QED BY <2>3, <2>4, <3>1
  <2> QED BY <2>4, <2>5, <2>6 DEF Returning
<1> QED BY <1>1, <1>6, <1>7, <1>8, <1>9 DEF Moves

\* What the first frame says of the request.
LEMMA Branches ==
  ASSUME NEW p, NEW q
  PROVE  LET answer == CASE p -> "write" [] q -> "create" [] OTHER -> "other"
         IN  (answer = "write" => p) /\ (answer = "create" => q)
OBVIOUS

\* A createFile or a write starts with frames that transfer.
LEMMA RequestDescends ==
  ASSUME Careful, TypeOK, TreeInv, Request, RequestName \in {"create", "write"}
  PROVE  Descends'
<1>1. CASE ~ WriteRequest
  <2>1. PICK x, y : Asks(x) /\ Asks(y) /\ (stack' = <<x>> \/ stack' = <<x, y>>)
    BY <1>1, RequestFrames
  <2>2. Head(stack') = x
    BY <2>1
  <2>3. x.pc # "resize"
    BY <2>1 DEF Asks
  <2>4. Head(stack').pc = "flush" /\ Len(stack') = 1
    <3> DEFINE p == Head(stack').pc = "resize" /\ Head(stack').n >= size[Head(stack').file]
               q == Head(stack').pc = "flush" /\ Len(stack') = 1
    <3>1. ~ p
      BY <2>2, <2>3
    <3>2. RequestName = CASE p -> "write" [] q -> "create" [] OTHER -> "other"
      BY DEF RequestName
    <3> HIDE DEF p, q
    <3>3. q
      BY <3>1, <3>2, Branches
    <3> QED BY <3>3 DEF q
  <2>5. stack' = <<x>>
    BY <2>1, <2>4
  <2>6. \A k \in DOMAIN stack' : k = 1 /\ stack'[k] = x
    BY <2>5
  <2> QED BY <2>2, <2>4, <2>6 DEF Descends, Transfers
<1>2. CASE WriteRequest
  <2>1. PICK f \in OpenFiles \ Dirs, n \in 0 .. MaxFile, v \in Data :
               WriteFile(f, [i \in 1 .. n |-> <<"data", v>>])
    BY <1>2 DEF WriteRequest
  <2> DEFINE arr == [i \in 1 .. n |-> <<"data", v>>]
             x == Resize(f, Len(arr))
             y == Write(f, arr)
  <2>2. x \in Frame /\ y \in Frame /\ x.pc = "resize" /\ y.pc = "write"
    <3>1. f \in Desc /\ arr \in Seq(Token)
      BY OpenLinked, DataArray DEF TreeInv, TypeOK
    <3> HIDE DEF arr
    <3>2. x \in Frame /\ y \in Frame
      BY <3>1, ResizeType, WriteType
    <3> QED BY <3>2 DEF Resize, Write, Activation
  <2>3. stack' = <<x, y>> \o <<>>
    BY <2>1 DEF WriteFile, CallWrite
  <2> HIDE DEF x, y
  <2>4. \A k \in DOMAIN stack' : (k = 1 /\ stack'[k] = x) \/ (k = 2 /\ stack'[k] = y)
    <3>1. stack' = <<x, y>>
      BY <2>2, <2>3
    <3>2. DOMAIN stack' = {1, 2} /\ stack'[1] = x /\ stack'[2] = y
      BY <3>1
    <3> QED BY <3>2
  <2> QED BY <2>2, <2>4 DEF Descends, Transfers
<1> QED BY <1>1, <1>2

\* A call that starts writes nothing yet.
LEMMA RequestSilent ==
  ASSUME Careful, TypeOK, TreeInv, Request
  PROVE  Idle /\ ~ DiskWrite /\ halted' = halted
<1>1. Idle /\ UNCHANGED <<superblock, bitmap, halted>>
  BY DEF Request, CreateFile, WriteFile, DeleteFile, RemoveFile, CopyFile, MoveFile, ondisk
<1> QED BY <1>1 DEF Idle, At, DiskWrite

\* Every step of a createFile or a write allocates first and writes then.
LEMMA NextFull ==
  ASSUME Careful, TypeOK, TypeOK', LeakInv, ContentInv, FullInv,
         [AuditNext]_<<vars, history>>
  PROVE  FullInv'
<1>1. CASE UNCHANGED <<vars, history>>
  <2>1. /\ stack' = stack /\ halted' = halted /\ written' = written /\ request' = request
        /\ size' = size /\ sectors' = sectors /\ files' = files /\ name' = name
    BY <1>1 DEF vars, history
  <2>2. Serialize(Root)' = Serialize(Root)
    BY <2>1 DEF Serialize, Offset, Entry
  <2>3. Top' = Top
    BY <2>1 DEF Top
  <2>4. Returning => Returning'
    BY <2>1, <2>2, <2>3 DEF Returning
  <2>5. Descends => Descends'
    BY <2>1 DEF Descends
  <2> QED BY <2>1, <2>4, <2>5 DEF FullInv
<1>2. CASE AuditNext
  <2>1. /\ Next /\ WrittenStep
        /\ request' = IF stack' = <<>> THEN "none" ELSE IF stack = <<>> THEN RequestName ELSE request
    BY <1>2 DEF AuditNext, WrittenStep
  <2>2. written' \in BOOLEAN /\ (stack' = <<>> => ~ written')
    BY <2>1 DEF WrittenStep
  <2>3. TreeInv
    BY DEF LeakInv
  <2> SUFFICES ASSUME request' \in {"create", "write"}
               PROVE  Descends' /\ (halted' => ~ written') /\ (written' /\ ~ halted' => Returning')
    BY <2>2 DEF FullInv
  <2>4. stack' # <<>>
    BY <2>1
  <2>5. CASE Request
    <3>1. Idle /\ ~ DiskWrite /\ halted' = halted
      BY <2>3, <2>5, RequestSilent
    <3>2. RequestName \in {"create", "write"}
      BY <2>1, <2>4, <3>1 DEF Idle
    <3>3. Descends'
      BY <2>3, <2>5, <3>2, RequestDescends
    <3>4. ~ written'
      BY <2>1, <3>1 DEF WrittenStep, FullInv, Idle
    <3> QED BY <3>3, <3>4
  <2>6. CASE Step
    <3>1. stack # <<>> /\ ~ halted
      BY <2>6 DEF Step, At, WriteSector, WriteDone, ResizeSame, ResizeKeep, ResizeShrink,
         ResizeGrow, GrowSector, GrowDone, DiskFull, ResizeParent, ResizeBits,
         FlushMetadata, RemoveChild, RemoveErase, DeleteNext, CopyData
    <3>2. /\ request \in {"create", "write"} /\ Descends /\ written \in BOOLEAN
          /\ written => Returning
      BY <2>1, <2>4, <3>1 DEF FullInv
    <3>3. Transfer
      <4>1. Top.pc \in Transfers
        BY <3>1, <3>2, TopFrame DEF Descends
      <4>2. ~ (RemoveChild \/ RemoveErase \/ DeleteNext)
        BY <4>1 DEF RemoveChild, RemoveErase, DeleteNext, At, Transfers
      <4> QED BY <2>6, <4>2 DEF Step, Transfer
    <3>4. Descends'
      BY <3>2, <3>3, TransferDescends
    <3> QED BY <2>1, <2>3, <2>4, <3>1, <3>2, <3>3, <3>4, TransferReturning
  <2> QED BY <2>1, <2>5, <2>6 DEF Next
<1> QED BY <1>1, <1>2

\* A createFile or a write that runs out of sectors has changed nothing on the
\* disk, however deep the file lies and whatever the directories above it need.
THEOREM FullDiskSafe == Careful => (AuditSpec => []FullDiskLosesNothing)
<1> SUFFICES ASSUME Careful PROVE AuditSpec => []FullDiskLosesNothing
  OBVIOUS
<1>1. AuditInit => FullInv
  BY DEF AuditInit, FullInv
<1>2. TypeOK /\ TypeOK' /\ LeakInv /\ ContentInv /\ FullInv /\ [AuditNext]_<<vars, history>>
        => FullInv'
  BY NextFull
<1>3. FullInv => FullDiskLosesNothing
  BY DEF FullInv, FullDiskLosesNothing
<1> QED BY <1>1, <1>2, <1>3, AuditInvariant, PTL DEF AuditSpec

-----------------------------------------------------------------------------
(* What is on its way to the disk.                                         *)

\* The size or the sectors of f have changed and no one has been told.
Grown(f) == stack # <<>> /\ Top.pc \in {"grow", "parent"} /\ Top.file = f

\* The entries of d are to be written.
Awaited(d) ==
  \/ \E k \in DOMAIN stack : stack[k].pc = "flush" /\ stack[k].file = d
  \/ \E f \in Desc : Grown(f) /\ parent_directory[f] = d

Entered == \A d \in Dirs \cap live : content[d] = Serialize(d) \/ Awaited(d)

RootSaved ==
  (superblock.size = size[Root] /\ superblock.sectors = sectors[Root]) \/ Grown(Root)

BitsSaved ==
  bitmap = sector_bits \/ \E k \in DOMAIN stack : stack[k].pc \in Resizes

\* A frame below the innermost one stays.
LEMMA FrameStays ==
  ASSUME TypeOK, Transfer, NEW new, Moves(new), NEW k \in DOMAIN stack, k > 1
  PROVE  \E j \in DOMAIN stack' : stack'[j] = stack[k]
<1> DEFINE n == Len(new)
           len == Len(stack)
           j == k + n - 1
<1>1. /\ n \in Nat /\ len \in Nat /\ k \in 1 .. len
      /\ DOMAIN stack' = 1 .. n + len - 1
      /\ \A i \in DOMAIN stack' : i > n => stack'[i] = stack[i - n + 1]
  BY MovesTypes
<1> HIDE DEF n, len
<1>2. j \in 1 .. n + len - 1 /\ j > n /\ j - n + 1 = k
  BY <1>1
<1> HIDE DEF j
<1>3. j \in DOMAIN stack' /\ stack'[j] = stack[j - n + 1]
  BY <1>1, <1>2
<1>4. stack'[j] = stack[k]
  BY <1>2, <1>3
<1> QED BY <1>3, <1>4

\* The first of the new frames.
LEMMA NewFirst ==
  ASSUME TypeOK, TypeOK', Transfer, NEW new, Moves(new), Len(new) # 0
  PROVE  stack' # <<>> /\ Top' = new[1] /\ 1 \in DOMAIN stack' /\ stack'[1] = new[1]
<1>1. /\ Len(stack') = Len(new) + Len(stack) - 1 /\ Len(new) \in Nat /\ Len(stack) \in Nat
      /\ 1 \in DOMAIN stack /\ DOMAIN stack = 1 .. Len(stack)
      /\ \A k \in 1 .. Len(new) : stack'[k] = new[k]
  BY MovesTypes
<1> DEFINE n == Len(new)
           len == Len(stack)
           more == Len(stack')
<1>2. more = n + len - 1 /\ n \in Nat /\ len \in Nat /\ 1 \in 1 .. len /\ n # 0
  BY <1>1
<1> HIDE DEF n, len, more
<1>3. more > 0 /\ 1 \in 1 .. n
  BY <1>2
<1>4. Len(stack') # 0
  BY <1>3 DEF more
<1>5. stack' # <<>>
  <2>1. Len(<<>>) = 0
    OBVIOUS
  <2> QED BY <1>4, <2>1
<1> QED BY <1>1, <1>3, <1>5, MovesTop DEF n

\* Whoever changes a file is still at it.
LEMMA TransferChanges ==
  ASSUME TypeOK, TypeOK', Transfer, NEW f \in Desc
  PROVE  (size'[f] = size[f] /\ sectors'[f] = sectors[f]) \/ Grown(f)'
<1>1. PICK new \in Seq(Frame) : Moves(new)
  BY TransferMoves
<1>2. CASE f # Top.file
  BY <1>2, TransferTurns, TransferSectors DEF Turns
<1>3. CASE f = Top.file
  <2>1. CASE Pops(new)
    BY <2>1 DEF Pops, WriteDone, ResizeSame, ResizeBits
  <2>2. CASE Stays(new)
    <3>1. CASE new[1].pc \in {"grow", "parent"}
      <4>1. stack' # <<>> /\ Top' = new[1]
        BY <1>1, <2>2, NewFirst DEF Stays
      <4> QED BY <1>3, <2>2, <3>1, <4>1 DEF Stays, Grown
    <3>2. CASE WriteSector
      BY <3>2 DEF WriteSector
    <3> QED BY <2>2, <3>1, <3>2 DEF Stays
  <2>3. CASE Flushes(new)
    BY <2>3 DEF Flushes, ResizeParent
  <2>4. CASE Writes(new)
    BY <2>4 DEF Writes, FlushMetadata, CopyData
  <2> QED BY <1>1, <2>1, <2>2, <2>3, <2>4 DEF Moves
<1> QED BY <1>2, <1>3

\* A change is told to the directory above.
LEMMA TransferGrown ==
  ASSUME TypeOK, TypeOK', Transfer, NEW f \in Desc, Grown(f)
  PROVE  Grown(f)' \/ (ResizeParent /\ f = Top.file)
<1>1. PICK new \in Seq(Frame) : Moves(new)
  BY TransferMoves
<1>2. CASE Stays(new)
  <2>1. new[1].pc \in {"grow", "parent"} /\ new[1].file = f
    BY <1>2 DEF Stays, Grown
  <2>2. stack' # <<>> /\ Top' = new[1]
    BY <1>1, <1>2, NewFirst DEF Stays
  <2> QED BY <2>1, <2>2 DEF Grown
<1>3. ~ Pops(new) /\ ~ Writes(new)
  BY DEF Grown, Pops, Writes, WriteDone, ResizeSame, ResizeBits, At
<1>4. CASE Flushes(new)
  BY <1>4 DEF Flushes, Grown
<1> QED BY <1>1, <1>2, <1>3, <1>4 DEF Moves

LEMMA TransferEntered ==
  ASSUME TypeOK, TypeOK', TreeInv, Copies, ContentInv, Entered, Transfer, AuditStep
  PROVE  Entered'
<1>1. PICK new \in Seq(Frame) : Moves(new)
  BY TransferMoves
<1>2. /\ stack # <<>> /\ UNCHANGED tree /\ Top = stack[1] /\ 1 \in DOMAIN stack
      /\ DOMAIN new = 1 .. Len(new) /\ Len(new) \in Nat
  BY <1>1, MovesTypes
<1> SUFFICES ASSUME NEW d \in Dirs \cap live' PROVE (content[d] = Serialize(d))' \/ Awaited(d)'
  BY DEF Entered
<1>3. d \in Dirs \cap live /\ d \in Desc
  BY <1>2, TreeAssumption DEF tree
\* A flush that waits, or has just been called.
<1>4. ASSUME NEW k \in DOMAIN stack, k > 1, stack[k].pc = "flush", stack[k].file = d
      PROVE  Awaited(d)'
  BY <1>1, <1>4, FrameStays DEF Awaited
<1>5. ASSUME NEW f \in Desc, Grown(f), parent_directory[f] = d
      PROVE  Awaited(d)'
  <2>1. CASE Grown(f)'
    BY <1>2, <1>5, <2>1 DEF Awaited, tree
  <2>2. CASE ResizeParent /\ f = Top.file
    <3>1. Flushes(new)
      <4>1. At("parent")
        BY <2>2 DEF ResizeParent
      <4>2. ~ Pops(new)
        BY <4>1 DEF Pops, WriteDone, ResizeSame, ResizeBits, At
      <4>3. ~ Stays(new)
        BY <4>1 DEF Stays, At
      <4>4. ~ Writes(new)
        BY <4>1 DEF Writes, CopyData, At
      <4> QED BY <1>1, <4>2, <4>3, <4>4 DEF Moves
    <3>2. stack'[1] = new[1] /\ 1 \in DOMAIN stack'
      <4>1. Len(new) # 0
        BY <3>1 DEF Flushes
      <4> QED BY <1>1, <4>1, NewFirst
    <3> QED BY <1>5, <2>2, <3>1, <3>2 DEF Flushes, Awaited
  <2> QED BY <1>5, <2>1, <2>2, TransferGrown
\* The flush at the top serializes what is there.
<1>6. CASE Top.pc = "flush" /\ Top.file = d
  <2>1. Writes(new) /\ new[2].file = d /\ new[2].array = Serialize(d) /\ FlushMetadata
    BY <1>1, <1>6 DEF Moves, Pops, Stays, Writes, Flushes, WriteDone, ResizeSame,
       ResizeBits, CopyData, At
  <2>2. content'[d] = Serialize(d)
    BY <1>1, <1>3, <2>1, MovesContent DEF ContentInv
  <2>3. UNCHANGED <<files, name, size, sectors>>
    BY <2>1 DEF FlushMetadata, tree
  <2>4. Serialize(d)' = Serialize(d)
    BY <1>3, <2>3, SameSerialize
  <2> QED BY <2>2, <2>4
<1>7. CASE content[d] = Serialize(d) /\ ~ (Top.pc = "flush" /\ Top.file = d)
  <2>1. content'[d] = content[d]
    <3>1. ~ (Writes(new) /\ d = new[2].file)
      <4>1. Top.pc = "copy" => Top.to \notin Dirs
        BY <1>2 DEF Copies
      <4> QED BY <1>3, <1>7, <4>1 DEF Writes, CopyData, At
    <3> QED BY <1>1, <1>3, <3>1, MovesContent DEF ContentInv
  <2>2. CASE \E f \in Desc : parent_directory[f] = d /\ Grown(f)'
    BY <1>2, <2>2 DEF Awaited, tree
  <2>3. CASE \A f \in Desc : parent_directory[f] = d => ~ Grown(f)'
    <3>1. \A i \in DOMAIN files[d] : /\ size'[files[d][i]] = size[files[d][i]]
                                     /\ sectors'[files[d][i]] = sectors[files[d][i]]
      <4> SUFFICES ASSUME NEW i \in DOMAIN files[d], NEW f, f = files[d][i]
                   PROVE  size'[f] = size[f] /\ sectors'[f] = sectors[f]
        OBVIOUS
      <4>1. f \in Desc /\ parent_directory[f] = d
        BY <1>3, EntryLinked DEF TreeInv, TypeOK
      <4> QED BY <2>3, <4>1, TransferChanges
    <3>2. Serialize(d)' = Serialize(d)
      BY <1>2, <1>3, <3>1, SameSerialize DEF tree
    <3> QED BY <1>7, <2>1, <3>2
  <2> QED BY <2>2, <2>3
<1> QED
  <2>1. content[d] = Serialize(d) \/ Awaited(d)
    BY <1>3 DEF Entered
  <2>2. ASSUME NEW k \in DOMAIN stack, stack[k].pc = "flush", stack[k].file = d
        PROVE  k > 1 \/ (Top.pc = "flush" /\ Top.file = d)
    <3>1. k \in 1 .. Len(stack)
      BY StackTypes
    <3> QED BY <1>2, <2>2, <3>1
  <2> QED BY <1>4, <1>5, <1>6, <1>7, <2>1, <2>2 DEF Awaited

\* An entry is added to a list, or its name changed, by the calls that then
\* flush the directory.
LEMMA AddFileLists ==
  ASSUME TypeOK, TreeInv, NEW d \in Dirs \cap live, NEW e \in Desc, d # e, NEW nm,
         NEW f \in Unused, AddFile(e, nm, f)
  PROVE  files'[d] = files[d] /\ \A i \in DOMAIN files[d] : name'[files[d][i]] = name[files[d][i]]
<1>1. d \in Desc /\ files' = [files EXCEPT ![e] = Append(@, f)] /\ files \in [Desc -> Seq(Desc)]
  BY TreeAssumption DEF AddFile, TypeOK
<1>2. name' = [name EXCEPT ![f] = nm] /\ f \notin live
  BY DEF AddFile, Unused
<1> SUFFICES ASSUME NEW i \in DOMAIN files[d], NEW g, g = files[d][i]
             PROVE  name'[g] = name[g]
  BY <1>1
<1>3. g \in live
  BY <1>1, EntryLinked DEF TreeInv
<1>4. g \in Desc /\ name \in [Desc -> AllNames]
  BY <1>3 DEF TypeOK
<1> QED BY <1>2, <1>3, <1>4

LEMMA MoveFileLists ==
  ASSUME TypeOK, TreeInv, NEW d \in Dirs \cap live, NEW e \in Desc, NEW p \in Desc, d # e, d # p,
         NEW nm, NEW index \in DOMAIN files[e], MoveFile(e, index, p, nm)
  PROVE  files'[d] = files[d] /\ \A i \in DOMAIN files[d] : name'[files[d][i]] = name[files[d][i]]
<1> DEFINE f == files[e][index]
           erased == [files EXCEPT ![e] = Erase(@, index)]
<1>1. d \in Desc /\ files' = [erased EXCEPT ![p] = Append(@, f)] /\ files \in [Desc -> Seq(Desc)]
  BY TreeAssumption DEF MoveFile, TypeOK
<1>2. name' = [name EXCEPT ![f] = nm]
  BY DEF MoveFile
<1>3. parent_directory[f] = e
  BY EntryLinked DEF TreeInv
<1> HIDE DEF f
<1>4. files'[d] = files[d]
  BY <1>1
<1> SUFFICES ASSUME NEW i \in DOMAIN files[d], NEW g, g = files[d][i]
             PROVE  name'[g] = name[g]
  BY <1>4
<1>5. g \in live /\ parent_directory[g] = d
  BY <1>1, EntryLinked DEF TreeInv
<1>6. g \in Desc /\ name \in [Desc -> AllNames]
  BY <1>5 DEF TypeOK
<1> QED BY <1>2, <1>3, <1>5, <1>6

LEMMA RequestLists ==
  ASSUME Careful, TypeOK, TreeInv, Request, NEW d \in Dirs \cap live
  PROVE  \/ \E k \in DOMAIN stack' : stack'[k].pc = "flush" /\ stack'[k].file = d
         \/ /\ files'[d] = files[d]
            /\ \A i \in DOMAIN files[d] : name'[files[d][i]] = name[files[d][i]]
<1> DEFINE flushed == \E k \in DOMAIN stack' : stack'[k].pc = "flush" /\ stack'[k].file = d
           kept == /\ files'[d] = files[d]
                   /\ \A i \in DOMAIN files[d] : name'[files[d][i]] = name[files[d][i]]
<1>1. OpenDirs \subseteq Dirs \cap live /\ OpenDirs \subseteq Desc
  BY OpenLinked, TreeAssumption DEF TreeInv
<1>2. Flush(d).pc = "flush" /\ Flush(d).file = d
  BY DEF Flush, Activation
<1>3. UNCHANGED tree => kept
  BY DEF tree
<1>4. ASSUME NEW x, stack' = <<x>> \/ \E y : stack' = <<x, y>> \/ stack' = <<y, x>>, x = Flush(d)
      PROVE  flushed
  <2>1. \E k \in DOMAIN stack' : stack'[k] = x
    <3>1. CASE stack' = <<x>>
      <4>1. 1 \in DOMAIN stack' /\ stack'[1] = x
        BY <3>1
      <4> QED BY <4>1
    <3>2. ASSUME NEW y, stack' = <<x, y>> PROVE \E k \in DOMAIN stack' : stack'[k] = x
      <4>1. 1 \in DOMAIN stack' /\ stack'[1] = x
        BY <3>2
      <4> QED BY <4>1
    <3>3. ASSUME NEW y, stack' = <<y, x>> PROVE \E k \in DOMAIN stack' : stack'[k] = x
      <4>1. 2 \in DOMAIN stack' /\ stack'[2] = x
        BY <3>3
      <4> QED BY <4>1
    <3> QED BY <1>4, <3>1, <3>2, <3>3
  <2> QED BY <1>2, <1>4, <2>1
<1> HIDE DEF flushed
<1>5. ASSUME NEW e \in OpenDirs, NEW nm \in Names, CreateFile(e, nm)
      PROVE  flushed \/ kept
  <2>1. stack' = <<Flush(e)>> /\ \E f \in Unused : AddFile(e, nm, f)
    BY <1>5 DEF CreateFile
  <2>2. CASE e = d
    BY <1>4, <2>1, <2>2
  <2>3. CASE e # d
    BY <1>1, <2>1, <2>3, AddFileLists
  <2> QED BY <2>2, <2>3
<1>6. ASSUME NEW original \in OpenFiles, NEW e \in OpenDirs, NEW nm \in Names,
             CopyFile(original, e, nm)
      PROVE  flushed \/ kept
  <2>1. \/ UNCHANGED tree
        \/ \E copy \in Unused : AddFile(e, nm, copy) /\ stack' = <<Flush(e), Copy(original, copy)>>
    BY <1>6 DEF CopyFile
  <2>2. CASE e = d
    BY <1>3, <1>4, <2>1, <2>2
  <2>3. CASE e # d
    BY <1>1, <1>3, <2>1, <2>3, AddFileLists
  <2> QED BY <2>2, <2>3
<1>7. ASSUME NEW e \in OpenDirs, NEW p \in OpenDirs, NEW nm \in Names,
             NEW index \in DOMAIN files[e], MoveFile(e, index, p, nm)
      PROVE  flushed \/ kept
  <2>1. stack' = <<Flush(e), Flush(p)>>
    BY <1>7 DEF MoveFile
  <2>2. CASE e = d \/ p = d
    BY <1>4, <2>1, <2>2
  <2>3. CASE e # d /\ p # d
    BY <1>1, <1>7, <2>3, MoveFileLists
  <2> QED BY <2>2, <2>3
<1>8. ASSUME \/ \E f \in OpenFiles : DeleteFile(f)
             \/ \E e \in OpenDirs : \E index \in DOMAIN files[e] : RemoveFile(e, index)
             \/ WriteRequest
      PROVE  UNCHANGED tree
  BY <1>8 DEF DeleteFile, RemoveFile, WriteRequest, WriteFile
<1> QED BY <1>3, <1>5, <1>6, <1>7, <1>8 DEF Request, WriteRequest, flushed

LEMMA RequestEntered ==
  ASSUME Careful, TypeOK, TypeOK', TreeInv, Request, Entered, AuditStep
  PROVE  Entered'
<1> SUFFICES ASSUME NEW d \in Dirs \cap live', ~ Awaited(d)' PROVE (content[d] = Serialize(d))'
  BY DEF Entered
<1>1. /\ Idle /\ UNCHANGED <<size, sectors>> /\ live \subseteq live'
      /\ \E x \in Frame : /\ 1 \in DOMAIN stack' /\ Head(stack') = x
                          /\ x.pc = "resize" => x.file \notin Dirs
  <2>1. CASE WriteRequest
    <3>1. PICK f \in OpenFiles \ Dirs, n \in 0 .. MaxFile, v \in Data :
                 WriteFile(f, [i \in 1 .. n |-> <<"data", v>>])
      BY <2>1 DEF WriteRequest
    <3> DEFINE arr == [i \in 1 .. n |-> <<"data", v>>]
               x == Resize(f, Len(arr))
    <3>2. WriteFile(f, arr) /\ arr \in Seq(Token)
      BY <3>1, DataArray
    <3> HIDE DEF arr
    <3>3. f \in Desc /\ f \notin Dirs
      BY OpenLinked DEF TreeInv, TypeOK
    <3>4. x \in Frame /\ x.file = f
      <4>1. x \in Frame
        BY <3>2, <3>3, ResizeType
      <4> QED BY <4>1 DEF Resize, Activation
    <3>5. stack' = <<x, Write(f, arr)>> \o <<>> /\ Idle /\ UNCHANGED <<size, sectors, tree>>
      BY <3>2 DEF WriteFile, CallWrite
    <3>6. Write(f, arr) \in Frame
      BY <3>2, <3>3, WriteType
    <3> HIDE DEF x
    <3>7. 1 \in DOMAIN stack' /\ Head(stack') = x
      BY <3>4, <3>5, <3>6
    <3> QED BY <3>3, <3>4, <3>5, <3>7 DEF tree
  <2>2. CASE ~ WriteRequest
    <3>1. Idle /\ UNCHANGED <<size, sectors, bits, ondisk, halted>> /\ live \subseteq live'
          /\ \E x, y : Asks(x) /\ Asks(y) /\ (stack' = <<x>> \/ stack' = <<x, y>>)
      BY <2>2, RequestFrames
    <3>2. PICK x, y : Asks(x) /\ Asks(y) /\ (stack' = <<x>> \/ stack' = <<x, y>>)
      BY <3>1
    <3>3. 1 \in DOMAIN stack' /\ Head(stack') = x /\ stack'[1] = x
      BY <3>2
    <3>4. x \in Frame
      <4>1. stack' \in Seq(Frame)
        BY DEF TypeOK
      <4> DEFINE new == stack'
      <4>2. new \in Seq(Frame) /\ 1 \in DOMAIN new /\ new[1] = x
        BY <3>3, <4>1
      <4> HIDE DEF new
      <4> QED BY ONLY <4>2
    <3> QED BY <3>1, <3>2, <3>3, <3>4 DEF Asks
  <2> QED BY <2>1, <2>2
<1>2. d \in live
  <2>1. live' \cap Dirs \subseteq live
    BY DEF Request, CreateFile, WriteFile, DeleteFile, RemoveFile, CopyFile, MoveFile,
       AddFile, Unused, tree
  <2> QED BY <2>1
<1>3. d \in Desc
  BY TreeAssumption
<1>4. content'[d] = content[d]
  <2>1. content'[d] = Written(d)
    BY <1>3 DEF AuditStep
  <2>2. Head(stack').pc = "resize" => Head(stack').file \notin Dirs
    BY <1>1
  <2> QED BY <2>1, <2>2 DEF Written
<1>5. content[d] = Serialize(d)
  <2>1. stack = <<>> /\ DOMAIN stack = {}
    BY <1>1 DEF Idle
  <2> QED BY <1>2, <2>1 DEF Entered, Awaited, Grown
<1>6. Serialize(d)' = Serialize(d)
  <2>1. files'[d] = files[d] /\ \A i \in DOMAIN files[d] : name'[files[d][i]] = name[files[d][i]]
    BY <1>2, RequestLists DEF Awaited
  <2>2. size' = size /\ sectors' = sectors
    BY <1>1
  <2>3. \A i \in DOMAIN files[d] : /\ name'[files[d][i]] = name[files[d][i]]
                                   /\ size'[files[d][i]] = size[files[d][i]]
                                   /\ sectors'[files[d][i]] = sectors[files[d][i]]
    BY <2>1, <2>2
  <2> QED BY <1>3, <2>1, <2>3, KeptSerialize
<1> QED BY <1>4, <1>5, <1>6

LEMMA EmptySerialize ==
  ASSUME TypeOK, NEW d \in Desc, files[d] = <<>>
  PROVE  Serialize(d) = <<>>
<1>1. Len(files[d]) + 1 = 1
  OBVIOUS
<1>2. Offset(d, 1) = 0
  <2> DEFINE before == {p \in (1 .. 1 - 1) \X (0 .. DiskSize) : p[2] <= Len(sectors[files[d][p[1]]])}
  <2>1. before = {}
    <3>1. 1 .. 1 - 1 = {}
      OBVIOUS
    <3> QED BY <3>1
  <2> HIDE DEF before
  <2>2. Cardinality(before) = 0
    BY <2>1, FS_EmptySet
  <2> QED BY <2>2 DEF Offset, before
<1>3. Serialize(d) \in Seq(Token) /\ DOMAIN Serialize(d) = 1 .. Offset(d, Len(files[d]) + 1)
  BY SerializeType DEF Serialize
<1> DEFINE arr == Serialize(d)
<1>4. arr \in Seq(Token) /\ DOMAIN arr = 1 .. 0
  BY <1>1, <1>2, <1>3
<1> HIDE DEF arr
<1>5. arr = <<>>
  BY <1>4
<1> QED BY <1>5 DEF arr

\* A removal takes entries only from the directory it flushes.
LEMMA EraseLists ==
  ASSUME TypeOK, TypeOK', TreeInv, RemoveErase, NEW d \in Dirs \cap live', d # Top.file
  PROVE  Serialize(d)' = Serialize(d)
<1> DEFINE e == Top.file
           f == files[e][Top.n]
<1>1. /\ stack # <<>> /\ Top.pc = "erase" /\ 1 \in DOMAIN stack /\ stack[1] = Top
      /\ Top \in Frame /\ e \in Desc
  BY TopFrame DEF RemoveErase, At
<1>2. Top.n \in DOMAIN files[e]
  BY <1>1 DEF TreeInv, StackInv, Holds, Removing
<1>3. parent_directory[f] = e
  BY <1>1, <1>2, EntryLinked DEF TreeInv
<1>4. /\ live' = live \ {f} /\ files' = [files EXCEPT ![e] = Erase(@, Top.n), ![f] = <<>>]
      /\ name' = [name EXCEPT ![f] = NoName] /\ size' = [size EXCEPT ![f] = 0]
      /\ sectors' = [sectors EXCEPT ![f] = <<>>]
  BY DEF RemoveErase
<1> HIDE DEF f, e
<1>5. d \in Desc /\ d # f /\ d # e
  BY <1>4, TreeAssumption DEF e
<1>6. files'[d] = files[d]
  BY <1>4, <1>5 DEF TypeOK
<1>7. ASSUME NEW i \in DOMAIN files[d], NEW g, g = files[d][i]
      PROVE  name'[g] = name[g] /\ size'[g] = size[g] /\ sectors'[g] = sectors[g]
  <2>1. g \in live /\ parent_directory[g] = d
    BY <1>5, <1>7, EntryLinked DEF TreeInv
  <2>2. g \in Desc /\ g # f
    BY <1>3, <1>5, <2>1 DEF TypeOK
  <2> QED BY <1>4, <2>2 DEF TypeOK
<1> QED BY <1>5, <1>6, <1>7, KeptSerialize

LEMMA RemovalEntered ==
  ASSUME TypeOK, TypeOK', TreeInv, Entered, AuditStep, RemoveChild \/ RemoveErase \/ DeleteNext
  PROVE  Entered'
<1>1. /\ stack # <<>> /\ Top.pc \in {"remove", "erase", "delete"} /\ live' \subseteq live
      /\ Top \in Frame /\ Top.file \in Desc /\ Top.to \in Desc
  BY TopFrame DEF RemoveChild, RemoveErase, DeleteNext, At, tree
<1>2. \A k \in DOMAIN stack : stack[k].pc \in {"remove", "erase", "delete"}
  BY <1>1, OnlyRemoving DEF TreeInv
<1> SUFFICES ASSUME NEW d \in Dirs \cap live', ~ Awaited(d)' PROVE (content[d] = Serialize(d))'
  BY DEF Entered
<1>3. content[d] = Serialize(d) /\ d \in Desc /\ d \in live
  BY <1>1, <1>2, TreeAssumption DEF Entered, Awaited, Grown
<1>4. content'[d] = Written(d)
  BY <1>3 DEF AuditStep
<1>5. CASE RemoveErase
  <2>1. Top'.pc = "flush" /\ stack' # <<>> /\ Top'.file = Top.file
    BY <1>5, RemoveEraseQuiet
  <2>2. d # Top.file
    <3>1. 1 \in DOMAIN stack' /\ Top' = stack'[1]
      <4> DEFINE new == stack'
      <4>1. new \in Seq(Frame) /\ new # <<>> /\ Top' = Head(new)
        BY <2>1 DEF TypeOK, Top
      <4> HIDE DEF new
      <4>2. 1 \in DOMAIN new /\ Head(new) = new[1]
        BY ONLY <4>1
      <4> QED BY <4>1, <4>2 DEF new
    <3> QED BY <2>1, <3>1 DEF Awaited
  <2>3. content'[d] = content[d]
    <3>1. Head(stack').pc # "resize"
      BY <2>1 DEF Top
    <3> QED BY <1>4, <3>1 DEF Written
  <2> QED BY <1>3, <1>5, <2>2, <2>3, EraseLists
<1>6. CASE DeleteNext
  <2>1. UNCHANGED <<files, name, size, sectors>>
    BY <1>6 DEF DeleteNext, tree
  <2>2. Serialize(d)' = Serialize(d)
    BY <1>3, <2>1, SameSerialize
  <2>3. \A k \in DOMAIN stack' : stack'[k].pc # "resize"
    BY <1>6, DeleteNextQuiet
  <2>4. content'[d] = content[d]
    <3>1. Len(stack') > Len(stack) => Head(stack').pc # "resize"
      <4> DEFINE new == stack'
                 m == Len(stack)
      <4>1. new \in Seq(Frame) /\ m \in Nat /\ \A k \in DOMAIN new : new[k].pc # "resize"
        BY <2>3 DEF TypeOK
      <4> HIDE DEF new, m
      <4>2. Len(new) > m => Head(new).pc # "resize"
        BY ONLY <4>1
      <4> QED BY <4>2 DEF new, m
    <3>2. Len(stack') <= Len(stack) \/ Len(stack') > Len(stack)
      BY DEF TypeOK
    <3> QED BY <1>4, <3>1, <3>2 DEF Written
  <2> QED BY <1>3, <2>2, <2>4
<1>7. CASE RemoveChild
  <2>1. UNCHANGED <<files, name, size, sectors>>
    BY <1>7 DEF RemoveChild, tree
  <2>2. Serialize(d)' = Serialize(d)
    BY <1>3, <2>1, SameSerialize
  <2>3. content'[d] = content[d] \/ (d = Top.to /\ files[d] = <<>> /\ content'[d] = <<>>)
    <3> DEFINE f == Top.to
    <3>1. CASE f \in Dirs /\ files[f] # <<>>
      <4>1. stack' = <<Discard(f, 1)>> \o stack
        BY <1>7, <3>1 DEF RemoveChild, Call
      <4>2. Discard(f, 1) \in Frame /\ Discard(f, 1).pc = "remove"
        <5>0. f \in Desc /\ files[f] \in Seq(Desc) /\ files[f] # <<>>
          BY <1>1, <3>1 DEF TypeOK
        <5>1. 1 \in DOMAIN files[f] /\ f \in Desc
          BY ONLY <5>0
        <5>2. Discard(f, 1) \in Frame
          BY <5>1, DiscardType
        <5> QED BY <5>2 DEF Discard, Activation
      <4> DEFINE x == Discard(f, 1)
      <4>3. x \in Frame /\ x.pc = "remove" /\ stack' = <<x>> \o stack /\ stack \in Seq(Frame)
        BY <4>1, <4>2 DEF TypeOK
      <4> HIDE DEF x
      <4>4. Head(stack') = x
        BY ONLY <4>3
      <4>5. Head(stack').pc # "resize"
        BY <4>3, <4>4
      <4> QED BY <1>4, <4>5 DEF Written
    <3>2. CASE ~ (f \in Dirs /\ files[f] # <<>>)
      <4> DEFINE x == Resize(f, 0)
                 rest == Goto("erase")
      <4>1. stack' = <<x>> \o rest
        BY <1>7, <3>2 DEF RemoveChild, Call
      <4>2. x \in Frame /\ x.file = f /\ x.pc = "resize"
        <5>1. x \in Frame
          BY <1>1, ResizeType
        <5> QED BY <5>1 DEF Resize, Activation
      <4>3. rest \in Seq(Frame)
        <5>1. stack \in Seq(Frame) /\ stack # <<>> /\ "erase" \in Label
          BY <1>1 DEF Label, TypeOK
        <5> QED BY <5>1, GotoType
      <4> HIDE DEF x, rest
      <4>4. Head(stack') = x
        BY ONLY <4>1, <4>2, <4>3
      <4>5. At("remove")
        BY <1>7 DEF RemoveChild
      <4>6. d # f => content'[d] = content[d]
        BY <1>4, <4>2, <4>4 DEF Written
      <4>7. content'[d] = content[d] \/ content'[d] = <<>>
        BY <1>4, <4>5 DEF Written
      <4>8. d = f => files[d] = <<>>
        BY <3>2
      <4> QED BY <4>6, <4>7, <4>8
    <3> QED BY <3>1, <3>2
  <2> QED BY <1>3, <2>2, <2>3, EmptySerialize
<1> QED BY <1>5, <1>6, <1>7

-----------------------------------------------------------------------------
(* Where the entries of a directory stand.                                 *)

LEMMA FirstOffset ==
  ASSUME NEW d
  PROVE  Offset(d, 1) = 0
<1>1. Before(d, 1) = {}
  BY DEF Before
<1> QED BY <1>1, FS_EmptySet DEF Offset, Before

LEMMA OffsetOrder ==
  ASSUME NEW d, NEW i \in Nat, NEW j \in Nat, i <= j
  PROVE  Offset(d, i) <= Offset(d, j)
<1>1. Before(d, i) \subseteq Before(d, j)
  BY DEF Before
<1>2. IsFiniteSet(Before(d, j))
  BY OffsetType
<1> QED BY <1>1, <1>2, FS_Subset DEF Offset, Before

\* An entry takes one token more than its file has sectors.
LEMMA OffsetExact ==
  ASSUME TypeOK, SectorsExclusive, NEW d \in Desc, NEW i \in DOMAIN files[d]
  PROVE  Offset(d, i + 1) = Offset(d, i) + 1 + Len(sectors[files[d][i]])
<1> DEFINE len == Len(sectors[files[d][i]])
           own == {i} \X (0 .. len)
<1>1. i \in Nat \ {0} /\ files[d][i] \in Desc
  BY DEF TypeOK
<1>2. len \in Nat /\ len <= DiskSize
  BY <1>1, FewSectors DEF TypeOK, SectorsExclusive
<1>3. IsFiniteSet(own) /\ Cardinality(own) = len + 1
  <2> HIDE DEF len
  <2> QED BY <1>2, PairsOf
<1>4. Before(d, i + 1) = Before(d, i) \cup own
  <2>1. Before(d, i + 1) \subseteq Before(d, i) \cup own
    BY <1>1, <1>2, SizesAssumption DEF Before
  <2>2. Before(d, i) \subseteq Before(d, i + 1)
    BY <1>1 DEF Before
  <2>3. own \subseteq Before(d, i + 1)
    BY <1>1, <1>2, SizesAssumption DEF Before
  <2> QED BY <2>1, <2>2, <2>3
<1>5. Before(d, i) \cap own = {}
  BY <1>1 DEF Before
<1> HIDE DEF own, len
<1>6. IsFiniteSet(Before(d, i)) /\ Cardinality(Before(d, i)) \in Nat
  BY <1>1, OffsetType DEF Offset, Before
<1>7. Cardinality(Before(d, i + 1)) = Cardinality(Before(d, i)) + (len + 1) - Cardinality({})
  BY <1>3, <1>4, <1>5, <1>6, FS_Union
<1>8. Cardinality({}) = 0
  BY FS_EmptySet
<1>9. Offset(d, i + 1) = Cardinality(Before(d, i + 1)) /\ Offset(d, i) = Cardinality(Before(d, i))
  BY DEF Offset, Before
<1> QED BY <1>2, <1>6, <1>7, <1>8, <1>9 DEF len

\* The tokens of the serialization, one by one.
LEMMA SerializeToken ==
  ASSUME TypeOK, SectorsExclusive, NEW d \in Desc, NEW i \in DOMAIN files[d],
         NEW j \in 1 .. 1 + Len(sectors[files[d][i]])
  PROVE  /\ Offset(d, i) + j \in 1 .. Bytes(d)
         /\ Serialize(d)[Offset(d, i) + j] = Entry(files[d][i])[j]
<1> DEFINE n == Len(files[d])
           o(k) == Offset(d, k)
           len == Len(sectors[files[d][i]])
           t == o(i) + j
           child == CHOOSE k \in DOMAIN files[d] : o(k) < t /\ t <= o(k + 1)
<1>1. n \in Nat /\ DOMAIN files[d] = 1 .. n /\ files[d][i] \in Desc
  BY DEF TypeOK
<1>2. len \in Nat /\ j \in 1 .. 1 + len /\ i \in 1 .. n
  BY <1>1 DEF TypeOK
<1>3. \A k \in Nat : o(k) \in Nat
  BY OffsetType
<1>4. \A k, l \in Nat : k <= l => o(k) <= o(l)
  BY OffsetOrder
<1>5. o(i + 1) = o(i) + 1 + len
  BY OffsetExact
<1>6. Serialize(d)[t] = Entry(files[d][child])[t - o(child)] \/ t \notin 1 .. o(n + 1)
  BY DEF Serialize
<1>7. Bytes(d) = o(n + 1)
  BY DEF Bytes
<1> HIDE DEF o, n, len
<1>8. t \in Nat /\ o(i) < t /\ t <= o(i + 1)
  <2>1. i \in Nat /\ o(i) \in Nat
    BY <1>1, <1>2, <1>3
  <2> QED BY <1>2, <1>5, <2>1
<1>9. t \in 1 .. o(n + 1)
  <2>1. i + 1 \in Nat /\ n + 1 \in Nat /\ i + 1 <= n + 1 /\ i \in Nat
    BY <1>1, <1>2
  <2>2. o(i) \in Nat /\ o(i + 1) \in Nat /\ o(n + 1) \in Nat /\ o(i + 1) <= o(n + 1)
    BY <1>3, <1>4, <2>1
  <2> HIDE DEF t
  <2> QED BY <1>8, <2>2
<1>10. \A k \in DOMAIN files[d] : o(k) < t /\ t <= o(k + 1) => k = i
  <2> SUFFICES ASSUME NEW k \in DOMAIN files[d], o(k) < t, t <= o(k + 1), k # i PROVE FALSE
    OBVIOUS
  <2>1. CASE k < i
    <3>1. o(k + 1) <= o(i)
      BY <1>1, <1>4, <2>1
    <3>2. t \in Nat /\ o(i) \in Nat /\ o(k + 1) \in Nat
      BY <1>1, <1>3, <1>8
    <3>3. o(i) < t /\ t <= o(k + 1)
      BY <1>8
    <3> QED BY ONLY <3>1, <3>2, <3>3
  <2>2. CASE k > i
    <3>1. o(i + 1) <= o(k)
      BY <1>1, <1>4, <2>2
    <3>2. t \in Nat /\ o(k) \in Nat /\ o(i + 1) \in Nat
      BY <1>1, <1>3, <1>8
    <3>3. o(k) < t /\ t <= o(i + 1)
      BY <1>8
    <3> QED BY ONLY <3>1, <3>2, <3>3
  <2> QED BY <1>1, <2>1, <2>2
<1>11. child = i
  <2> HIDE DEF t
  <2>1. child \in DOMAIN files[d] /\ o(child) < t /\ t <= o(child + 1)
    <3>1. \E k \in DOMAIN files[d] : o(k) < t /\ t <= o(k + 1)
      BY <1>8
    <3> QED BY <3>1, Zenon
  <2> HIDE DEF child
  <2> QED BY <1>10, <2>1
<1>12. t - o(child) = j
  <2>1. i \in Nat /\ o(i) \in Nat
    BY <1>1, <1>2, <1>3
  <2> HIDE DEF child
  <2> QED BY <1>2, <1>11, <2>1
<1> HIDE DEF child
<1>13. Serialize(d)[t] = Entry(files[d][i])[j]
  <2> HIDE DEF t
  <2> QED BY <1>6, <1>9, <1>11, <1>12
<1> QED BY <1>7, <1>9, <1>13 DEF o

LEMMA EntryTokens ==
  ASSUME TypeOK, NEW f \in Desc
  PROVE  /\ Entry(f)[1] = <<"head", name[f], f \in Dirs, size[f]>>
         /\ \A j \in 1 .. Len(sectors[f]) : Entry(f)[1 + j] = <<"ref", sectors[f][j]>>
<1> DEFINE head == <<"head", name[f], f \in Dirs, size[f]>>
           ref(j) == <<"ref", sectors[f][j]>>
           n == Len(sectors[f])
           refs == [j \in 1 .. n |-> ref(j)]
<1>1. n \in Nat
  BY DEF TypeOK
<1>2. Entry(f) = <<head>> \o refs
  BY DEF Entry
<1> HIDE DEF head, ref, n
<1>3. (<<head>> \o refs)[1] = head /\ \A j \in 1 .. n : (<<head>> \o refs)[1 + j] = refs[j]
  <2>1. Len(refs) = n /\ Len(<<head>>) = 1
    BY <1>1
  <2> QED BY <1>1, <2>1
<1> QED BY <1>2, <1>3 DEF head, ref, n

\* An array with the entry of every child in its place is the serialization.
LEMMA SerializeUnique ==
  ASSUME TypeOK, SectorsExclusive, NEW d \in Desc, NEW arr \in Seq(Token), Len(arr) = Bytes(d),
         \A i \in DOMAIN files[d] : \A j \in 1 .. 1 + Len(sectors[files[d][i]]) :
           arr[Offset(d, i) + j] = Entry(files[d][i])[j]
  PROVE  arr = Serialize(d)
<1> DEFINE n == Bytes(d)
           all == Serialize(d)
<1>1. n \in Nat
  BY BytesType
<1>2. DOMAIN arr = 1 .. n /\ all \in Seq(Token) /\ DOMAIN all = 1 .. n
  <2>1. DOMAIN all = 1 .. n
    BY DEF Serialize, Bytes
  <2> QED BY <2>1, SerializeType
<1>3. ASSUME NEW t \in 1 .. n
      PROVE  arr[t] = all[t]
  <2>1. PICK i \in DOMAIN files[d] : Offset(d, i) < t /\ t <= Offset(d, i + 1)
    BY SerializeCovers DEF Bytes
  <2>2. i \in Nat /\ i + 1 \in Nat /\ files[d][i] \in Desc
    BY ListedChild
  <2>3. Offset(d, i) \in Nat /\ Offset(d, i + 1) \in Nat
    BY <2>2, OffsetType
  <2>4. Offset(d, i + 1) = Offset(d, i) + 1 + Len(sectors[files[d][i]])
    BY OffsetExact
  <2>5. Len(sectors[files[d][i]]) \in Nat
    BY <2>2 DEF TypeOK
  <2> DEFINE o == Offset(d, i)
             len == Len(sectors[files[d][i]])
             j == t - o
  <2> HIDE DEF o, len
  <2>6. j \in 1 .. 1 + len /\ o + j = t
    BY <1>1, <2>1, <2>3, <2>4, <2>5 DEF o, len
  <2> HIDE DEF j
  <2>7. all[o + j] = Entry(files[d][i])[j]
    BY <2>6, SerializeToken DEF o, len
  <2>8. arr[o + j] = Entry(files[d][i])[j]
    BY <2>6 DEF o, len
  <2> QED BY <2>6, <2>7, <2>8
<1> HIDE DEF n, all
<1> QED BY <1>1, <1>2, <1>3 DEF all

-----------------------------------------------------------------------------
(* The walk of load over the data of a directory.                          *)

\* Entries that stand one behind the other, the i-th behind o[i] tokens.
LEMMA WalkOrder ==
  ASSUME NEW n \in Nat, NEW o, \A i \in 1 .. n + 1 : o[i] \in Nat,
         \A i \in 1 .. n : o[i] < o[i + 1]
  PROVE  /\ \A i \in 1 .. n + 1 : i - 1 <= o[i]
         /\ \A i, j \in 1 .. n + 1 : i < j => o[i] < o[j]
<1>1. \A i \in 1 .. n + 1 : i - 1 <= o[i]
  <2> SUFFICES ASSUME NEW bad \in 1 .. n + 1, ~ (bad - 1 <= o[bad]) PROVE FALSE
    OBVIOUS
  <2> DEFINE S == {i \in 1 .. n + 1 : ~ (i - 1 <= o[i])}
  <2>1. S \in SUBSET Nat /\ S # {}
    OBVIOUS
  <2> HIDE DEF S
  <2>2. PICK m \in S : \A k \in S : m <= k
    BY <2>1, LeastNatural
  <2>3. m \in 1 .. n + 1 /\ ~ (m - 1 <= o[m])
    BY <2>2 DEF S
  <2>4. m # 1
    BY <2>3
  <2>5. m - 1 \in 1 .. n /\ m - 1 \in 1 .. n + 1 /\ (m - 1) + 1 = m /\ ~ (m <= m - 1)
    BY <2>3, <2>4
  <2>6. m - 1 \notin S
    BY <2>2, <2>5
  <2>7. (m - 1) - 1 <= o[m - 1] /\ o[m - 1] < o[m]
    BY <2>5, <2>6 DEF S
  <2> QED BY <2>3, <2>5, <2>7
<1>2. ASSUME NEW i \in 1 .. n + 1
      PROVE  \A j \in 1 .. n + 1 : i < j => o[i] < o[j]
  <2> SUFFICES ASSUME NEW bad \in 1 .. n + 1, i < bad, ~ (o[i] < o[bad]) PROVE FALSE
    OBVIOUS
  <2> DEFINE S == {j \in 1 .. n + 1 : i < j /\ ~ (o[i] < o[j])}
  <2>1. S \in SUBSET Nat /\ S # {}
    OBVIOUS
  <2> HIDE DEF S
  <2>2. PICK m \in S : \A k \in S : m <= k
    BY <2>1, LeastNatural
  <2>3. m \in 1 .. n + 1 /\ i < m /\ ~ (o[i] < o[m])
    BY <2>2 DEF S
  <2>4. m - 1 \in 1 .. n /\ m - 1 \in 1 .. n + 1 /\ (m - 1) + 1 = m /\ ~ (m <= m - 1)
    BY <2>3
  <2>5. m - 1 \notin S
    BY <2>2, <2>4
  <2>6. o[m - 1] < o[m]
    BY <2>4
  <2>7. m - 1 = i \/ o[i] < o[m - 1]
    BY <2>3, <2>4, <2>5 DEF S
  <2> QED BY <2>3, <2>4, <2>6, <2>7
<1> QED BY <1>1, <1>2

\* Induction over a set of numbers.
LEMMA UpTo ==
  ASSUME NEW N \in Nat, NEW P, 0 \in P, \A n \in 0 .. N - 1 : n \in P => n + 1 \in P
  PROVE  \A n \in 0 .. N : n \in P
<1> SUFFICES ASSUME NEW bad \in 0 .. N, bad \notin P PROVE FALSE
  OBVIOUS
<1> DEFINE S == {n \in 0 .. N : n \notin P}
<1>1. S \in SUBSET Nat /\ S # {}
  OBVIOUS
<1> HIDE DEF S
<1>2. PICK m \in S : \A k \in S : m <= k
  BY <1>1, LeastNatural
<1>3. m \in 0 .. N /\ m \notin P /\ m # 0
  BY <1>2 DEF S
<1>4. m - 1 \in 0 .. N - 1 /\ m - 1 \in 0 .. N /\ (m - 1) + 1 = m
  BY <1>3
<1>5. m - 1 \notin S
  BY <1>2, <1>3, <1>4
<1> QED BY <1>3, <1>4, <1>5 DEF S

\* One turn of the loop of load, from the entry at i.
WalkNext(data, i) == IF i > Len(data) THEN i ELSE i + 1 + SectorCount(SizeAt(data, i))
Walks(data, g) ==
  g = [k \in 0 .. Len(data) |-> IF k = 0 THEN 1 ELSE WalkNext(data, g[k - 1])]

\* The walk takes one way.
LEMMA OneWalk ==
  ASSUME NEW data, Len(data) \in Nat, NEW g, NEW w, Walks(data, g), Walks(data, w)
  PROVE  g = w
<1> DEFINE N == Len(data)
           P == {k \in 0 .. N : g[k] = w[k]}
           next(i) == WalkNext(data, i)
<1>1. /\ g = [k \in 0 .. N |-> IF k = 0 THEN 1 ELSE next(g[k - 1])]
      /\ w = [k \in 0 .. N |-> IF k = 0 THEN 1 ELSE next(w[k - 1])]
      /\ N \in Nat
  BY DEF Walks
<1> HIDE DEF next, N
<1>2. g[0] = 1 /\ w[0] = 1 /\ 0 \in 0 .. N
  <2>1. 0 \in 0 .. N
    BY <1>1
  <2> QED BY <1>1, <2>1
<1>3. ASSUME NEW k \in 0 .. N - 1, k \in P PROVE k + 1 \in P
  <2>1. k + 1 \in 0 .. N /\ k + 1 # 0 /\ (k + 1) - 1 = k
    BY <1>1
  <2>2. g[k + 1] = next(g[k])
    BY <1>1, <2>1
  <2>3. w[k + 1] = next(w[k])
    BY <1>1, <2>1
  <2>4. g[k] = w[k]
    BY <1>3
  <2> QED BY <2>1, <2>2, <2>3, <2>4
<1>4. 0 \in P
  BY <1>2
<1> HIDE DEF P
<1>5. \A k \in 0 .. N : k \in P
  BY <1>1, <1>3, <1>4, UpTo
<1>6. \A k \in 0 .. N : g[k] = w[k]
  BY <1>5 DEF P
<1>7. g = [k \in 0 .. N |-> g[k]] /\ w = [k \in 0 .. N |-> w[k]]
  BY <1>1
<1> QED BY <1>6, <1>7

LEMMA StartsAre ==
  ASSUME NEW data, Len(data) \in Nat, NEW w, Walks(data, w)
  PROVE  Starts(data) = {w[k] : k \in 0 .. Len(data)} \cap DOMAIN data
<1> DEFINE solves(g) == Walks(data, g)
           start == CHOOSE g : solves(g)
<1>1. Starts(data) = {start[k] : k \in 0 .. Len(data)} \cap DOMAIN data
  BY DEF Starts, Walks, WalkNext
<1>2. solves(start)
  <2> HIDE DEF solves
  <2>1. solves(w)
    BY DEF solves
  <2> QED BY <2>1, Zenon
<1> HIDE DEF start
<1>3. start = w
  BY <1>2, OneWalk
<1> QED BY <1>1, <1>3

\* The data is n entries one behind the other, the i-th behind o[i] tokens.
IsEntries(data, n, o) ==
  /\ n \in Nat /\ o[1] = 0 /\ \A i \in 1 .. n + 1 : o[i] \in Nat
  /\ \A i \in 1 .. n : o[i] < o[i + 1]
  /\ Len(data) = o[n + 1] /\ DOMAIN data = 1 .. Len(data)
  /\ \A i \in 1 .. n : SectorCount(SizeAt(data, o[i] + 1)) = o[i + 1] - o[i] - 1

\* The walk over entries that stand one behind the other finds them.
LEMMA WalkFinds ==
  ASSUME NEW data, NEW n, NEW o, IsEntries(data, n, o)
  PROVE  Starts(data) = {o[i] + 1 : i \in 1 .. n}
<1>0. /\ n \in Nat /\ o[1] = 0 /\ \A i \in 1 .. n + 1 : o[i] \in Nat
      /\ \A i \in 1 .. n : o[i] < o[i + 1]
      /\ Len(data) = o[n + 1] /\ DOMAIN data = 1 .. Len(data)
      /\ \A i \in 1 .. n : SectorCount(SizeAt(data, o[i] + 1)) = o[i + 1] - o[i] - 1
  BY DEF IsEntries
<1> USE <1>0
<1> DEFINE N == Len(data)
           next(i) == WalkNext(data, i)
           w == [k \in 0 .. N |-> IF k < n THEN o[k + 1] + 1 ELSE N + 1]
<1>1. N \in Nat /\ N = o[n + 1] /\ n + 1 \in 1 .. n + 1
  OBVIOUS
<1>2. \A i \in 1 .. n + 1 : i - 1 <= o[i] /\ o[i] \in Nat
  BY WalkOrder
<1>3. \A i \in 1 .. n : o[i] < N
  <2> SUFFICES ASSUME NEW i \in 1 .. n PROVE o[i] < o[n + 1]
    BY <1>1
  <2>1. i \in 1 .. n + 1 /\ n + 1 \in 1 .. n + 1 /\ i < n + 1
    OBVIOUS
  <2> QED BY <2>1, WalkOrder
<1>4. \A i \in 1 .. n : next(o[i] + 1) = o[i + 1] + 1
  <2> SUFFICES ASSUME NEW i \in 1 .. n PROVE next(o[i] + 1) = o[i + 1] + 1
    OBVIOUS
  <2>1. i \in 1 .. n + 1 /\ i + 1 \in 1 .. n + 1
    OBVIOUS
  <2>2. o[i] \in Nat /\ o[i + 1] \in Nat /\ ~ (o[i] + 1 > N)
    BY <1>1, <1>3, <2>1
  <2>3. next(o[i] + 1) = (o[i] + 1) + 1 + SectorCount(SizeAt(data, o[i] + 1))
    BY <2>2 DEF WalkNext
  <2>4. SectorCount(SizeAt(data, o[i] + 1)) = o[i + 1] - o[i] - 1
    OBVIOUS
  <2> DEFINE x == o[i]
             y == o[i + 1]
             c == SectorCount(SizeAt(data, o[i] + 1))
             z == next(o[i] + 1)
  <2>5. x \in Nat /\ y \in Nat /\ z = (x + 1) + 1 + c /\ c = y - x - 1
    BY <2>2, <2>3, <2>4
  <2> HIDE DEF next, x, y, c, z
  <2>6. z = y + 1
    BY <2>5
  <2> QED BY <2>6 DEF z, y
<1>5. next(N + 1) = N + 1
  BY <1>1 DEF WalkNext
<1> HIDE DEF N, next
<1>6. ASSUME NEW k \in 0 .. N
      PROVE  w[k] = IF k = 0 THEN 1 ELSE next(w[k - 1])
  <2>1. CASE k = 0
    <3>1. n = 0 => N = 0
      BY <1>1
    <3> QED BY <1>1, <2>1, <3>1
  <2>2. CASE k # 0
    <3>1. k - 1 \in 0 .. N /\ (k - 1) + 1 = k /\ k \in Nat
      BY <1>1, <2>2
    <3>2. CASE k - 1 < n
      <4>1. k \in 1 .. n
        BY <2>2, <3>1, <3>2
      <4>2. w[k - 1] = o[k] + 1
        BY <3>1, <3>2
      <4>3. next(w[k - 1]) = o[k + 1] + 1
        BY <1>4, <4>1, <4>2
      <4>4. k < n \/ k = n
        BY <4>1
      <4>5. w[k] = o[k + 1] + 1
        BY <1>1, <4>4
      <4> QED BY <2>2, <4>3, <4>5
    <3>3. CASE ~ (k - 1 < n)
      <4>1. w[k - 1] = N + 1 /\ w[k] = N + 1
        BY <3>1, <3>3
      <4> QED BY <1>5, <2>2, <4>1
    <3> QED BY <3>2, <3>3
  <2> QED BY <2>1, <2>2
<1>7. Walks(data, w)
  <2>1. w = [k \in 0 .. N |-> w[k]]
    OBVIOUS
  <2> HIDE DEF w
  <2>2. w = [k \in 0 .. N |-> IF k = 0 THEN 1 ELSE next(w[k - 1])]
    BY <1>6, <2>1
  <2> QED BY <2>2 DEF Walks, next, N
<1>8. Starts(data) = {w[k] : k \in 0 .. N} \cap (1 .. N)
  <2> HIDE DEF w
  <2> QED BY <1>1, <1>7, StartsAre DEF N
<1>9. ASSUME NEW i \in 1 .. n
      PROVE  o[i] + 1 \in {w[k] : k \in 0 .. N} \cap (1 .. N)
  <2>1. o[i] \in Nat /\ i - 1 <= o[i] /\ o[i] < N
    BY <1>2, <1>3
  <2>2. i - 1 \in 0 .. N /\ i - 1 < n /\ (i - 1) + 1 = i
    BY <1>1, <2>1
  <2>3. w[i - 1] = o[i] + 1
    BY <2>2
  <2>4. o[i] + 1 \in 1 .. N
    BY <1>1, <2>1
  <2> HIDE DEF w
  <2> QED BY <2>2, <2>3, <2>4
<1>10. ASSUME NEW k \in 0 .. N, w[k] \in 1 .. N
       PROVE  w[k] \in {o[i] + 1 : i \in 1 .. n}
  <2>1. k < n
    <3> SUFFICES ASSUME ~ (k < n) PROVE FALSE
      OBVIOUS
    <3>1. w[k] = N + 1
      OBVIOUS
    <3> QED BY <1>1, <1>10, <3>1
  <2>2. w[k] = o[k + 1] + 1 /\ k + 1 \in 1 .. n
    BY <1>1, <2>1
  <2> HIDE DEF w
  <2> QED BY <2>2
<1> HIDE DEF w
<1>11. {w[k] : k \in 0 .. N} \cap (1 .. N) \subseteq {o[i] + 1 : i \in 1 .. n}
  BY <1>10
<1>12. {o[i] + 1 : i \in 1 .. n} \subseteq {w[k] : k \in 0 .. N} \cap (1 .. N)
  BY <1>9
<1> QED BY <1>8, <1>11, <1>12

\* The m-th entry of the walk is the m-th one on the disk.
LEMMA WalkCounts ==
  ASSUME NEW n \in Nat, NEW o, \A i \in 1 .. n + 1 : o[i] \in Nat,
         \A i \in 1 .. n : o[i] < o[i + 1], NEW m \in 0 .. n
  PROVE  Cardinality({o[i] + 1 : i \in 1 .. m}) = m
<1> DEFINE S == 1 .. m
           T == {o[i] + 1 : i \in 1 .. m}
           f == [i \in S |-> o[i] + 1]
<1>1. \A i \in S : o[i] \in Nat
  OBVIOUS
<1>2. \A i, j \in S : i < j => o[i] < o[j]
  <2>1. S \subseteq 1 .. n + 1
    OBVIOUS
  <2> QED BY <2>1, WalkOrder
<1>3. \A i, j \in S : i \in Nat /\ j \in Nat
  OBVIOUS
<1>4. \A i, j \in S : f[i] = f[j] => i = j
  <2> SUFFICES ASSUME NEW i \in S, NEW j \in S, o[i] + 1 = o[j] + 1, i # j PROVE FALSE
    OBVIOUS
  <2>1. i < j \/ j < i
    BY <1>3
  <2>2. o[i] \in Nat /\ o[j] \in Nat
    BY <1>1
  <2> HIDE DEF S
  <2> QED BY <1>2, <2>1, <2>2
<1>5. IsFiniteSet(S) /\ Cardinality(S) = m
  BY FS_Interval
<1>6. f \in Bijection(S, T)
  <2>1. f \in [S -> T]
    OBVIOUS
  <2>2. \A t \in T : \E s \in S : f[s] = t
    OBVIOUS
  <2> HIDE DEF f, S, T
  <2>3. f \in Injection(S, T)
    <3>1. DOMAIN f = S
      BY <2>1
    <3> QED BY <1>4, <2>1, <3>1 DEF Injection, IsInjective
  <2>4. f \in Surjection(S, T)
    BY <2>1, <2>2 DEF Surjection
  <2> QED BY <2>3, <2>4 DEF Bijection
<1> HIDE DEF f, S, T
<1>7. Cardinality(S) = Cardinality(T)
  <2>1. ExistsBijection(S, T)
    BY <1>6 DEF ExistsBijection
  <2> QED BY <1>5, <2>1, FS_Bijection
<1> QED BY <1>5, <1>7 DEF T

LEMMA HeadSizes ==
  ASSUME NEW data, NEW i, NEW nm, NEW dir, NEW sz, data[i] = <<"head", nm, dir, sz>>
  PROVE  SizeAt(data, i) = sz
BY DEF SizeAt

\* When no call is in progress, load finds the entries of every directory.
LEMMA WalkSerialized ==
  ASSUME TypeOK, SectorsExclusive, SizesFit, Idle, NEW d \in Desc, NEW data, data = Serialize(d)
  PROVE  /\ Starts(data) = {Offset(d, i) + 1 : i \in DOMAIN files[d]}
         /\ \A i \in DOMAIN files[d] : Loads(data, Offset(d, i) + 1, files[d][i])
<1> DEFINE n == Len(files[d])
           o == [i \in 1 .. n + 1 |-> Offset(d, i)]
<1>1. n \in Nat /\ DOMAIN files[d] = 1 .. n
  BY DEF TypeOK
<1>2. \A i \in 1 .. n : files[d][i] \in Desc /\ Len(sectors[files[d][i]]) \in Nat
  BY <1>1 DEF TypeOK
<1>3. \A f \in Desc : Len(sectors[f]) = SectorCount(size[f])
  BY DEF SizesFit, Growing, Idle
<1>4. DOMAIN data = 1 .. Bytes(d) /\ Len(data) = Bytes(d) /\ Bytes(d) \in Nat
  <2>1. DOMAIN data = 1 .. Bytes(d) /\ data \in Seq(Token) /\ Bytes(d) \in Nat
    <3>1. DOMAIN data = 1 .. Bytes(d)
      BY DEF Serialize, Bytes
    <3> QED BY <3>1, SerializeType, BytesType
  <2> DEFINE m == Bytes(d)
  <2>2. DOMAIN data = 1 .. m /\ data \in Seq(Token) /\ m \in Nat
    BY <2>1
  <2> HIDE DEF m
  <2>3. Len(data) = m
    BY ONLY <2>2
  <2> QED BY <2>2, <2>3 DEF m
<1>5. \A i \in 1 .. n + 1 : o[i] \in Nat
  <2>1. \A i \in 1 .. n + 1 : i \in Nat
    OBVIOUS
  <2> QED BY <2>1, OffsetType
<1>6. \A i \in 1 .. n : o[i + 1] = o[i] + 1 + Len(sectors[files[d][i]]) /\ o[i] = Offset(d, i)
  <2> SUFFICES ASSUME NEW i \in 1 .. n
               PROVE  o[i + 1] = o[i] + 1 + Len(sectors[files[d][i]]) /\ o[i] = Offset(d, i)
    OBVIOUS
  <2>1. i \in 1 .. n + 1 /\ i + 1 \in 1 .. n + 1
    BY <1>1
  <2>2. o[i + 1] = Offset(d, i + 1) /\ o[i] = Offset(d, i)
    BY <2>1
  <2>3. Offset(d, i + 1) = Offset(d, i) + 1 + Len(sectors[files[d][i]])
    BY <1>1, OffsetExact
  <2> QED BY <2>2, <2>3
<1>7. o[1] = 0 /\ o[n + 1] = Bytes(d)
  <2>1. 1 \in 1 .. n + 1 /\ n + 1 \in 1 .. n + 1
    BY <1>1
  <2>2. o[1] = Offset(d, 1) /\ o[n + 1] = Offset(d, n + 1)
    BY <2>1
  <2> QED BY <2>2, FirstOffset DEF Bytes
<1>8. ASSUME NEW i \in 1 .. n, NEW f, f = files[d][i], NEW at, at = Offset(d, i)
      PROVE  /\ data[at + 1] = <<"head", name[f], f \in Dirs, size[f]>>
             /\ \A j \in DOMAIN sectors[f] :
                  at + 1 + j <= Len(data) /\ data[at + 1 + j] = <<"ref", sectors[f][j]>>
  <2>1. f \in Desc /\ Len(sectors[f]) \in Nat /\ DOMAIN sectors[f] = 1 .. Len(sectors[f])
    BY <1>2, <1>8 DEF TypeOK
  <2>2. i \in DOMAIN files[d] /\ i \in Nat
    BY <1>1
  <2>3. at \in Nat
    BY <1>8, <2>2, OffsetType
  <2>4. data[at + 1] = Entry(f)[1]
    <3>1. 1 \in 1 .. 1 + Len(sectors[f])
      BY <2>1
    <3> QED BY <1>8, <2>2, <3>1, SerializeToken
  <2>5. ASSUME NEW j \in DOMAIN sectors[f]
        PROVE  at + 1 + j <= Len(data) /\ data[at + 1 + j] = <<"ref", sectors[f][j]>>
    <3>1. 1 + j \in 1 .. 1 + Len(sectors[f]) /\ j \in 1 .. Len(sectors[f]) /\ j \in Nat
      BY <2>1
    <3>2. at + (1 + j) \in 1 .. Bytes(d) /\ data[at + (1 + j)] = Entry(f)[1 + j]
      BY <1>8, <2>2, <3>1, SerializeToken
    <3>3. at + (1 + j) = at + 1 + j
      BY <2>3, <3>1
    <3>4. Entry(f)[1 + j] = <<"ref", sectors[f][j]>>
      BY <2>1, <3>1, EntryTokens
    <3>5. at + 1 + j <= Len(data)
      BY <1>4, <3>2, <3>3
    <3> QED BY <3>2, <3>3, <3>4, <3>5
  <2> QED BY <2>1, <2>4, <2>5, EntryTokens
<1>9. \A i \in 1 .. n : SectorCount(SizeAt(data, o[i] + 1)) = o[i + 1] - o[i] - 1
  <2> SUFFICES ASSUME NEW i \in 1 .. n
               PROVE  SectorCount(SizeAt(data, o[i] + 1)) = o[i + 1] - o[i] - 1
    OBVIOUS
  <2> DEFINE f == files[d][i]
             x == o[i]
             y == o[i + 1]
             len == Len(sectors[f])
  <2>1. i \in 1 .. n + 1 /\ i + 1 \in 1 .. n + 1
    BY <1>1
  <2>2. x \in Nat /\ y \in Nat /\ y = x + 1 + len /\ len \in Nat /\ x = Offset(d, i) /\ f \in Desc
    BY <1>2, <1>5, <1>6, <2>1
  <2>3. SizeAt(data, x + 1) = size[f]
    <3>1. data[x + 1] = <<"head", name[f], f \in Dirs, size[f]>>
      BY <1>8, <2>2
    <3> HIDE DEF x, f
    <3> QED BY <3>1, HeadSizes
  <2>4. SectorCount(SizeAt(data, x + 1)) = len
    BY <1>3, <2>2, <2>3
  <2> HIDE DEF x, y, len, f
  <2>5. len = y - x - 1
    BY <2>2
  <2> QED BY <2>4, <2>5 DEF x, y
<1>10. \A i \in 1 .. n : o[i] < o[i + 1]
  <2> SUFFICES ASSUME NEW i \in 1 .. n PROVE o[i] < o[i + 1]
    OBVIOUS
  <2> DEFINE x == o[i]
             y == o[i + 1]
             len == Len(sectors[files[d][i]])
  <2>1. i \in 1 .. n + 1
    BY <1>1
  <2>2. x \in Nat /\ len \in Nat /\ y = x + 1 + len
    BY <1>2, <1>5, <1>6, <2>1
  <2> HIDE DEF x, y, len
  <2>3. x < y
    BY <2>2
  <2> QED BY <2>3 DEF x, y
<1> HIDE DEF o, n
<1>11. Starts(data) = {o[i] + 1 : i \in 1 .. n}
  <2>1. n \in Nat /\ o[1] = 0 /\ Len(data) = o[n + 1] /\ DOMAIN data = 1 .. Len(data)
    BY <1>1, <1>4, <1>7
  <2>2. IsEntries(data, n, o)
    BY ONLY <2>1, <1>5, <1>9, <1>10 DEF IsEntries
  <2> QED BY ONLY <2>2, WalkFinds
<1>12. \A i \in DOMAIN files[d] : o[i] = Offset(d, i)
  BY <1>1, <1>6
<1>13. \A i \in DOMAIN files[d] : Loads(data, Offset(d, i) + 1, files[d][i])
  BY <1>1, <1>2, <1>3, <1>8 DEF Loads
<1> QED BY <1>1, <1>11, <1>12, <1>13

LEMMA EntryCounts ==
  ASSUME TypeOK, SectorsExclusive, NEW d \in Desc,
         NEW S, S = {Offset(d, i) + 1 : i \in DOMAIN files[d]}
  PROVE  /\ Cardinality(S) = Len(files[d])
         /\ \A i \in DOMAIN files[d] : Cardinality({j \in S : j <= Offset(d, i) + 1}) = i
<1> DEFINE n == Len(files[d])
           o == [i \in 1 .. n + 1 |-> Offset(d, i)]
<1>1. n \in Nat /\ DOMAIN files[d] = 1 .. n
  BY DEF TypeOK
<1>2. \A i \in 1 .. n + 1 : o[i] \in Nat
  <2>1. \A i \in 1 .. n + 1 : i \in Nat
    OBVIOUS
  <2> QED BY <2>1, OffsetType
<1>3. \A i \in 1 .. n : o[i] < o[i + 1]
  <2> SUFFICES ASSUME NEW i \in 1 .. n PROVE o[i] < o[i + 1]
    OBVIOUS
  <2> DEFINE x == o[i]
             y == o[i + 1]
             len == Len(sectors[files[d][i]])
  <2>1. i \in 1 .. n + 1 /\ i + 1 \in 1 .. n + 1
    BY <1>1
  <2>2. x \in Nat /\ y = Offset(d, i + 1) /\ x = Offset(d, i)
    BY <1>2, <2>1
  <2>3. Offset(d, i + 1) = Offset(d, i) + 1 + len
    BY <1>1, OffsetExact
  <2>4. len \in Nat
    BY <1>1 DEF TypeOK
  <2> HIDE DEF x, y, len
  <2>5. x < y
    BY <2>2, <2>3, <2>4
  <2> QED BY <2>5 DEF x, y
<1>4. \A i \in 1 .. n : o[i] = Offset(d, i)
  OBVIOUS
<1> HIDE DEF o, n
<1>5. S = {o[i] + 1 : i \in 1 .. n}
  BY <1>1, <1>4
<1>6. Cardinality(S) = n
  <2>1. n \in 0 .. n
    BY <1>1
  <2>2. Cardinality({o[i] + 1 : i \in 1 .. n}) = n
    BY <1>1, <1>2, <1>3, <2>1, WalkCounts
  <2> QED BY <1>5, <2>2
<1>7. ASSUME NEW m \in 1 .. n
      PROVE  Cardinality({j \in S : j <= o[m] + 1}) = m
  <2>1. \A i, j \in 1 .. n : i < j => o[i] < o[j]
    <3>1. \A i, j \in 1 .. n + 1 : i < j => o[i] < o[j]
      BY <1>1, <1>2, <1>3, WalkOrder
    <3>2. 1 .. n \subseteq 1 .. n + 1
      BY <1>1
    <3> QED BY <3>1, <3>2
  <2>2. \A i \in 1 .. n : o[i] \in Nat
    BY <1>1, <1>2
  <2>3. \A i \in 1 .. n : o[i] + 1 <= o[m] + 1 <=> i \in 1 .. m
    <3> SUFFICES ASSUME NEW i \in 1 .. n PROVE o[i] + 1 <= o[m] + 1 <=> i \in 1 .. m
      OBVIOUS
    <3>1. o[i] \in Nat /\ o[m] \in Nat /\ i \in Nat /\ m \in Nat /\ i >= 1
      BY <1>1, <2>2
    <3>2. CASE i < m
      <4>1. o[i] < o[m]
        BY <2>1, <3>2
      <4> QED BY <3>1, <3>2, <4>1
    <3>3. CASE m < i
      <4>1. o[m] < o[i]
        BY <2>1, <3>3
      <4> QED BY <3>1, <3>3, <4>1
    <3>4. CASE i = m
      BY <3>1, <3>4
    <3> QED BY <3>1, <3>2, <3>3, <3>4
  <2>4. 1 .. m \subseteq 1 .. n
    BY <1>1
  <2>5. {j \in S : j <= o[m] + 1} = {o[i] + 1 : i \in 1 .. m}
    <3>1. \A i \in 1 .. m : o[i] + 1 \in S /\ o[i] + 1 <= o[m] + 1
      BY <1>5, <2>3, <2>4
    <3>2. \A j \in S : j <= o[m] + 1 => \E i \in 1 .. m : j = o[i] + 1
      BY <1>5, <2>3
    <3> QED BY <3>1, <3>2
  <2>6. m \in 0 .. n
    BY <1>1
  <2>7. Cardinality({o[i] + 1 : i \in 1 .. m}) = m
    BY <1>1, <1>2, <1>3, <2>6, WalkCounts
  <2> QED BY <2>5, <2>7
<1> QED BY <1>1, <1>4, <1>6, <1>7 DEF n

\* What the invariants say of a mount between two calls.
LEMMA TreeFound ==
  ASSUME TypeOK, SectorsExclusive, SizesFit, ContentInv, Entered, CounterAgrees, RootSaved,
         BitsSaved, superblock.magic
  PROVE  MountFindsTree
<1> SUFFICES ASSUME Idle PROVE MountFindsTree
  BY DEF MountFindsTree
<1>1. stack = <<>> /\ DOMAIN stack = {}
  BY DEF Idle
<1>2. mount = [magic |-> TRUE, size |-> size[Root], sectors |-> sectors[Root],
               sector_bits |-> sector_bits, sectors_taken |-> sectors_taken]
  <2>1. superblock.size = size[Root] /\ superblock.sectors = sectors[Root] /\ bitmap = sector_bits
    BY <1>1 DEF RootSaved, BitsSaved, Grown
  <2>2. superblock.magic = TRUE
    BY DEF TypeOK
  <2>3. Root \in Desc /\ sectors[Root] \in Seq(Sector) /\ Len(sectors[Root]) = SectorCount(size[Root])
    BY <1>1, TreeAssumption DEF TypeOK, SizesFit, Growing
  <2> DEFINE seq == sectors[Root]
             n == SectorCount(size[Root])
  <2>4. [k \in 1 .. n |-> seq[k]] = seq
    <3>1. seq \in Seq(Sector) /\ Len(seq) = n
      BY <2>3
    <3> HIDE DEF seq, n
    <3> QED BY <3>1
  <2>5. [k \in 1 .. SectorCount(superblock.size) |-> superblock.sectors[k]] = sectors[Root]
    BY <2>1, <2>4
  <2>6. Cardinality(bitmap) = sectors_taken
    BY <2>1 DEF CounterAgrees
  <2> QED BY <2>1, <2>2, <2>5, <2>6 DEF mount
<1>3. ASSUME NEW d \in live \cap Dirs, NEW data, data = Read(d)
      PROVE  /\ Cardinality(Starts(data)) = Len(files[d])
             /\ \A i \in Starts(data) :
                  Loads(data, i, files[d][Cardinality({j \in Starts(data) : j <= i})])
  <2>1. d \in Desc
    BY TreeAssumption
  <2>2. data = Serialize(d)
    <3>1. Read(d) = content[d]
      BY <1>1, <2>1, ReadsBack DEF InTransfer
    <3>2. content[d] = Serialize(d)
      BY <1>1 DEF Entered, Awaited, Grown
    <3> QED BY <1>3, <3>1, <3>2
  <2>3. /\ Starts(data) = {Offset(d, i) + 1 : i \in DOMAIN files[d]}
        /\ \A i \in DOMAIN files[d] : Loads(data, Offset(d, i) + 1, files[d][i])
    BY <2>1, <2>2, WalkSerialized
  <2>4. /\ Cardinality(Starts(data)) = Len(files[d])
        /\ \A i \in DOMAIN files[d] : Cardinality({j \in Starts(data) : j <= Offset(d, i) + 1}) = i
    BY <2>1, <2>3, EntryCounts
  <2>5. ASSUME NEW i \in Starts(data)
        PROVE  Loads(data, i, files[d][Cardinality({j \in Starts(data) : j <= i})])
    <3>1. PICK m \in DOMAIN files[d] : i = Offset(d, m) + 1
      BY <2>3
    <3>2. Cardinality({j \in Starts(data) : j <= i}) = m
      BY <2>4, <3>1
    <3> QED BY <2>3, <3>1, <3>2
  <2> QED BY <2>4, <2>5
<1>4. \A d \in live \cap Dirs :
        LET data == Read(d)
            starts == Starts(data)
        IN  /\ Cardinality(starts) = Len(files[d])
            /\ \A i \in starts : Loads(data, i, files[d][Cardinality({j \in starts : j <= i})])
  BY <1>3
<1> QED BY <1>2, <1>4 DEF MountFindsTree

\* The token at place t of the file d.
Placed(d, t) == disk[sectors[d][((t - 1) \div SectorSize) + 1]][((t - 1) % SectorSize) + 1]

\* The entries of the image, token by token.
LEMMA ImageTokens ==
  ASSUME TypeOK, Init, NEW d \in Dirs \cap live, NEW i \in DOMAIN files[d], NEW f, f = files[d][i]
  PROVE  /\ Placed(d, Offset(d, i) + 1) = <<"head", name[f], f \in Dirs, size[f]>>
         /\ \A j \in DOMAIN sectors[f] :
              Placed(d, Offset(d, i) + 1 + j) = <<"ref", sectors[f][j]>>
<1> DEFINE list == Image.files[d]
           offset(k) == Cardinality({p \in (1 .. k - 1) \X (0 .. DiskSize) :
                                       p[2] <= Len(Image.sectors[list[p[1]]])})
           at(t) == Image.disk[Image.sectors[d][((t - 1) \div SectorSize) + 1]]
                              [((t - 1) % SectorSize) + 1]
<1>1. /\ live = Image.live /\ files = Image.files /\ sectors = Image.sectors /\ disk = Image.disk
      /\ name = Image.name /\ size = Image.size
  BY DEF Init
<1>2. /\ Image.size[d] = offset(Len(list) + 1)
      /\ \A k \in DOMAIN list :
           LET g == list[k]
           IN  /\ at(offset(k) + 1) = <<"head", Image.name[g], g \in Dirs, Image.size[g]>>
               /\ \A j \in DOMAIN Image.sectors[g] :
                    at(offset(k) + 1 + j) = <<"ref", Image.sectors[g][j]>>
  <2>1. d \in Dirs \cap Image.live
    BY <1>1
  <2> QED BY <2>1, EntriesAssumption, Zenon
<1>3. Offset(d, i) = offset(i)
  BY <1>1 DEF Offset
<1>4. \A t : Placed(d, t) = at(t)
  BY <1>1 DEF Placed
<1> HIDE DEF offset, at
<1>5. i \in DOMAIN list /\ list[i] = f
  BY <1>1
<1>6. /\ at(offset(i) + 1) = <<"head", Image.name[f], f \in Dirs, Image.size[f]>>
      /\ \A j \in DOMAIN Image.sectors[f] :
           at(offset(i) + 1 + j) = <<"ref", Image.sectors[f][j]>>
  BY <1>2, <1>5
<1> QED BY <1>1, <1>3, <1>4, <1>6

\* A byte of a file stands in one of its sectors.
LEMMA InSectors ==
  ASSUME TypeOK, NEW f \in Desc, Len(sectors[f]) = SectorCount(size[f]), NEW t \in 1 .. size[f]
  PROVE  Stored(f, t) = Placed(f, t)
<1> DEFINE m == size[f]
           n == (t - 1) \div SectorSize
<1>1. m \in Nat /\ t - 1 \in Nat /\ t - 1 < m /\ SectorSize \in Nat \ {0}
  BY SizesAssumption DEF TypeOK
<1>2. n \in Nat /\ n * SectorSize \in Nat /\ n * SectorSize <= t - 1
  <2> DEFINE u == t - 1
             r == u % SectorSize
             base == (u \div SectorSize) * SectorSize
  <2>1. u \in Nat
    BY <1>1
  <2> HIDE DEF u
  <2>2. u \div SectorSize \in Nat /\ r \in 0 .. SectorSize - 1 /\ base \in Nat /\ u = base + r
    BY <1>1, <2>1, Quotient
  <2> HIDE DEF r, base
  <2>3. base <= u
    BY <1>1, <2>1, <2>2
  <2> QED BY <2>2, <2>3 DEF u, base
<1> HIDE DEF m
<1>3. n * SectorSize < m
  <2> HIDE DEF n
  <2> DEFINE p == n * SectorSize
             u == t - 1
  <2>1. p \in Nat /\ u \in Nat /\ p <= u /\ u < m
    BY <1>1, <1>2
  <2> HIDE DEF p, u
  <2>2. p < m
    BY <1>1, <2>1
  <2> QED BY <2>2 DEF p
<1>4. n + 1 <= SectorCount(m)
  BY <1>1, <1>2, <1>3, SectorsReach
<1>5. n + 1 \in DOMAIN sectors[f]
  <2>1. sectors[f] \in Seq(Sector)
    BY DEF TypeOK
  <2> HIDE DEF n
  <2> QED BY <1>2, <1>4, <2>1 DEF m
<1> QED BY <1>5 DEF Stored, Slot, Placed

LEMMA InitEntered ==
  ASSUME TypeOK, SectorsExclusive, AuditInit
  PROVE  Entered
<1> SUFFICES ASSUME NEW d \in Dirs \cap live PROVE content[d] = Serialize(d)
  BY DEF Entered
<1>1. Init /\ d \in Desc /\ content = [f \in Desc |-> Read(f)]
  BY TreeAssumption DEF AuditInit
<1>2. /\ live = Image.live /\ files = Image.files /\ sectors = Image.sectors /\ size = Image.size
  BY <1>1 DEF Init
<1>3. size[d] = Bytes(d)
  BY <1>2, ImageSizes DEF Bytes, Offset
<1>4. Read(d) \in Seq(Token)
  BY <1>1, ReadType
<1>5. Read(d) = [t \in 1 .. size[d] |-> Stored(d, t)] /\ Bytes(d) \in Nat
  BY <1>1, ReadStored, BytesType
<1>6. Len(sectors[d]) = SectorCount(size[d])
  BY <1>1, <1>2, LoadAssumption
<1> DEFINE token(t) == Placed(d, t)
           arr == Read(d)
           m == Bytes(d)
<1>7. \A t \in 1 .. m : arr[t] = token(t)
  <2> SUFFICES ASSUME NEW t \in 1 .. m PROVE arr[t] = token(t)
    OBVIOUS
  <2>1. t \in 1 .. size[d]
    BY <1>3
  <2>2. arr[t] = Stored(d, t)
    BY <1>5, <2>1
  <2>3. Stored(d, t) = token(t)
    BY <1>1, <1>6, <2>1, InSectors
  <2> QED BY <2>2, <2>3
<1>8. Len(arr) = m
  <2> DEFINE stored(t) == Stored(d, t)
  <2>1. arr = [t \in 1 .. m |-> stored(t)] /\ m \in Nat
    BY <1>3, <1>5
  <2> HIDE DEF arr, m, stored
  <2> QED BY <2>1
<1>9. ASSUME NEW i \in DOMAIN files[d], NEW f, f = files[d][i]
      PROVE  /\ token(Offset(d, i) + 1) = <<"head", name[f], f \in Dirs, size[f]>>
             /\ \A j \in DOMAIN sectors[f] : token(Offset(d, i) + 1 + j) = <<"ref", sectors[f][j]>>
  BY <1>1, <1>9, ImageTokens
<1> HIDE DEF token
<1>10. ASSUME NEW i \in DOMAIN files[d], NEW f, f = files[d][i], NEW j \in 1 .. 1 + Len(sectors[f])
       PROVE  arr[Offset(d, i) + j] = Entry(f)[j]
  <2>1. f \in Desc /\ Len(sectors[f]) \in Nat /\ DOMAIN sectors[f] = 1 .. Len(sectors[f])
    BY <1>1, <1>10 DEF TypeOK
  <2>2. arr[Offset(d, i) + j] = token(Offset(d, i) + j)
    BY <1>1, <1>7, <1>10, SerializeToken
  <2>3. CASE j = 1
    BY <1>9, <1>10, <2>1, <2>2, <2>3, EntryTokens
  <2>4. CASE j # 1
    <3> DEFINE k == j - 1
    <3>1. k \in 1 .. Len(sectors[f]) /\ 1 + k = j /\ k \in DOMAIN sectors[f] /\ k \in Nat
      BY <2>1, <2>4
    <3>2. Offset(d, i) \in Nat
      BY <1>1, ListedChild, OffsetType
    <3>3. Offset(d, i) + j = Offset(d, i) + 1 + k
      BY <3>1, <3>2
    <3> HIDE DEF k
    <3>4. token(Offset(d, i) + 1 + k) = <<"ref", sectors[f][k]>>
      BY <1>9, <1>10, <3>1
    <3>5. Entry(f)[1 + k] = <<"ref", sectors[f][k]>>
      BY <2>1, <3>1, EntryTokens
    <3> QED BY <2>2, <3>1, <3>3, <3>4, <3>5
  <2> QED BY <2>3, <2>4
<1>11. arr = Serialize(d)
  <2> HIDE DEF arr, m
  <2>1. arr \in Seq(Token) /\ Len(arr) = Bytes(d)
    BY <1>4, <1>8 DEF arr, m
  <2>2. \A i \in DOMAIN files[d] : \A j \in 1 .. 1 + Len(sectors[files[d][i]]) :
          arr[Offset(d, i) + j] = Entry(files[d][i])[j]
    BY <1>10
  <2> QED BY <1>1, <2>1, <2>2, SerializeUnique
<1> QED BY <1>1, <1>11

\* The calls that start, and those that remove, leave sector 0, the bits and
\* the root alone, and no resize is under way.
LEMMA OthersQuiet ==
  ASSUME Careful, TypeOK, TreeInv, Request \/ RemoveChild \/ RemoveErase \/ DeleteNext
  PROVE  /\ UNCHANGED <<superblock, bitmap, sector_bits>>
         /\ \A k \in DOMAIN stack : stack[k].pc \notin Resizes
         /\ \A f : ~ Grown(f)
<1>1. UNCHANGED <<superblock, bitmap, sector_bits>>
  <2>1. UNCHANGED <<bits, ondisk>>
    <3>1. CASE Request
      BY <3>1 DEF Request, CreateFile, WriteFile, DeleteFile, RemoveFile, CopyFile, MoveFile
    <3>2. CASE RemoveChild \/ RemoveErase \/ DeleteNext
      BY <3>2 DEF RemoveChild, RemoveErase, DeleteNext
    <3> QED BY <3>1, <3>2
  <2> QED BY <2>1 DEF ondisk, bits
<1>2. CASE Request
  <2>1. Idle
    BY <1>2 DEF Request, CreateFile, WriteFile, DeleteFile, RemoveFile, CopyFile, MoveFile
  <2>2. stack = <<>> /\ DOMAIN stack = {}
    BY <2>1 DEF Idle
  <2> QED BY <1>1, <2>2 DEF Grown
<1>3. CASE RemoveChild \/ RemoveErase \/ DeleteNext
  <2>1. stack # <<>> /\ Top.pc \in {"remove", "erase", "delete"}
    BY <1>3 DEF RemoveChild, RemoveErase, DeleteNext, At
  <2>2. \A k \in DOMAIN stack : stack[k].pc \in {"remove", "erase", "delete"}
    BY <2>1, OnlyRemoving DEF TreeInv
  <2> QED BY <1>1, <2>1, <2>2 DEF Grown, Resizes
<1> QED BY <1>2, <1>3

LEMMA RootKept ==
  ASSUME TypeOK, TreeInv, Request \/ RemoveChild \/ RemoveErase \/ DeleteNext
  PROVE  size'[Root] = size[Root] /\ sectors'[Root] = sectors[Root]
<1>1. CASE RemoveErase
  <2> DEFINE e == Top.file
             f == files[e][Top.n]
  <2>1. /\ stack # <<>> /\ Top.pc = "erase" /\ 1 \in DOMAIN stack /\ stack[1] = Top
        /\ e \in Desc
    BY <1>1, TopFrame DEF RemoveErase, At
  <2>2. Top.n \in DOMAIN files[e]
    BY <2>1 DEF TreeInv, StackInv, Holds, Removing
  <2>3. f # Root
    BY <2>1, <2>2, EntryLinked DEF TreeInv
  <2>4. size' = [size EXCEPT ![f] = 0] /\ sectors' = [sectors EXCEPT ![f] = <<>>]
    BY <1>1 DEF RemoveErase
  <2> HIDE DEF f
  <2> QED BY <2>3, <2>4, TreeAssumption DEF TypeOK
<1>2. CASE Request \/ RemoveChild \/ DeleteNext
  BY <1>2 DEF Request, CreateFile, WriteFile, DeleteFile, RemoveFile, CopyFile, MoveFile,
     RemoveChild, DeleteNext
<1> QED BY <1>1, <1>2

LEMMA NextRoot ==
  ASSUME Careful, TypeOK, TypeOK', TreeInv, RootSaved, Next
  PROVE  RootSaved'
<1>1. Root \in Desc /\ parent_directory[Root] = Root
  BY TreeAssumption DEF TreeInv, Linked
<1>2. CASE Transfer
  <2>1. CASE ResizeParent
    <3>1. /\ superblock' = IF parent_directory[Top.file] = Top.file THEN RootMetadata ELSE superblock
          /\ UNCHANGED <<size, sectors>>
      BY <2>1 DEF ResizeParent
    <3>2. CASE superblock' = RootMetadata
      BY <3>1, <3>2 DEF RootMetadata, RootSaved
    <3>3. CASE superblock' = superblock /\ Top.file # Root
      BY <3>1, <3>3 DEF RootSaved, Grown
    <3> QED BY <1>1, <3>1, <3>2, <3>3
  <2>2. CASE ~ ResizeParent
    <3>1. superblock' = superblock
      BY <1>2, <2>2 DEF Transfer, WriteSector, WriteDone, ResizeSame, ResizeKeep, ResizeShrink,
         ResizeGrow, GrowSector, GrowDone, DiskFull, ResizeBits, FlushMetadata, CopyData, ondisk
    <3>2. CASE Grown(Root)
      BY <1>1, <1>2, <2>2, <3>2, TransferGrown DEF RootSaved
    <3>3. CASE ~ Grown(Root)
      BY <1>1, <1>2, <3>1, <3>3, TransferChanges DEF RootSaved
    <3> QED BY <3>2, <3>3
  <2> QED BY <2>1, <2>2
<1>3. CASE Request \/ RemoveChild \/ RemoveErase \/ DeleteNext
  BY <1>3, OthersQuiet, RootKept DEF RootSaved
<1> QED BY <1>2, <1>3 DEF Next, Step, Transfer

LEMMA NextBits ==
  ASSUME Careful, TypeOK, TypeOK', TreeInv, BitsSaved, Next
  PROVE  BitsSaved'
<1>1. CASE Transfer
  <2>1. PICK new \in Seq(Frame) : Moves(new)
    BY <1>1, TransferMoves
  <2>2. /\ Top = stack[1] /\ 1 \in DOMAIN stack /\ Len(new) \in Nat
        /\ DOMAIN stack = 1 .. Len(stack) /\ Len(stack) \in Nat
        /\ DOMAIN stack' = 1 .. Len(new) + Len(stack) - 1
        /\ \A k \in 1 .. Len(new) : stack'[k] = new[k]
    BY <1>1, <2>1, MovesTypes
  <2>3. ASSUME NEW k \in DOMAIN stack, k > 1, stack[k].pc \in Resizes
        PROVE  BitsSaved'
    BY <1>1, <2>1, <2>3, FrameStays DEF BitsSaved
  <2>4. CASE ResizeBits
    BY <2>4 DEF ResizeBits, BitsSaved, bits
  <2>5. CASE Stays(new) /\ new[1].pc \in Resizes
    <3>1. 1 \in DOMAIN stack' /\ stack'[1] = new[1]
      BY <1>1, <2>1, <2>5, NewFirst DEF Stays
    <3> QED BY <2>5, <3>1 DEF BitsSaved
  <2>6. CASE Flushes(new)
    <3>1. 2 \in DOMAIN stack' /\ stack'[2] = new[2]
      <4>1. Len(new) = 2
        BY <2>6 DEF Flushes
      <4>2. 2 \in 1 .. Len(new) /\ 2 \in 1 .. Len(new) + Len(stack) - 1
        BY <2>2, <4>1
      <4> QED BY <2>2, <4>2
    <3> QED BY <2>6, <3>1 DEF BitsSaved, Flushes, Resizes
  <2>7. CASE WriteSector \/ WriteDone \/ ResizeSame \/ FlushMetadata \/ CopyData
    <3>1. UNCHANGED <<bitmap, sector_bits>> /\ Top.pc \notin Resizes
      BY <2>7 DEF WriteSector, WriteDone, ResizeSame, FlushMetadata, CopyData, ondisk, bits,
         At, Resizes
    <3>2. ASSUME NEW k \in DOMAIN stack, stack[k].pc \in Resizes PROVE k > 1
      BY <2>2, <3>1, <3>2
    <3> QED BY <2>3, <3>1, <3>2 DEF BitsSaved
  <2> QED BY <2>1, <2>4, <2>5, <2>6, <2>7 DEF Moves, Pops, Stays, Writes, Resizes
<1>2. CASE Request \/ RemoveChild \/ RemoveErase \/ DeleteNext
  BY <1>2, OthersQuiet DEF BitsSaved
<1> QED BY <1>1, <1>2 DEF Next, Step, Transfer

\* The indexes of the root's sectors stay clear of the magic number.
RootFits == Len(sectors[Root]) <= RootRefs

LEMMA NextMagic ==
  ASSUME TypeOK, RootFits, superblock.magic, [Next]_vars
  PROVE  superblock'.magic
<1>1. CASE ResizeParent
  BY <1>1 DEF ResizeParent, RootMetadata, RootFits
<1>2. CASE ~ ResizeParent
  BY <1>2 DEF Next, Step, Request, CreateFile, WriteFile, DeleteFile, RemoveFile, CopyFile,
     MoveFile, WriteSector, WriteDone, ResizeSame, ResizeKeep, ResizeShrink, ResizeGrow,
     GrowSector, GrowDone, DiskFull, ResizeBits, FlushMetadata, RemoveChild, RemoveErase,
     DeleteNext, CopyData, ondisk, vars
<1> QED BY <1>1, <1>2

\* What the disk and the history say of the tree.
MountInv == Entered /\ RootSaved /\ BitsSaved /\ CounterAgrees /\ superblock.magic

LEMMA InitMount ==
  ASSUME TypeOK, SectorsExclusive, AuditInit
  PROVE  MountInv
<1>1. Init
  BY DEF AuditInit
<1>2. RootSaved /\ BitsSaved /\ CounterAgrees /\ superblock.magic
  BY <1>1 DEF Init, RootSaved, BitsSaved, CounterAgrees
<1> QED BY <1>2, InitEntered DEF MountInv

LEMMA StutterEntered ==
  ASSUME Entered, UNCHANGED <<vars, history>>
  PROVE  Entered'
<1>1. /\ content' = content /\ stack' = stack /\ size' = size /\ sectors' = sectors
      /\ live' = live /\ files' = files /\ name' = name /\ parent_directory' = parent_directory
  BY DEF vars, history
<1>2. \A d : Serialize(d)' = Serialize(d)
  BY <1>1 DEF Serialize, Offset, Entry
<1>3. \A d : Awaited(d)' = Awaited(d)
  BY <1>1 DEF Awaited, Grown, Top
<1> QED BY <1>1, <1>2, <1>3 DEF Entered

LEMMA NextMount ==
  ASSUME Careful, TypeOK, TypeOK', LeakInv, SavingInv, ContentInv, RootFits, MountInv,
         [AuditNext]_<<vars, history>>
  PROVE  MountInv'
<1>1. [Next]_vars /\ TreeInv /\ Copies
  BY AuditSteps DEF LeakInv, SavingInv
<1>2. CounterAgrees' /\ superblock'.magic
  BY <1>1, NextCounter, NextMagic DEF MountInv
<1>3. CASE UNCHANGED <<vars, history>>
  <2>1. Entered'
    BY <1>3, StutterEntered DEF MountInv
  <2>2. RootSaved' /\ BitsSaved'
    BY <1>3 DEF MountInv, RootSaved, BitsSaved, Grown, Top, vars
  <2> QED BY <1>2, <2>1, <2>2 DEF MountInv
<1>4. CASE AuditNext
  <2>1. Next /\ AuditStep
    BY <1>4 DEF AuditNext, AuditStep
  <2>2. RootSaved' /\ BitsSaved'
    BY <1>1, <2>1, NextRoot, NextBits DEF MountInv
  <2>3. Entered'
    <3>1. Entered
      BY DEF MountInv
    <3>2. CASE Request
      BY <1>1, <2>1, <3>1, <3>2, RequestEntered
    <3>3. CASE Transfer
      BY <1>1, <2>1, <3>1, <3>3, TransferEntered
    <3>4. CASE RemoveChild \/ RemoveErase \/ DeleteNext
      BY <1>1, <2>1, <3>1, <3>4, RemovalEntered
    <3> QED BY <2>1, <3>2, <3>3, <3>4 DEF Next, Step, Transfer
  <2> QED BY <1>2, <2>2, <2>3 DEF MountInv
<1> QED BY <1>3, <1>4

\* Between two calls the disk holds the tree: a mount would find the root and
\* its sectors, the bits and their count, and by the walk of load every entry of
\* every directory, in its place, after any series of calls that has not made
\* the root directory longer than sector 0 has room for.
THEOREM MountsAgain == Careful => (AuditSpec /\ []RootFits => []MountFindsTree)
<1> SUFFICES ASSUME Careful PROVE AuditSpec /\ []RootFits => []MountFindsTree
  OBVIOUS
<1>1. TypeOK /\ LeakInv /\ AuditInit => MountInv
  BY InitMount DEF LeakInv, SectorsInv
<1>2. TypeOK /\ TypeOK' /\ LeakInv /\ SavingInv /\ ContentInv /\ RootFits /\ MountInv
        /\ [AuditNext]_<<vars, history>> => MountInv'
  BY NextMount
<1>3. TypeOK /\ LeakInv /\ ContentInv /\ MountInv => MountFindsTree
  BY TreeFound DEF LeakInv, SectorsInv, MountInv
<1> QED BY <1>1, <1>2, <1>3, AuditInvariant, PTL DEF AuditSpec
=============================================================================
