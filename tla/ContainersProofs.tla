---------------------------- MODULE ContainersProofs ----------------------------
(***************************************************************************)
(* The containers, for every block size, every set of items and names, and *)
(* every bound on the buffers: each live object owns its buffer alone,     *)
(* assignment loses one buffer and nothing else does, and every call does  *)
(* to the sequences what ArraySpec promises, whatever calls came before.   *)
(***************************************************************************)
EXTENDS Containers, SequenceTheorems, FiniteSetTheorems, WellFoundedInduction, TLAPS

-----------------------------------------------------------------------------
(* Loops.  A fold over a sequence is a recursive function of the sets of   *)
(* places in it; that a loop computes what it should is an induction over  *)
(* the number of its rounds, by least elements.                            *)

LEMMA LeastNatural ==
  ASSUME NEW S \in SUBSET Nat, S # {}
  PROVE  \E m \in S : \A k \in S : m <= k
<1>1. PICK m \in S : \A k \in S : ~ (<<k, m>> \in OpToRel(<, Nat))
  BY NatLessThanWellFounded, WFMin, Zenon
<1>2. \A k \in S : ~ (k < m)
  <2>1. \A x, y \in Nat : x < y => <<x, y>> \in OpToRel(<, Nat)
    BY Zenon DEF OpToRel
  <2> QED BY <1>1, <2>1, Zenon
<1> QED BY <1>2

\* Induction over a set of numbers.
LEMMA UpTo ==
  ASSUME NEW N \in Nat, NEW P, 0 \in P, \A n \in 0 .. N - 1 : n \in P => n + 1 \in P
  PROVE  N \in P
<1> SUFFICES ASSUME N \notin P PROVE FALSE
  OBVIOUS
<1> DEFINE S == {n \in 0 .. N : n \notin P}
<1>1. S \in SUBSET Nat /\ S # {}
  OBVIOUS
<1> HIDE DEF S
<1>2. PICK m \in S : \A k \in S : m <= k
  BY <1>1, LeastNatural
<1>3. m \in 0 .. N /\ m \notin P /\ m # 0
  BY <1>2 DEF S
<1>4. m - 1 \in 0 .. N - 1 /\ m - 1 \in 0 .. N /\ (m - 1) + 1 = m
  BY <1>3
<1>5. m - 1 \notin S
  BY <1>2, <1>3
<1> QED BY <1>3, <1>4, <1>5 DEF S

LEMMA MaxOf ==
  ASSUME NEW n \in Nat, NEW S \in SUBSET (1 .. n), S # {}
  PROVE  /\ Max(S) \in S /\ Max(S) \in 1 .. n
         /\ \A k \in S : k <= Max(S)
<1> DEFINE D == {d \in 0 .. n : n - d \in S}
<1>1. D \in SUBSET Nat /\ D # {}
  <2>1. PICK k \in S : k \in 1 .. n
    OBVIOUS
  <2>2. n - k \in 0 .. n /\ n - (n - k) = k
    BY <2>1
  <2>3. n - k \in D
    BY <2>1, <2>2
  <2>4. D \in SUBSET Nat
    OBVIOUS
  <2> HIDE DEF D
  <2> QED BY <2>3, <2>4
<1> HIDE DEF D
<1>2. PICK d \in D : \A e \in D : d <= e
  BY <1>1, LeastNatural
<1>3. n - d \in S /\ \A k \in S : n - d >= k
  <2>1. d \in 0 .. n /\ n - d \in S
    BY <1>2 DEF D
  <2>2. \A k \in S : n - k \in D
    BY DEF D
  <2> QED BY <1>2, <2>1, <2>2
<1>4. Max(S) \in S /\ \A k \in S : Max(S) >= k
  BY <1>3 DEF Max
<1> QED BY <1>4

-----------------------------------------------------------------------------
(* Buffers that are written to.                                            *)

All == Items \cup {Terminator, Junk}

\* The fields that are there.
Typed(s) ==
  /\ s = [arrays |-> s.arrays, memory |-> s.memory, outside |-> s.outside]
  /\ s.memory = [b \in DOMAIN s.memory |-> s.memory[b]]
  /\ \A b \in DOMAIN s.memory : \E n \in Nat : s.memory[b] \in [0 .. n - 1 -> All]

Set(s, b, f) == [s EXCEPT !.memory[b] = f]

LEMMA SetRecord ==
  ASSUME NEW s, Typed(s), NEW b, NEW f
  PROVE  Set(s, b, f) = [arrays |-> s.arrays, memory |-> [s.memory EXCEPT ![b] = f],
                         outside |-> s.outside]
<1>1. /\ s = [arrays |-> s.arrays, memory |-> s.memory, outside |-> s.outside]
      /\ DOMAIN s = {"arrays", "memory", "outside"}
  <2>1. s = [arrays |-> s.arrays, memory |-> s.memory, outside |-> s.outside]
    BY DEF Typed
  <2> QED BY <2>1
<1> QED BY <1>1 DEF Set

LEMMA SetIs ==
  ASSUME NEW s, Typed(s), NEW b \in DOMAIN s.memory, NEW f
  PROVE  /\ Set(s, b, f).arrays = s.arrays /\ Set(s, b, f).outside = s.outside
         /\ Set(s, b, f).memory = [s.memory EXCEPT ![b] = f]
         /\ DOMAIN Set(s, b, f).memory = DOMAIN s.memory
         /\ Set(s, b, f).memory[b] = f
         /\ \A c \in DOMAIN s.memory : c # b => Set(s, b, f).memory[c] = s.memory[c]
<1>1. Set(s, b, f) = [arrays |-> s.arrays, memory |-> [s.memory EXCEPT ![b] = f],
                      outside |-> s.outside]
  BY SetRecord
<1> QED BY <1>1

LEMMA SetSame ==
  ASSUME NEW s, Typed(s), NEW b \in DOMAIN s.memory
  PROVE  Set(s, b, s.memory[b]) = s
<1>1. [s.memory EXCEPT ![b] = s.memory[b]] = s.memory
  BY DEF Typed
<1>2. Set(s, b, s.memory[b]) = [arrays |-> s.arrays, memory |-> s.memory, outside |-> s.outside]
  BY <1>1, SetRecord
<1> QED BY <1>2 DEF Typed

LEMMA StoreIs ==
  ASSUME NEW s, Typed(s), NEW b \in DOMAIN s.memory, NEW f, NEW i \in DOMAIN f, NEW item
  PROVE  Store(Set(s, b, f), b, i, item) = Set(s, b, [f EXCEPT ![i] = item])
<1> DEFINE t == Set(s, b, f)
           m == [s.memory EXCEPT ![b] = f]
<1>1. t.memory = m /\ DOMAIN m = DOMAIN s.memory /\ m[b] = f
  BY SetIs
<1>2. Inside(t, b, i)
  BY <1>1 DEF Inside
<1>3. Store(t, b, i, item) = [t EXCEPT !.memory = [t.memory EXCEPT ![b] = [t.memory[b] EXCEPT ![i] = item]]]
  BY <1>2 DEF Store
<1>4. t = [arrays |-> s.arrays, memory |-> m, outside |-> s.outside]
  BY SetRecord
<1> HIDE DEF t, m
<1> DEFINE h == [f EXCEPT ![i] = item]
           g == [m EXCEPT ![b] = h]
<1>5. Store(t, b, i, item) = [t EXCEPT !.memory = g]
  BY <1>1, <1>3
<1>6. g = [s.memory EXCEPT ![b] = h]
  BY DEF m
<1> HIDE DEF g, h
<1>7. [t EXCEPT !.memory = g] = [arrays |-> s.arrays, memory |-> g, outside |-> s.outside]
  BY <1>4
<1>8. Set(s, b, h) = [arrays |-> s.arrays, memory |-> g, outside |-> s.outside]
  BY <1>6, SetRecord
<1>9. Store(t, b, i, item) = Set(s, b, h)
  BY <1>5, <1>7, <1>8
<1> QED BY <1>9 DEF t, h

\* The buffer after the loop: a recursive function of the rounds done has at
\* most one solution, and this is one.
MoveMap(s, to, from, shift, indices) ==
  [i \in DOMAIN s.memory[to] |->
     IF i \in {indices[k] : k \in DOMAIN indices} THEN Load(s, from, i + shift) ELSE s.memory[to][i]]

FillMap(s, b, item, indices) ==
  [i \in DOMAIN s.memory[b] |->
     IF i \in {indices[k] : k \in DOMAIN indices} THEN item ELSE s.memory[b][i]]

LEMMA MoveIs ==
  ASSUME NEW s, Typed(s), NEW to \in DOMAIN s.memory, NEW from, NEW shift \in Int,
         NEW indices \in Seq(Int), \A k \in DOMAIN indices : indices[k] \in DOMAIN s.memory[to],
         \A j, k \in DOMAIN indices : from = to /\ j < k => indices[k] + shift # indices[j]
  PROVE  Move(s, to, from, shift, indices) = Set(s, to, MoveMap(s, to, from, shift, indices))
<1> SUFFICES Move(s, to, from, shift, indices)
           = Set(s, to, [i \in DOMAIN s.memory[to] |->
                           IF i \in {indices[k] : k \in DOMAIN indices}
                             THEN Load(s, from, i + shift) ELSE s.memory[to][i]])
  BY DEF MoveMap
<1> DEFINE n == Len(indices)
           D == DOMAIN s.memory[to]
           F(S) == [i \in D |-> IF i \in {indices[k] : k \in S}
                                  THEN Load(s, from, i + shift) ELSE s.memory[to][i]]
           Round(t, i) == Store(t, to, i, Load(t, from, i + shift))
           Solves(f) == f = [S \in SUBSET DOMAIN indices |->
                               IF S = {} THEN s
                               ELSE Round(f[S \ {Max(S)}], indices[Max(S)])]
           T == [S \in SUBSET DOMAIN indices |-> Set(s, to, F(S))]
<1>1. n \in Nat /\ DOMAIN indices = 1 .. n
  OBVIOUS
<1>2. F({}) = s.memory[to]
  <2>1. s.memory[to] = [i \in D |-> s.memory[to][i]]
    BY DEF Typed
  <2> QED BY <2>1
<1>3. ASSUME NEW S \in SUBSET (1 .. n), NEW m \in S, \A k \in S : k <= m
      PROVE  Round(Set(s, to, F(S \ {m})), indices[m]) = Set(s, to, F(S))
  <2> DEFINE t == Set(s, to, F(S \ {m}))
             i == indices[m]
  <2>1. i \in D /\ i \in Int /\ m \in DOMAIN indices
    BY <1>1, <1>3
  <2>2. /\ DOMAIN t.memory = DOMAIN s.memory /\ t.memory[to] = F(S \ {m})
        /\ \A c \in DOMAIN s.memory : c # to => t.memory[c] = s.memory[c]
    <3> DEFINE f == F(S \ {m})
    <3> HIDE DEF f
    <3>1. Set(s, to, f).memory = [s.memory EXCEPT ![to] = f]
      BY SetIs
    <3>2. /\ DOMAIN Set(s, to, f).memory = DOMAIN s.memory /\ Set(s, to, f).memory[to] = f
          /\ \A c \in DOMAIN s.memory : c # to => Set(s, to, f).memory[c] = s.memory[c]
      BY <3>1
    <3> QED BY <3>2 DEF f
  <2>3. Load(t, from, i + shift) = Load(s, from, i + shift)
    <3>1. CASE from # to
      BY <2>2, <3>1 DEF Load, Inside
    <3>2. CASE from = to
      <4>1. i + shift \notin {indices[k] : k \in S \ {m}}
        <5> SUFFICES ASSUME NEW k \in S \ {m} PROVE i + shift # indices[k]
          OBVIOUS
        <5>1. k < m /\ k \in DOMAIN indices
          BY <1>1, <1>3
        <5> QED BY <2>1, <3>2, <5>1
      <4>2. i + shift \in D => F(S \ {m})[i + shift] = s.memory[to][i + shift]
        BY <4>1
      <4>3. DOMAIN F(S \ {m}) = D
        OBVIOUS
      <4> HIDE DEF F, D, i, t
      <4> QED BY <2>2, <3>2, <4>2, <4>3 DEF Load, Inside, D
    <3> QED BY <3>1, <3>2
  <2>4. Store(t, to, i, Load(s, from, i + shift))
          = Set(s, to, [F(S \ {m}) EXCEPT ![i] = Load(s, from, i + shift)])
    <3> DEFINE f == F(S \ {m})
               item == Load(s, from, i + shift)
    <3>1. i \in DOMAIN f
      BY <2>1
    <3> HIDE DEF f, item, i
    <3>2. Store(Set(s, to, f), to, i, item) = Set(s, to, [f EXCEPT ![i] = item])
      BY <3>1, StoreIs
    <3> QED BY <3>2 DEF f, item
  <2>5. [F(S \ {m}) EXCEPT ![i] = Load(s, from, i + shift)] = F(S)
    <3>1. S = (S \ {m}) \cup {m}
      BY <1>3
    <3>2. \A x : x \in {indices[k] : k \in S} <=> x \in {indices[k] : k \in S \ {m}} \/ x = i
      BY <3>1
    <3> HIDE DEF D
    <3> QED BY <2>1, <3>2
  <2> QED BY <2>3, <2>4, <2>5
<1>4. Solves(T)
  <2> SUFFICES ASSUME NEW S \in SUBSET DOMAIN indices
               PROVE  Set(s, to, F(S)) = IF S = {} THEN s
                                         ELSE Round(T[S \ {Max(S)}], indices[Max(S)])
    OBVIOUS
  <2>1. CASE S = {}
    BY <1>2, <2>1, SetSame
  <2>2. CASE S # {}
    <3>1. Max(S) \in S /\ \A k \in S : k <= Max(S)
      BY <1>1, <2>2, MaxOf
    <3>2. T[S \ {Max(S)}] = Set(s, to, F(S \ {Max(S)}))
      OBVIOUS
    <3> HIDE DEF T, F, Round
    <3> QED BY <1>1, <1>3, <2>2, <3>1, <3>2
  <2> QED BY <2>1, <2>2
<1> DEFINE iter == CHOOSE f : Solves(f)
<1>5. Solves(iter)
  BY <1>4
<1>8. \A S \in SUBSET DOMAIN indices :
        iter[S] = IF S = {} THEN s ELSE Round(iter[S \ {Max(S)}], indices[Max(S)])
  <2> HIDE DEF Round
  <2> QED BY <1>5
<1>6. Move(s, to, from, shift, indices) = iter[DOMAIN indices]
  BY DEF Move, FoldLeft, MapThenFoldSet
<1> HIDE DEF T, F, iter
<1>7. iter[DOMAIN indices] = Set(s, to, F(DOMAIN indices))
  <2> DEFINE P == {k \in 0 .. n : iter[1 .. k] = Set(s, to, F(1 .. k))}
  <2>1. 0 \in P
    <3>1. 1 .. 0 = {} /\ {} \in SUBSET DOMAIN indices
      OBVIOUS
    <3>2. iter[{}] = s
      BY <1>8, <3>1
    <3> QED BY <1>1, <1>2, <3>1, <3>2, SetSame
  <2>2. ASSUME NEW k \in 0 .. n - 1, k \in P PROVE k + 1 \in P
    <3>1. 1 .. k + 1 \in SUBSET DOMAIN indices /\ 1 .. k + 1 # {}
      BY <1>1
    <3>2. Max(1 .. k + 1) = k + 1
      <4>1. 1 .. k + 1 \in SUBSET (1 .. n)
        BY <1>1
      <4>2. Max(1 .. k + 1) \in 1 .. k + 1 /\ \A j \in 1 .. k + 1 : j <= Max(1 .. k + 1)
        BY <1>1, <3>1, <4>1, MaxOf
      <4> QED BY <4>2
    <3>3. (1 .. k + 1) \ {k + 1} = 1 .. k
      OBVIOUS
    <3>4. iter[1 .. k + 1] = Round(iter[1 .. k], indices[k + 1])
      <4> HIDE DEF Round
      <4> QED BY <1>8, <3>1, <3>2, <3>3
    <3>5. Round(Set(s, to, F((1 .. k + 1) \ {k + 1})), indices[k + 1]) = Set(s, to, F(1 .. k + 1))
      <4>1. k + 1 \in 1 .. k + 1 /\ (\A j \in 1 .. k + 1 : j <= k + 1) /\ 1 .. k + 1 \in SUBSET (1 .. n)
        BY <1>1
      <4> HIDE DEF Round
      <4> QED BY <1>3, <4>1
    <3>6. iter[1 .. k] = Set(s, to, F(1 .. k))
      BY <2>2
    <3> HIDE DEF Round
    <3>7. iter[1 .. k + 1] = Set(s, to, F(1 .. k + 1))
      BY <3>3, <3>4, <3>5, <3>6
    <3>8. k + 1 \in 0 .. n
      BY <1>1
    <3> QED BY <3>7, <3>8
  <2> HIDE DEF P
  <2>3. n \in P
    BY <1>1, <2>1, <2>2, UpTo
  <2> QED BY <1>1, <2>3 DEF P
<1> QED BY <1>6, <1>7 DEF F

LEMMA FillIs ==
  ASSUME NEW s, Typed(s), NEW b \in DOMAIN s.memory, NEW item,
         NEW indices \in Seq(Int), \A k \in DOMAIN indices : indices[k] \in DOMAIN s.memory[b]
  PROVE  Fill(s, b, item, indices) = Set(s, b, FillMap(s, b, item, indices))
<1> SUFFICES Fill(s, b, item, indices)
           = Set(s, b, [i \in DOMAIN s.memory[b] |->
                           IF i \in {indices[k] : k \in DOMAIN indices}
                             THEN item ELSE s.memory[b][i]])
  BY DEF FillMap
<1> DEFINE n == Len(indices)
           D == DOMAIN s.memory[b]
           F(S) == [i \in D |-> IF i \in {indices[k] : k \in S}
                                  THEN item ELSE s.memory[b][i]]
           Round(t, i) == Store(t, b, i, item)
           Solves(f) == f = [S \in SUBSET DOMAIN indices |->
                               IF S = {} THEN s
                               ELSE Round(f[S \ {Max(S)}], indices[Max(S)])]
           T == [S \in SUBSET DOMAIN indices |-> Set(s, b, F(S))]
<1>1. n \in Nat /\ DOMAIN indices = 1 .. n
  OBVIOUS
<1>2. F({}) = s.memory[b]
  <2>1. s.memory[b] = [i \in D |-> s.memory[b][i]]
    BY DEF Typed
  <2> QED BY <2>1
<1>3. ASSUME NEW S \in SUBSET (1 .. n), NEW m \in S, \A k \in S : k <= m
      PROVE  Round(Set(s, b, F(S \ {m})), indices[m]) = Set(s, b, F(S))
  <2> DEFINE t == Set(s, b, F(S \ {m}))
             i == indices[m]
  <2>1. i \in D /\ i \in Int /\ m \in DOMAIN indices
    BY <1>1, <1>3
  <2>4. Store(t, b, i, item)
          = Set(s, b, [F(S \ {m}) EXCEPT ![i] = item])
    <3> DEFINE f == F(S \ {m})
    <3>1. i \in DOMAIN f
      BY <2>1
    <3> HIDE DEF f, i
    <3>2. Store(Set(s, b, f), b, i, item) = Set(s, b, [f EXCEPT ![i] = item])
      BY <3>1, StoreIs
    <3> QED BY <3>2 DEF f
  <2>5. [F(S \ {m}) EXCEPT ![i] = item] = F(S)
    <3>1. S = (S \ {m}) \cup {m}
      BY <1>3
    <3>2. \A x : x \in {indices[k] : k \in S} <=> x \in {indices[k] : k \in S \ {m}} \/ x = i
      BY <3>1
    <3> HIDE DEF D
    <3> QED BY <2>1, <3>2
  <2> QED BY <2>4, <2>5
<1>4. Solves(T)
  <2> SUFFICES ASSUME NEW S \in SUBSET DOMAIN indices
               PROVE  Set(s, b, F(S)) = IF S = {} THEN s
                                         ELSE Round(T[S \ {Max(S)}], indices[Max(S)])
    OBVIOUS
  <2>1. CASE S = {}
    BY <1>2, <2>1, SetSame
  <2>2. CASE S # {}
    <3>1. Max(S) \in S /\ \A k \in S : k <= Max(S)
      BY <1>1, <2>2, MaxOf
    <3>2. T[S \ {Max(S)}] = Set(s, b, F(S \ {Max(S)}))
      OBVIOUS
    <3> HIDE DEF T, F, Round
    <3> QED BY <1>1, <1>3, <2>2, <3>1, <3>2
  <2> QED BY <2>1, <2>2
<1> DEFINE iter == CHOOSE f : Solves(f)
<1>5. Solves(iter)
  BY <1>4
<1>8. \A S \in SUBSET DOMAIN indices :
        iter[S] = IF S = {} THEN s ELSE Round(iter[S \ {Max(S)}], indices[Max(S)])
  <2> HIDE DEF Round
  <2> QED BY <1>5
<1>6. Fill(s, b, item, indices) = iter[DOMAIN indices]
  BY DEF Fill, FoldLeft, MapThenFoldSet
<1> HIDE DEF T, F, iter
<1>7. iter[DOMAIN indices] = Set(s, b, F(DOMAIN indices))
  <2> DEFINE P == {k \in 0 .. n : iter[1 .. k] = Set(s, b, F(1 .. k))}
  <2>1. 0 \in P
    <3>1. 1 .. 0 = {} /\ {} \in SUBSET DOMAIN indices
      OBVIOUS
    <3>2. iter[{}] = s
      BY <1>8, <3>1
    <3> QED BY <1>1, <1>2, <3>1, <3>2, SetSame
  <2>2. ASSUME NEW k \in 0 .. n - 1, k \in P PROVE k + 1 \in P
    <3>1. 1 .. k + 1 \in SUBSET DOMAIN indices /\ 1 .. k + 1 # {}
      BY <1>1
    <3>2. Max(1 .. k + 1) = k + 1
      <4>1. 1 .. k + 1 \in SUBSET (1 .. n)
        BY <1>1
      <4>2. Max(1 .. k + 1) \in 1 .. k + 1 /\ \A j \in 1 .. k + 1 : j <= Max(1 .. k + 1)
        BY <1>1, <3>1, <4>1, MaxOf
      <4> QED BY <4>2
    <3>3. (1 .. k + 1) \ {k + 1} = 1 .. k
      OBVIOUS
    <3>4. iter[1 .. k + 1] = Round(iter[1 .. k], indices[k + 1])
      <4> HIDE DEF Round
      <4> QED BY <1>8, <3>1, <3>2, <3>3
    <3>5. Round(Set(s, b, F((1 .. k + 1) \ {k + 1})), indices[k + 1]) = Set(s, b, F(1 .. k + 1))
      <4>1. k + 1 \in 1 .. k + 1 /\ (\A j \in 1 .. k + 1 : j <= k + 1) /\ 1 .. k + 1 \in SUBSET (1 .. n)
        BY <1>1
      <4> HIDE DEF Round
      <4> QED BY <1>3, <4>1
    <3>6. iter[1 .. k] = Set(s, b, F(1 .. k))
      BY <2>2
    <3> HIDE DEF Round
    <3>7. iter[1 .. k + 1] = Set(s, b, F(1 .. k + 1))
      BY <3>3, <3>4, <3>5, <3>6
    <3>8. k + 1 \in 0 .. n
      BY <1>1
    <3> QED BY <3>7, <3>8
  <2> HIDE DEF P
  <2>3. n \in P
    BY <1>1, <2>1, <2>2, UpTo
  <2> QED BY <1>1, <2>3 DEF P
<1> QED BY <1>6, <1>7 DEF F

LEMMA FoldNothing ==
  ASSUME NEW s
  PROVE  /\ \A b, c, d : Move(s, b, c, d, <<>>) = s
         /\ \A b, item : Fill(s, b, item, <<>>) = s
<1> DEFINE T == [S \in SUBSET {} |-> s]
<1>1. DOMAIN <<>> = {} /\ SUBSET {} = {{}}
  OBVIOUS
<1>2. ASSUME NEW b, NEW c, NEW d PROVE Move(s, b, c, d, <<>>) = s
  <2> DEFINE Solves(f) == f = [S \in SUBSET DOMAIN <<>> |->
                IF S = {} THEN s
                ELSE Store(f[S \ {Max(S)}], b, <<>>[Max(S)],
                           Load(f[S \ {Max(S)}], c, <<>>[Max(S)] + d))]
             iter == CHOOSE f : Solves(f)
  <2>1. Solves(T)
    BY <1>1
  <2>2. Solves(iter)
    BY <2>1
  <2>3. Move(s, b, c, d, <<>>) = iter[DOMAIN <<>>]
    BY DEF Move, FoldLeft, MapThenFoldSet
  <2>4. iter[{}] = s
    <3> HIDE DEF iter
    <3> QED BY <1>1, <2>2
  <2> QED BY <1>1, <2>3, <2>4
<1>3. ASSUME NEW b, NEW item PROVE Fill(s, b, item, <<>>) = s
  <2> DEFINE Solves(f) == f = [S \in SUBSET DOMAIN <<>> |->
                IF S = {} THEN s
                ELSE Store(f[S \ {Max(S)}], b, <<>>[Max(S)], item)]
             iter == CHOOSE f : Solves(f)
  <2>1. Solves(T)
    BY <1>1
  <2>2. Solves(iter)
    BY <2>1
  <2>3. Fill(s, b, item, <<>>) = iter[DOMAIN <<>>]
    BY DEF Fill, FoldLeft, MapThenFoldSet
  <2>4. iter[{}] = s
    <3> HIDE DEF iter
    <3> QED BY <1>1, <2>2
  <2> QED BY <1>1, <2>3, <2>4
<1> QED BY <1>2, <1>3

-----------------------------------------------------------------------------
(* The invariant: who owns what.                                           *)

Record == [data : Buffers \cup {Null}, size : Nat, physical_size : Nat]

\* The buffer of an array, of physical_size items, holds all its items.
Held(s, o) ==
  LET a == s.arrays[o]
  IN  /\ a \in Record /\ a.size <= a.physical_size /\ a.physical_size % BlockSize = 0
      /\ a.data = Null => a.physical_size = 0
      /\ a.data # Null =>
           /\ a.data \in DOMAIN s.memory
           /\ s.memory[a.data] \in [0 .. a.physical_size - 1 -> All]
           /\ \A i \in 0 .. a.size - 1 : s.memory[a.data][i] \in Items

Good(s) ==
  /\ Typed(s) /\ s.outside = FALSE
  /\ s.arrays = [o \in DOMAIN s.arrays |-> s.arrays[o]]
  /\ DOMAIN s.arrays \subseteq Names \cup {Parameter} /\ DOMAIN s.memory \subseteq Buffers
  /\ \A o \in DOMAIN s.arrays : Held(s, o)
  /\ \A o, p \in DOMAIN s.arrays :
       s.arrays[o].data = s.arrays[p].data /\ s.arrays[o].data # Null => o = p

\* The sequence an array stands for, and the buffers nobody has.
Val(s, o) == [i \in 1 .. Size(s, o) |-> Get(s, o, i - 1)]
Lost(s) == DOMAIN s.memory \ {s.arrays[o].data : o \in DOMAIN s.arrays}
Free(s) == Cardinality(Buffers \ DOMAIN s.memory)

\* What is left as it was by a call that is made on o.
Others(s, r, o) ==
  /\ DOMAIN r.arrays = DOMAIN s.arrays \cup {o}
  /\ \A p \in DOMAIN s.arrays \ {o} :
       /\ r.arrays[p] = s.arrays[p]
       /\ s.arrays[p].data # Null => r.memory[s.arrays[p].data] = s.memory[s.arrays[p].data]
  /\ Lost(r) = Lost(s)

LEMMA Quotients ==
  ASSUME NEW m \in Nat, NEW B \in Nat, B > 0
  PROVE  m \div B \in Nat /\ (m \div B) * B <= m /\ m < (m \div B) * B + B
<1>1. m \div B \in Nat
  OBVIOUS
<1>2. (m \div B) * B <= m
  OBVIOUS
<1>3. m < (m \div B) * B + B
  OBVIOUS
<1> QED BY <1>1, <1>2, <1>3

LEMMA Multiples ==
  ASSUME NEW q \in Nat, NEW B \in Nat, B > 0
  PROVE  (q * B) % B = 0 /\ q * B \in Nat
<1>1. (q * B) % B = 0
  OBVIOUS
<1> QED BY <1>1

LEMMA Blocks ==
  ASSUME NEW n \in Nat
  PROVE  LET blocks == ((n + BlockSize - 1) \div BlockSize) * BlockSize
         IN  blocks \in Nat /\ blocks >= n /\ blocks % BlockSize = 0 /\ (n = 0 => blocks = 0)
<1> DEFINE m == n + BlockSize - 1
           q == m \div BlockSize
<1>1. BlockSize \in Nat /\ BlockSize > 0 /\ m \in Nat
  BY ContainersAssumption
<1>2. q \in Nat /\ q * BlockSize <= m /\ m < q * BlockSize + BlockSize
  <2> HIDE DEF m
  <2> QED BY <1>1, Quotients
<1> HIDE DEF q
<1>3. q * BlockSize \in Nat /\ (q * BlockSize) % BlockSize = 0
  BY <1>1, <1>2, Multiples
<1> DEFINE x == q * BlockSize
<1>4. x \in Nat /\ x <= m /\ m < x + BlockSize /\ x % BlockSize = 0
  BY <1>2, <1>3
<1>5. q = 0 => x = 0
  BY <1>1
<1> HIDE DEF x
<1>6. x >= n
  BY <1>1, <1>4
<1>7. n = 0 => x = 0
  <2> SUFFICES ASSUME n = 0, x # 0 PROVE FALSE
    OBVIOUS
  <2>1. q # 0
    BY <1>5
  <2>2. x >= BlockSize
    BY <1>1, <1>2, <2>1 DEF x
  <2> QED BY <1>1, <1>4, <2>2
<1> QED BY <1>4, <1>6, <1>7 DEF x, q, m

LEMMA FreshIs ==
  ASSUME NEW s, Free(s) >= 1
  PROVE  Fresh(s) \in Buffers \ DOMAIN s.memory /\ Fresh(s) # Null
<1>1. Buffers \ DOMAIN s.memory # {}
  BY FS_EmptySet DEF Free
<1>2. Null \notin Buffers
  BY DEF Null, Buffers
<1> QED BY <1>1, <1>2 DEF Fresh

LEMMA FreeType ==
  ASSUME NEW s
  PROVE  /\ IsFiniteSet(Buffers \ DOMAIN s.memory) /\ Free(s) \in Nat
         /\ IsFiniteSet(Buffers) /\ Null \notin Buffers
<1>1. IsFiniteSet(Buffers)
  BY FS_Interval, ContainersAssumption DEF Buffers
<1>2. IsFiniteSet(Buffers \ DOMAIN s.memory)
  BY <1>1, FS_Subset
<1> QED BY <1>1, <1>2, FS_CardinalityType DEF Free, Buffers, Null

\* A call that takes one buffer at most.
LEMMA FreeTaken ==
  ASSUME NEW s, NEW r, NEW b, DOMAIN r.memory \subseteq DOMAIN s.memory \cup {b}
  PROVE  Free(r) >= Free(s) - 1
<1> DEFINE S == Buffers \ DOMAIN s.memory
           R == Buffers \ DOMAIN r.memory
<1>1. IsFiniteSet(S) /\ IsFiniteSet(R) /\ Cardinality(S) \in Nat /\ Cardinality(R) \in Nat
  BY FreeType, FS_CardinalityType
<1>2. S \subseteq R \cup {b}
  OBVIOUS
<1>3. IsFiniteSet(R \cup {b}) /\ Cardinality(R \cup {b}) <= Cardinality(R) + 1
      /\ Cardinality(R \cup {b}) \in Nat
  BY <1>1, FS_AddElement, FS_CardinalityType
<1>4. Cardinality(S) <= Cardinality(R \cup {b})
  BY <1>2, <1>3, FS_Subset
<1> HIDE DEF S, R
<1>5. Cardinality(R) >= Cardinality(S) - 1
  BY <1>1, <1>3, <1>4
<1> QED BY <1>5 DEF Free, S, R

-----------------------------------------------------------------------------
(* One array gets a new record and buffer, and other buffers are given     *)
(* back: every call is made of such steps.                                 *)

LEMMA GoodParts ==
  ASSUME NEW s, Good(s), NEW o \in DOMAIN s.arrays
  PROVE  LET a == s.arrays[o]
         IN  /\ a \in Record /\ a = [data |-> a.data, size |-> a.size, physical_size |-> a.physical_size]
             /\ a.data \in Buffers \cup {Null} /\ a.size \in Nat /\ a.physical_size \in Nat
             /\ a.size <= a.physical_size /\ a.physical_size % BlockSize = 0
             /\ a.data = Null => a.physical_size = 0 /\ a.size = 0
             /\ a.data # Null =>
                  /\ a.data \in DOMAIN s.memory
                  /\ s.memory[a.data] \in [0 .. a.physical_size - 1 -> All]
                  /\ \A i \in 0 .. a.size - 1 : s.memory[a.data][i] \in Items
<1> DEFINE a == s.arrays[o]
<1>1. Held(s, o)
  BY DEF Good
<1>2. /\ a \in Record /\ a.size <= a.physical_size /\ a.physical_size % BlockSize = 0
      /\ a.data = Null => a.physical_size = 0
      /\ a.data # Null =>
           /\ a.data \in DOMAIN s.memory
           /\ s.memory[a.data] \in [0 .. a.physical_size - 1 -> All]
           /\ \A i \in 0 .. a.size - 1 : s.memory[a.data][i] \in Items
  BY <1>1 DEF Held
<1> HIDE DEF a
<1>3. /\ a = [data |-> a.data, size |-> a.size, physical_size |-> a.physical_size]
      /\ a.data \in Buffers \cup {Null} /\ a.size \in Nat /\ a.physical_size \in Nat
  BY <1>2 DEF Record
<1>4. a.data = Null => a.size = 0
  BY <1>2, <1>3
<1> QED BY <1>2, <1>3, <1>4 DEF a

LEMMA StaysInjective ==
  ASSUME NEW D, NEW o, NEW A, NEW B, \A p \in D \ {o} : A[p] = B[p],
         \A p \in D : p # o => B[p].data # A[o].data,
         \A p, q \in D : B[p].data = B[q].data /\ B[p].data # Null => p = q
  PROVE  \A p, q \in D \cup {o} : A[p].data = A[q].data /\ A[p].data # Null => p = q
<1> SUFFICES ASSUME NEW p \in D \cup {o}, NEW q \in D \cup {o}, p # q,
                    A[p].data = A[q].data, A[p].data # Null
             PROVE  FALSE
  BY Zenon
<1>1. CASE p = o
  BY <1>1, Zenon
<1>2. CASE q = o
  BY <1>2, Zenon
<1>3. CASE p # o /\ q # o
  <2>1. p \in D \ {o} /\ q \in D \ {o} /\ A[p] = B[p] /\ A[q] = B[q]
    BY <1>3
  <2> QED BY <2>1, Zenon
<1> QED BY <1>1, <1>2, <1>3

Fits(s, o, a, f) ==
  /\ a \in Record /\ a.size <= a.physical_size /\ a.physical_size % BlockSize = 0
  /\ a.data # Null
  /\ \A p \in DOMAIN s.arrays : p # o => s.arrays[p].data # a.data
  /\ f \in [0 .. a.physical_size - 1 -> All]
  /\ \A i \in 0 .. a.size - 1 : f[i] \in Items

Spared(s, o, a, gone) ==
  /\ a.data \notin gone
  /\ \A p \in DOMAIN s.arrays : p # o /\ s.arrays[p].data # Null => s.arrays[p].data \notin gone

Updated(s, o, a, f, gone) ==
  [arrays |-> [p \in DOMAIN s.arrays \cup {o} |-> IF p = o THEN a ELSE s.arrays[p]],
   memory |-> [b \in (DOMAIN s.memory \cup {a.data}) \ gone |-> IF b = a.data THEN f ELSE s.memory[b]],
   outside |-> FALSE]

IsUpdate(s, r, o, a, f, gone) ==
  /\ Good(r)
  /\ DOMAIN r.arrays = DOMAIN s.arrays \cup {o} /\ r.arrays[o] = a
  /\ DOMAIN r.memory = (DOMAIN s.memory \cup {a.data}) \ gone /\ r.memory[a.data] = f
  /\ \A p \in DOMAIN s.arrays \ {o} :
       /\ r.arrays[p] = s.arrays[p]
       /\ s.arrays[p].data # Null => r.memory[s.arrays[p].data] = s.memory[s.arrays[p].data]

LEMMA Update ==
  ASSUME NEW s, Good(s), NEW o \in Names \cup {Parameter}, NEW a, NEW f, NEW gone,
         Fits(s, o, a, f), Spared(s, o, a, gone)
  PROVE  IsUpdate(s, Updated(s, o, a, f, gone), o, a, f, gone)
<1> DEFINE A == [p \in DOMAIN s.arrays \cup {o} |-> IF p = o THEN a ELSE s.arrays[p]]
           M == [b \in (DOMAIN s.memory \cup {a.data}) \ gone |-> IF b = a.data THEN f ELSE s.memory[b]]
           r == Updated(s, o, a, f, gone)
<1>a. /\ a \in Record /\ a.size <= a.physical_size /\ a.physical_size % BlockSize = 0
      /\ a.data # Null
      /\ \A p \in DOMAIN s.arrays : p # o => s.arrays[p].data # a.data
      /\ f \in [0 .. a.physical_size - 1 -> All]
      /\ \A i \in 0 .. a.size - 1 : f[i] \in Items
  BY DEF Fits
<1>b. /\ a.data \notin gone
      /\ \A p \in DOMAIN s.arrays : p # o /\ s.arrays[p].data # Null => s.arrays[p].data \notin gone
  BY DEF Spared
<1>c. r = [arrays |-> A, memory |-> M, outside |-> FALSE]
  BY DEF Updated
<1> HIDE DEF r
<1> USE <1>a, <1>b, <1>c
<1>1. r.arrays = A /\ r.memory = M /\ r.outside = FALSE
  BY ONLY <1>c
<1>2. /\ a.data \in Buffers /\ a.size \in Nat /\ a.physical_size \in Nat
  BY DEF Record
<1>3. /\ DOMAIN A = DOMAIN s.arrays \cup {o} /\ A[o] = a
      /\ \A p \in DOMAIN s.arrays \ {o} : A[p] = s.arrays[p]
  OBVIOUS
<1>4. /\ DOMAIN M = (DOMAIN s.memory \cup {a.data}) \ gone /\ M[a.data] = f
      /\ \A b \in DOMAIN M : b # a.data => M[b] = s.memory[b] /\ b \in DOMAIN s.memory
  OBVIOUS
<1>5. \A p \in DOMAIN s.arrays \ {o} :
        s.arrays[p].data # Null =>
          /\ s.arrays[p].data \in DOMAIN M /\ s.arrays[p].data \in DOMAIN s.memory
          /\ M[s.arrays[p].data] = s.memory[s.arrays[p].data]
  <2> SUFFICES ASSUME NEW p \in DOMAIN s.arrays \ {o}, s.arrays[p].data # Null
               PROVE  /\ s.arrays[p].data \in DOMAIN M /\ s.arrays[p].data \in DOMAIN s.memory
                      /\ M[s.arrays[p].data] = s.memory[s.arrays[p].data]
    OBVIOUS
  <2>1. s.arrays[p].data \in DOMAIN s.memory
    BY GoodParts
  <2> QED BY <1>4, <2>1
<1>6. Typed(r)
  <2>1. \A b \in DOMAIN M : \E n \in Nat : M[b] \in [0 .. n - 1 -> All]
    <3> SUFFICES ASSUME NEW b \in DOMAIN M PROVE \E n \in Nat : M[b] \in [0 .. n - 1 -> All]
      OBVIOUS
    <3>1. CASE b = a.data
      BY <1>2, <1>4, <3>1
    <3>2. CASE b # a.data
      BY <1>4, <3>2 DEF Good, Typed
    <3> QED BY <3>1, <3>2
  <2>2. M = [b \in DOMAIN M |-> M[b]]
    OBVIOUS
  <2> QED BY <1>1, <2>1, <2>2 DEF Typed
<1>7. A = [p \in DOMAIN A |-> A[p]]
  OBVIOUS
<1>8. DOMAIN A \subseteq Names \cup {Parameter} /\ DOMAIN M \subseteq Buffers
  BY <1>2, <1>3, <1>4 DEF Good
<1>9. ASSUME NEW p \in DOMAIN A PROVE Held(r, p)
  <2>1. CASE p = o
    <3>1. \A i \in 0 .. a.size - 1 : M[a.data][i] \in Items
      BY <1>4
    <3> QED BY <1>1, <1>2, <1>3, <1>4, <2>1, <3>1 DEF Held
  <2>2. CASE p # o
    <3>1. p \in DOMAIN s.arrays /\ A[p] = s.arrays[p]
      BY <1>3, <2>2
    <3> DEFINE c == s.arrays[p]
    <3>2. /\ c \in Record /\ c.size <= c.physical_size /\ c.physical_size % BlockSize = 0
          /\ c.data = Null => c.physical_size = 0
          /\ c.data # Null =>
               /\ c.data \in DOMAIN s.memory
               /\ s.memory[c.data] \in [0 .. c.physical_size - 1 -> All]
               /\ \A i \in 0 .. c.size - 1 : s.memory[c.data][i] \in Items
      BY <3>1, GoodParts
    <3>3. c.data # Null => c.data \in DOMAIN M /\ M[c.data] = s.memory[c.data]
      BY <1>5, <2>2, <3>1
    <3>4. A[p] = c
      BY <3>1
    <3> HIDE DEF c
    <3> QED BY <1>1, <3>2, <3>3, <3>4 DEF Held
  <2> QED BY <2>1, <2>2
<1>10. /\ \A p \in DOMAIN s.arrays \ {o} : A[p] = s.arrays[p]
       /\ \A p \in DOMAIN s.arrays : p # o => s.arrays[p].data # A[o].data
       /\ \A p, q \in DOMAIN s.arrays :
            s.arrays[p].data = s.arrays[q].data /\ s.arrays[p].data # Null => p = q
  BY <1>3 DEF Good
<1>11. Good(r)
  <2>1. \A p, q \in DOMAIN s.arrays \cup {o} : A[p].data = A[q].data /\ A[p].data # Null => p = q
    BY ONLY <1>10, StaysInjective
  <2>2. \A p, q \in DOMAIN r.arrays :
          r.arrays[p].data = r.arrays[q].data /\ r.arrays[p].data # Null => p = q
    BY ONLY <1>1, <1>3, <2>1
  <2> QED BY ONLY <1>1, <1>6, <1>7, <1>8, <1>9, <2>2 DEF Good
<1> QED BY <1>1, <1>3, <1>4, <1>5, <1>11 DEF IsUpdate, r

\* The same for an object that is there: it has one buffer after the call, as before.
Changes(s, r, o, a, f) ==
  /\ Good(r) /\ Others(s, r, o) /\ r.arrays[o] = a /\ r.memory[a.data] = f
  /\ DOMAIN r.memory \subseteq DOMAIN s.memory \cup {a.data}

LEMMA ChangeIs ==
  ASSUME NEW s, Good(s), NEW o \in DOMAIN s.arrays, NEW a, NEW f, Fits(s, o, a, f),
         a.data = s.arrays[o].data \/ a.data \notin DOMAIN s.memory
  PROVE  Changes(s, Updated(s, o, a, f, {s.arrays[o].data} \ {a.data}), o, a, f)
<1> DEFINE old == s.arrays[o].data
           gone == {old} \ {a.data}
           r == Updated(s, o, a, f, gone)
<1>2. o \in Names \cup {Parameter} /\ DOMAIN s.arrays \cup {o} = DOMAIN s.arrays
  BY DEF Good
<1>3. Spared(s, o, a, gone)
  BY DEF Good, Spared
<1> HIDE DEF gone, r
<1>4. IsUpdate(s, r, o, a, f, gone)
  BY ONLY <1>2, <1>3, Good(s), Fits(s, o, a, f), Update DEF r
<1>5. /\ Good(r)
      /\ DOMAIN r.arrays = DOMAIN s.arrays \cup {o} /\ r.arrays[o] = a
      /\ DOMAIN r.memory = (DOMAIN s.memory \cup {a.data}) \ gone /\ r.memory[a.data] = f
      /\ \A p \in DOMAIN s.arrays \ {o} :
           /\ r.arrays[p] = s.arrays[p]
           /\ s.arrays[p].data # Null => r.memory[s.arrays[p].data] = s.memory[s.arrays[p].data]
  BY ONLY <1>4 DEF IsUpdate
<1>6. Lost(r) = Lost(s)
  <2> DEFINE X == {s.arrays[p].data : p \in DOMAIN s.arrays \ {o}}
             c == a.data
  <2>1. {s.arrays[p].data : p \in DOMAIN s.arrays} = X \cup {old}
    OBVIOUS
  <2>2. {r.arrays[p].data : p \in DOMAIN r.arrays} = X \cup {c}
    <3>1. \A p \in DOMAIN s.arrays \ {o} : r.arrays[p].data = s.arrays[p].data
      BY <1>5
    <3>2. DOMAIN r.arrays = (DOMAIN s.arrays \ {o}) \cup {o} /\ r.arrays[o].data = c
      BY <1>2, <1>5
    <3> QED BY ONLY <3>1, <3>2
  <2>3. c = old \/ c \notin DOMAIN s.memory
    OBVIOUS
  <2>4. c \notin X
    BY DEF Fits
  <2>5. DOMAIN r.memory = (DOMAIN s.memory \cup {c}) \ ({old} \ {c})
    BY <1>5 DEF gone
  <2> HIDE DEF X, c, old
  <2> QED BY ONLY <2>1, <2>2, <2>3, <2>4, <2>5 DEF Lost
<1>7. Others(s, r, o)
  BY ONLY <1>5, <1>6 DEF Others
<1>8. DOMAIN r.memory \subseteq DOMAIN s.memory \cup {a.data}
  BY ONLY <1>5
<1>9. Changes(s, r, o, a, f)
  BY ONLY <1>5, <1>7, <1>8 DEF Changes
<1> QED BY ONLY <1>9 DEF r, gone

-----------------------------------------------------------------------------
(* The indexes of the loops.                                               *)

LEMMA UpIs ==
  ASSUME NEW from \in Int, NEW to \in Int
  PROVE  /\ Up(from, to) \in Seq(Int) /\ DOMAIN Up(from, to) = 1 .. to - from + 1
         /\ {Up(from, to)[k] : k \in DOMAIN Up(from, to)} = from .. to
         /\ \A k \in DOMAIN Up(from, to) : Up(from, to)[k] = from + k - 1
         /\ from > to => Up(from, to) = <<>>
<1> DEFINE n == to - from + 1
           u == [k \in 1 .. n |-> from + k - 1]
<1>1. u = Up(from, to) /\ DOMAIN u = 1 .. n /\ \A k \in 1 .. n : u[k] = from + k - 1
  BY DEF Up
<1>2. CASE from > to
  <2>1. 1 .. n = {} /\ from .. to = {}
    BY <1>2
  <2>2. u = <<>> /\ DOMAIN u = {} /\ u \in Seq(Int)
    BY <2>1
  <2>3. {u[k] : k \in DOMAIN u} = {}
    BY <2>2
  <2>4. DOMAIN u = 1 .. to - from + 1 /\ \A k \in DOMAIN u : FALSE
    BY <2>2, <2>1
  <2> HIDE DEF u, n
  <2> QED BY ONLY <1>1, <2>1, <2>2, <2>3, <2>4
<1>3. CASE from <= to
  <2>1. n \in Nat
    BY <1>3
  <2>2. u \in Seq(Int)
    BY <2>1
  <2>3. {u[k] : k \in 1 .. n} = from .. to
    <3>1. \A k \in 1 .. n : u[k] \in from .. to
      OBVIOUS
    <3>2. ASSUME NEW i \in from .. to PROVE \E k \in 1 .. n : u[k] = i
      <4>1. i - from + 1 \in 1 .. n /\ from + (i - from + 1) - 1 = i
        OBVIOUS
      <4> HIDE DEF u
      <4> QED BY <1>1, <4>1
    <3> HIDE DEF u
    <3> QED BY <3>1, <3>2
  <2>4. DOMAIN u = 1 .. to - from + 1
    OBVIOUS
  <2>5. ~ (from > to)
    BY <1>3
  <2>6. {u[k] : k \in DOMAIN u} = from .. to
    BY <2>3, <1>1
  <2> HIDE DEF u
  <2> QED BY ONLY <1>1, <2>2, <2>4, <2>5, <2>6
<1> QED BY <1>2, <1>3

LEMMA DownIs ==
  ASSUME NEW from \in Int, NEW to \in Int
  PROVE  /\ Down(from, to) \in Seq(Int) /\ DOMAIN Down(from, to) = 1 .. from - to + 1
         /\ {Down(from, to)[k] : k \in DOMAIN Down(from, to)} = to .. from
         /\ \A k \in DOMAIN Down(from, to) : Down(from, to)[k] = from - k + 1
         /\ to > from => Down(from, to) = <<>>
<1> DEFINE n == from - to + 1
           u == [k \in 1 .. n |-> from - k + 1]
<1>1. u = Down(from, to) /\ DOMAIN u = 1 .. n /\ \A k \in 1 .. n : u[k] = from - k + 1
  BY DEF Down
<1>2. CASE to > from
  <2>1. 1 .. n = {} /\ to .. from = {}
    BY <1>2
  <2>2. u = <<>> /\ DOMAIN u = {} /\ u \in Seq(Int)
    BY <2>1
  <2>3. {u[k] : k \in DOMAIN u} = {}
    BY <2>2
  <2>4. DOMAIN u = 1 .. from - to + 1 /\ \A k \in DOMAIN u : FALSE
    BY <2>2, <2>1
  <2> HIDE DEF u, n
  <2> QED BY ONLY <1>1, <2>1, <2>2, <2>3, <2>4
<1>3. CASE to <= from
  <2>1. n \in Nat
    BY <1>3
  <2>2. u \in Seq(Int)
    BY <2>1
  <2>3. {u[k] : k \in 1 .. n} = to .. from
    <3>1. \A k \in 1 .. n : u[k] \in to .. from
      OBVIOUS
    <3>2. ASSUME NEW i \in to .. from PROVE \E k \in 1 .. n : u[k] = i
      <4>1. from - i + 1 \in 1 .. n /\ from - (from - i + 1) + 1 = i
        OBVIOUS
      <4> HIDE DEF u
      <4> QED BY <1>1, <4>1
    <3> HIDE DEF u
    <3> QED BY <3>1, <3>2
  <2>4. DOMAIN u = 1 .. from - to + 1
    OBVIOUS
  <2>5. ~ (to > from)
    BY <1>3
  <2>6. {u[k] : k \in DOMAIN u} = to .. from
    BY <2>3, <1>1
  <2> HIDE DEF u
  <2> QED BY ONLY <1>1, <2>2, <2>4, <2>5, <2>6
<1> QED BY <1>2, <1>3

-----------------------------------------------------------------------------
(* The calls, one by one.                                                  *)

\* What the items of a buffer that is read are.
LEMMA LoadType ==
  ASSUME NEW s, Typed(s), NEW b, NEW i
  PROVE  Load(s, b, i) \in All
<1>1. CASE Inside(s, b, i)
  <2>1. b \in DOMAIN s.memory /\ i \in DOMAIN s.memory[b]
    BY <1>1 DEF Inside
  <2>2. PICK n \in Nat : s.memory[b] \in [0 .. n - 1 -> All]
    BY <2>1 DEF Typed
  <2> QED BY <1>1, <2>1, <2>2 DEF Load
<1>2. CASE ~ Inside(s, b, i)
  BY <1>2 DEF Load, All
<1> QED BY <1>1, <1>2

\* A new buffer with a part of another one.
FirstOf(s, b, size, room) ==
  [i \in 0 .. room - 1 |-> IF i \in 0 .. size - 1 THEN Load(s, b, i) ELSE Junk]

LEMMA FirstType ==
  ASSUME NEW s, Typed(s), NEW from, NEW size \in Nat, NEW room \in Nat
  PROVE  FirstOf(s, from, size, room) \in [0 .. room - 1 -> All]
<1>1. \A i \in 0 .. room - 1 : Load(s, from, i) \in All /\ Junk \in All
  BY LoadType DEF All
<1> QED BY ONLY <1>1 DEF FirstOf

LEMMA NewCopy ==
  ASSUME NEW s, Typed(s), NEW b, b \notin DOMAIN s.memory, NEW size \in Nat, NEW room \in Nat,
         size <= room, NEW from, from # b
  PROVE  Move(New(s, b, room), b, from, 0, Up(0, size - 1))
           = [arrays |-> s.arrays, memory |-> With(s.memory, b, FirstOf(s, from, size, room)), outside |-> s.outside]
<1> DEFINE new == New(s, b, room)
           A == s.arrays
           F == [i \in 0 .. room - 1 |-> IF i \in 0 .. size - 1 THEN Load(s, from, i) ELSE Junk]
           J == [i \in 0 .. room - 1 |-> Junk]
           M == [c \in DOMAIN s.memory \cup {b} |-> IF c = b THEN J ELSE s.memory[c]]
           ind == Up(0, size - 1)
<1>1. new = [arrays |-> A, memory |-> M, outside |-> s.outside]
  <2>1. /\ s = [arrays |-> s.arrays, memory |-> s.memory, outside |-> s.outside]
        /\ DOMAIN s = {"arrays", "memory", "outside"}
    <3>1. s = [arrays |-> s.arrays, memory |-> s.memory, outside |-> s.outside]
      BY DEF Typed
    <3> QED BY ONLY <3>1
  <2>2. With(s.memory, b, J) = M
    BY DEF With
  <2>3. new = [s EXCEPT !.memory = With(s.memory, b, J)]
    BY DEF New
  <2> HIDE DEF M, new
  <2>4. new = [arrays |-> A, memory |-> M, outside |-> s.outside]
    BY ONLY <2>1, <2>2, <2>3
  <2> QED BY ONLY <2>4
<1> HIDE DEF new
<1>2. new.memory = M /\ new.arrays = A /\ new.outside = s.outside
  BY ONLY <1>1
<1>3. b \in DOMAIN M /\ M[b] = J /\ DOMAIN J = 0 .. room - 1
  OBVIOUS
<1>4. Typed(new)
  <2>1. \A c \in DOMAIN M : \E n \in Nat : M[c] \in [0 .. n - 1 -> All]
    <3> SUFFICES ASSUME NEW c \in DOMAIN M PROVE \E n \in Nat : M[c] \in [0 .. n - 1 -> All]
      OBVIOUS
    <3>1. CASE c = b
      <4>1. J \in [0 .. room - 1 -> All]
        BY DEF All
      <4> QED BY <1>3, <3>1, <4>1
    <3>2. CASE c # b
      BY <3>2 DEF Typed
    <3> QED BY <3>1, <3>2
  <2>2. M = [c \in DOMAIN M |-> M[c]]
    OBVIOUS
  <2>3. new = [arrays |-> new.arrays, memory |-> new.memory, outside |-> new.outside]
    BY ONLY <1>1
  <2> HIDE DEF M
  <2> QED BY ONLY <1>2, <2>1, <2>2, <2>3 DEF Typed
<1> HIDE DEF M, J
<1>5. /\ ind \in Seq(Int) /\ {ind[k] : k \in DOMAIN ind} = 0 .. size - 1
      /\ \A k \in DOMAIN ind : ind[k] \in 0 .. room - 1
  <2>1. ind \in Seq(Int) /\ {ind[k] : k \in DOMAIN ind} = 0 .. size - 1
    <3>1. 0 \in Int /\ size - 1 \in Int
      OBVIOUS
    <3> QED BY ONLY <3>1, UpIs
  <2> HIDE DEF ind
  <2>2. \A k \in DOMAIN ind : ind[k] \in 0 .. size - 1
    BY <2>1
  <2> QED BY <2>1, <2>2
<1> HIDE DEF ind
<1> DEFINE G == MoveMap(new, b, from, 0, ind)
<1>6. Move(new, b, from, 0, ind) = Set(new, b, G)
  <2>1. b \in DOMAIN new.memory /\ DOMAIN new.memory[b] = 0 .. room - 1
    BY <1>2, <1>3
  <2>2. \A k \in DOMAIN ind : ind[k] \in DOMAIN new.memory[b]
    BY <1>5, <2>1
  <2> QED BY ONLY <1>4, <1>5, <2>1, <2>2, MoveIs, from # b, 0 \in Int
<1>7. G = F
  <2>1. \A i \in 0 .. room - 1 : Load(new, from, i + 0) = Load(s, from, i)
    <3> SUFFICES ASSUME NEW i \in 0 .. room - 1 PROVE Load(new, from, i) = Load(s, from, i)
      OBVIOUS
    <3>1. from \in DOMAIN M <=> from \in DOMAIN s.memory
      BY DEF M
    <3>2. from \in DOMAIN s.memory => M[from] = s.memory[from]
      BY DEF M
    <3> QED BY ONLY <1>2, <3>1, <3>2 DEF Load, Inside
  <2> HIDE DEF M
  <2>2. DOMAIN new.memory[b] = 0 .. room - 1 /\ \A i \in 0 .. room - 1 : new.memory[b][i] = Junk
    BY <1>2, <1>3 DEF J
  <2> QED BY ONLY <1>5, <2>1, <2>2 DEF MoveMap
<1>8. F \in [0 .. room - 1 -> All]
  BY LoadType DEF All
<1> HIDE DEF G, F
<1>9. Set(new, b, F) = [arrays |-> A, memory |-> [M EXCEPT ![b] = F], outside |-> s.outside]
  BY <1>2, <1>4, SetRecord
<1>10. [M EXCEPT ![b] = F] = [c \in DOMAIN s.memory \cup {b} |-> IF c = b THEN F ELSE s.memory[c]]
  BY DEF M
<1>11. FirstOf(s, from, size, room) = F
  BY DEF F, FirstOf
<1>12. With(s.memory, b, F) = [M EXCEPT ![b] = F]
  BY ONLY <1>10 DEF With
<1> QED BY ONLY <1>6, <1>7, <1>8, <1>9, <1>11, <1>12 DEF ind, new

\* A field of the record of an array, and a part of the store.
LEMMA DataIs ==
  ASSUME NEW s, NEW A, NEW M, NEW out, s = [arrays |-> A, memory |-> M, outside |-> out],
         NEW o \in DOMAIN A, NEW d, NEW z, NEW p,
         A[o] = [data |-> d, size |-> z, physical_size |-> p], NEW x
  PROVE  [s EXCEPT !.arrays[o].data = x] =
              [arrays |-> [A EXCEPT ![o] = [data |-> x, size |-> z, physical_size |-> p]],
               memory |-> M, outside |-> out]
<1> DEFINE a == A[o]
           a1 == [data |-> x, size |-> z, physical_size |-> p]
<1>1. s.arrays = A /\ DOMAIN s = {"arrays", "memory", "outside"}
  OBVIOUS
<1>2. [a EXCEPT !.data = x] = a1
  <2>1. a = [data |-> d, size |-> z, physical_size |-> p] /\ DOMAIN a = {"data", "size", "physical_size"}
    OBVIOUS
  <2> HIDE DEF a
  <2> QED BY ONLY <2>1
<1>3. [s EXCEPT !.arrays[o].data = x] = [s EXCEPT !.arrays = [A EXCEPT ![o] = a1]]
  <2> HIDE DEF a1
  <2> QED BY ONLY <1>1, <1>2
<1>4. ASSUME NEW B
      PROVE  [s EXCEPT !.arrays = B] = [arrays |-> B, memory |-> M, outside |-> out]
  BY ONLY <1>1, s = [arrays |-> A, memory |-> M, outside |-> out]
<1> HIDE DEF a1
<1> QED BY ONLY <1>3, <1>4 DEF a1

LEMMA SizeIs ==
  ASSUME NEW s, NEW A, NEW M, NEW out, s = [arrays |-> A, memory |-> M, outside |-> out],
         NEW o \in DOMAIN A, NEW d, NEW z, NEW p,
         A[o] = [data |-> d, size |-> z, physical_size |-> p], NEW x
  PROVE  [s EXCEPT !.arrays[o].size = x] =
              [arrays |-> [A EXCEPT ![o] = [data |-> d, size |-> x, physical_size |-> p]],
               memory |-> M, outside |-> out]
<1> DEFINE a == A[o]
           a1 == [data |-> d, size |-> x, physical_size |-> p]
<1>1. s.arrays = A /\ DOMAIN s = {"arrays", "memory", "outside"}
  OBVIOUS
<1>2. [a EXCEPT !.size = x] = a1
  <2>1. a = [data |-> d, size |-> z, physical_size |-> p] /\ DOMAIN a = {"data", "size", "physical_size"}
    OBVIOUS
  <2> HIDE DEF a
  <2> QED BY ONLY <2>1
<1>3. [s EXCEPT !.arrays[o].size = x] = [s EXCEPT !.arrays = [A EXCEPT ![o] = a1]]
  <2> HIDE DEF a1
  <2> QED BY ONLY <1>1, <1>2
<1>4. ASSUME NEW B
      PROVE  [s EXCEPT !.arrays = B] = [arrays |-> B, memory |-> M, outside |-> out]
  BY ONLY <1>1, s = [arrays |-> A, memory |-> M, outside |-> out]
<1> HIDE DEF a1
<1> QED BY ONLY <1>3, <1>4 DEF a1

LEMMA PhysicalIs ==
  ASSUME NEW s, NEW A, NEW M, NEW out, s = [arrays |-> A, memory |-> M, outside |-> out],
         NEW o \in DOMAIN A, NEW d, NEW z, NEW p,
         A[o] = [data |-> d, size |-> z, physical_size |-> p], NEW x
  PROVE  [s EXCEPT !.arrays[o].physical_size = x] =
              [arrays |-> [A EXCEPT ![o] = [data |-> d, size |-> z, physical_size |-> x]],
               memory |-> M, outside |-> out]
<1> DEFINE a == A[o]
           a1 == [data |-> d, size |-> z, physical_size |-> x]
<1>1. s.arrays = A /\ DOMAIN s = {"arrays", "memory", "outside"}
  OBVIOUS
<1>2. [a EXCEPT !.physical_size = x] = a1
  <2>1. a = [data |-> d, size |-> z, physical_size |-> p] /\ DOMAIN a = {"data", "size", "physical_size"}
    OBVIOUS
  <2> HIDE DEF a
  <2> QED BY ONLY <2>1
<1>3. [s EXCEPT !.arrays[o].physical_size = x] = [s EXCEPT !.arrays = [A EXCEPT ![o] = a1]]
  <2> HIDE DEF a1
  <2> QED BY ONLY <1>1, <1>2
<1>4. ASSUME NEW B
      PROVE  [s EXCEPT !.arrays = B] = [arrays |-> B, memory |-> M, outside |-> out]
  BY ONLY <1>1, s = [arrays |-> A, memory |-> M, outside |-> out]
<1> HIDE DEF a1
<1> QED BY ONLY <1>3, <1>4 DEF a1

LEMMA ArraysIs ==
  ASSUME NEW s, NEW A, NEW M, NEW out, s = [arrays |-> A, memory |-> M, outside |-> out], NEW x
  PROVE  [s EXCEPT !.arrays = x] = [arrays |-> x, memory |-> M, outside |-> out]
<1>1. DOMAIN s = {"arrays", "memory", "outside"}
  OBVIOUS
<1> QED BY ONLY <1>1, s = [arrays |-> A, memory |-> M, outside |-> out]

LEMMA MemoryIs ==
  ASSUME NEW s, NEW A, NEW M, NEW out, s = [arrays |-> A, memory |-> M, outside |-> out], NEW x
  PROVE  [s EXCEPT !.memory = x] = [arrays |-> A, memory |-> x, outside |-> out]
<1>1. DOMAIN s = {"arrays", "memory", "outside"}
  OBVIOUS
<1> QED BY ONLY <1>1, s = [arrays |-> A, memory |-> M, outside |-> out]

LEMMA StoreParts ==
  ASSUME NEW s, Good(s)
  PROVE  /\ s = [arrays |-> s.arrays, memory |-> s.memory, outside |-> s.outside]
         /\ DOMAIN s = {"arrays", "memory", "outside"}
         /\ s.arrays = [o \in DOMAIN s.arrays |-> s.arrays[o]]
         /\ s.memory = [b \in DOMAIN s.memory |-> s.memory[b]]
         /\ Typed(s) /\ s.outside = FALSE
<1>1. s = [arrays |-> s.arrays, memory |-> s.memory, outside |-> s.outside]
  BY DEF Good, Typed
<1>2. DOMAIN s = {"arrays", "memory", "outside"}
  BY ONLY <1>1
<1>3. s.outside = FALSE
  BY DEF Good
<1> QED BY <1>1, <1>2, <1>3 DEF Good, Typed

\* An item of an array, and where it lies.
LEMMA GetParts ==
  ASSUME NEW s, Good(s), NEW o \in DOMAIN s.arrays, NEW i \in 0 .. Size(s, o) - 1
  PROVE  /\ Get(s, o, i) = s.memory[s.arrays[o].data][i] /\ Get(s, o, i) \in Items
         /\ s.arrays[o].data # Null /\ s.arrays[o].data \in DOMAIN s.memory
<1> DEFINE a == s.arrays[o]
<1>1. a.size \in Nat /\ a.physical_size \in Nat /\ a.size <= a.physical_size /\ i \in 0 .. a.size - 1
  BY GoodParts DEF Size
<1>2. a.data # Null
  <2>1. a.size # 0
    BY <1>1
  <2> QED BY <2>1, GoodParts
<1>3. /\ a.data \in DOMAIN s.memory /\ s.memory[a.data] \in [0 .. a.physical_size - 1 -> All]
      /\ s.memory[a.data][i] \in Items
  BY <1>1, <1>2, GoodParts
<1>4. i \in DOMAIN s.memory[a.data]
  BY <1>1, <1>3
<1> QED BY <1>2, <1>3, <1>4 DEF Get, Load, Inside

LEMMA GetIs ==
  ASSUME NEW s, Good(s), NEW o \in DOMAIN s.arrays, NEW i \in 0 .. Size(s, o) - 1
  PROVE  Get(s, o, i) = s.memory[s.arrays[o].data][i]
BY GetParts

LEMMA ItemIs ==
  ASSUME NEW s, Good(s), NEW o \in DOMAIN s.arrays, NEW i \in 0 .. Size(s, o) - 1
  PROVE  Get(s, o, i) \in Items
BY GetParts

LEMMA SizeType ==
  ASSUME NEW s, Good(s), NEW o \in DOMAIN s.arrays
  PROVE  Size(s, o) \in Nat
BY GoodParts DEF Size

\* As many blocks as there are suffice for as many items as they hold.
LEMMA EnoughBlocks ==
  ASSUME NEW n \in Nat, NEW p \in Nat, p % BlockSize = 0, n <= p
  PROVE  ((n + BlockSize - 1) \div BlockSize) * BlockSize <= p
<1>1. BlockSize \in Nat /\ BlockSize > 0
  BY ContainersAssumption
<1> DEFINE B == BlockSize
           m == n + B - 1
           q == m \div B
           k == p \div B
<1>2. q \in Nat /\ q * B <= m
  <2>1. m \in Nat
    BY <1>1
  <2> HIDE DEF m
  <2> QED BY ONLY <1>1, <2>1, Quotients
<1>3. k \in Nat /\ p = k * B
  <2>1. k \in Nat /\ k * B <= p /\ p < k * B + B
    BY <1>1, Quotients
  <2>2. p = (B * k) + (p % B)
    BY ONLY <1>1, p \in Nat
  <2> HIDE DEF k
  <2> QED BY ONLY <2>1, <2>2, p % BlockSize = 0, <1>1
<1> HIDE DEF q, k
<1>4. ASSUME q > k PROVE FALSE
  <2>1. q >= k + 1 /\ q \in Nat /\ k \in Nat
    BY <1>2, <1>3, <1>4
  <2>2. q * B >= (k + 1) * B
    BY ONLY <2>1, <1>1
  <2>3. (k + 1) * B = k * B + B
    BY ONLY <2>1, <1>1
  <2> QED BY <1>1, <1>2, <1>3, <2>2, <2>3
<1>5. q <= k
  BY <1>2, <1>3, <1>4
<1>6. q * B <= k * B
  BY ONLY <1>1, <1>2, <1>3, <1>5
<1> QED BY <1>3, <1>6 DEF q

\* What reserve leaves: room for n items, and the same items.
Widens(s, r, o) ==
  /\ s.arrays[o].physical_size \in Nat /\ r.arrays[o].physical_size \in Nat
  /\ s.arrays[o].physical_size <= r.arrays[o].physical_size

Reserves(s, r, o, n) ==
  /\ Good(r) /\ Others(s, r, o) /\ Size(r, o) = Size(s, o) /\ Widens(s, r, o)
  /\ r.arrays[o].physical_size >= n
  /\ \A i \in 0 .. Size(s, o) - 1 : Get(r, o, i) = Get(s, o, i)
  /\ \E b : DOMAIN r.memory \subseteq DOMAIN s.memory \cup {b}

LEMMA Reserve ==
  ASSUME NEW s, Good(s), NEW o \in DOMAIN s.arrays, NEW n \in Nat,
         Free(s) >= 1 \/ n <= s.arrays[o].physical_size
  PROVE  Reserves(s, reserve(s, o, n), o, n)
<1> DEFINE r == reserve(s, o, n)
<1>0. r = reserve(s, o, n)
  OBVIOUS
<1> HIDE DEF r
<1> DEFINE a == s.arrays[o]
           old == a.data
           blocks == ((n + BlockSize - 1) \div BlockSize) * BlockSize
           b == Fresh(s)
           new == New([s EXCEPT !.arrays[o].physical_size = blocks], b, blocks)
           copied == Move(new, b, old, 0, Up(0, Size(s, o) - 1))
<1>1. /\ a = [data |-> a.data, size |-> a.size, physical_size |-> a.physical_size]
      /\ a.data \in Buffers \cup {Null} /\ a.size \in Nat /\ a.physical_size \in Nat
      /\ a.size <= a.physical_size /\ a.physical_size % BlockSize = 0
      /\ a.data # Null => a.data \in DOMAIN s.memory
  BY GoodParts
<1>2. blocks \in Nat /\ blocks >= n /\ blocks % BlockSize = 0
  BY Blocks
<1>3. /\ s = [arrays |-> s.arrays, memory |-> s.memory, outside |-> s.outside]
      /\ DOMAIN s = {"arrays", "memory", "outside"}
      /\ Typed(s) /\ s.outside = FALSE /\ s.arrays = [p \in DOMAIN s.arrays |-> s.arrays[p]]
  BY StoreParts
<1>4. r = IF blocks > a.physical_size THEN [Delete(copied, old) EXCEPT !.arrays[o].data = b] ELSE s
  BY <1>0 DEF reserve
<1>5. CASE ~ (blocks > a.physical_size)
  <2>1. r = s
    BY <1>4, <1>5
  <2>2. a.physical_size >= n
    BY <1>1, <1>2, <1>5
  <2>3. Others(s, s, o) /\ Widens(s, s, o)
    BY <1>1 DEF Others, Widens
  <2> HIDE DEF blocks
  <2>4. \E c : DOMAIN s.memory \subseteq DOMAIN s.memory \cup {c}
    OBVIOUS
  <2> QED BY ONLY <1>0, <2>1, <2>2, <2>3, <2>4, Good(s) DEF Reserves
<1>6. CASE blocks > a.physical_size
  <2>1. Free(s) >= 1
    <3>1. CASE n <= a.physical_size
      <4> DEFINE p == a.physical_size
      <4>1. p \in Nat /\ p % BlockSize = 0 /\ n <= p
        BY <1>1, <3>1
      <4> HIDE DEF p
      <4>2. blocks <= p
        BY ONLY <4>1, n \in Nat, EnoughBlocks
      <4> HIDE DEF blocks
      <4> QED BY <1>1, <1>2, <1>6, <4>1, <4>2 DEF p
    <3> QED BY <3>1
  <2>2. b \in Buffers /\ b \notin DOMAIN s.memory /\ b # Null /\ old # b
    BY <1>1, <2>1, FreshIs
  <2> DEFINE a1 == [data |-> a.data, size |-> a.size, physical_size |-> blocks]
             A == [s.arrays EXCEPT ![o] = a1]
             F == [i \in 0 .. blocks - 1 |-> IF i \in 0 .. a.size - 1 THEN Load(s, old, i) ELSE Junk]
             M == [c \in DOMAIN s.memory \cup {b} |-> IF c = b THEN F ELSE s.memory[c]]
  <2> DEFINE t == [s EXCEPT !.arrays[o].physical_size = blocks]
  <2>3. t = [arrays |-> A, memory |-> s.memory, outside |-> s.outside]
    <3> DEFINE d == a.data
               z == a.size
               p == a.physical_size
               out == s.outside
               AA == s.arrays
               MM == s.memory
    <3>1. s = [arrays |-> AA, memory |-> MM, outside |-> out] /\ AA[o] = [data |-> d, size |-> z, physical_size |-> p]
      BY ONLY <1>1, <1>3
    <3>2. o \in DOMAIN AA
      OBVIOUS
    <3> HIDE DEF d, z, p, out, AA, MM, blocks
    <3>3. [s EXCEPT !.arrays[o].physical_size = blocks] =
              [arrays |-> [AA EXCEPT ![o] = [data |-> d, size |-> z, physical_size |-> blocks]],
               memory |-> MM, outside |-> out]
      BY ONLY <3>1, <3>2, PhysicalIs
    <3> QED BY ONLY <3>3 DEF d, z, p, out, AA, MM
  <2> HIDE DEF A, t, blocks, b
  <2>4. t.arrays = A /\ t.memory = s.memory /\ t.outside = FALSE /\ Typed(t)
    <3>1. t.arrays = A /\ t.memory = s.memory /\ t.outside = s.outside
      BY ONLY <2>3
    <3>2. t = [arrays |-> t.arrays, memory |-> t.memory, outside |-> t.outside]
      BY ONLY <2>3
    <3>3. Typed(t)
      BY ONLY <3>1, <3>2, <1>3 DEF Typed
    <3> QED BY ONLY <3>1, <3>3, <1>3
  <2>5. a.size <= blocks
    BY <1>1, <1>2, <1>6
  <2>6. /\ copied = [arrays |-> A, memory |-> M, outside |-> FALSE]
        /\ F \in [0 .. blocks - 1 -> All]
    <3> DEFINE z == a.size
    <3>1. z \in Nat /\ z <= blocks /\ z = Size(s, o)
      BY <1>1, <2>5 DEF Size
    <3>2. b \notin DOMAIN t.memory /\ old # b
      BY <2>2, <2>4
    <3>3. /\ Move(New(t, b, blocks), b, old, 0, Up(0, z - 1))
                = [arrays |-> t.arrays, memory |-> With(t.memory, b, FirstOf(t, old, z, blocks)), outside |-> FALSE]
          /\ FirstOf(t, old, z, blocks) \in [0 .. blocks - 1 -> All]
      <4>1. /\ Typed(t) /\ t.outside = FALSE /\ z \in Nat /\ z <= blocks /\ blocks \in Nat
            /\ b \notin DOMAIN t.memory /\ old # b
        BY <1>2, <2>4, <3>1, <3>2
      <4> HIDE DEF old, z, a, F, M, new, copied, a1
      <4>2. Move(New(t, b, blocks), b, old, 0, Up(0, z - 1))
              = [arrays |-> t.arrays, memory |-> With(t.memory, b, FirstOf(t, old, z, blocks)), outside |-> t.outside]
        BY ONLY <4>1, NewCopy
      <4>3. FirstOf(t, old, z, blocks) \in [0 .. blocks - 1 -> All]
        BY ONLY <4>1, FirstType
      <4> QED BY ONLY <4>1, <4>2, <4>3
    <3>4. F = FirstOf(t, old, z, blocks)
      BY <2>4 DEF FirstOf, Load, Inside
    <3>5. M = With(s.memory, b, F)
      BY DEF With
    <3> HIDE DEF F, M
    <3>6. copied = Move(New(t, b, blocks), b, old, 0, Up(0, z - 1))
      BY <3>1 DEF t
    <3> QED BY ONLY <2>4, <3>3, <3>4, <3>5, <3>6
  <2> HIDE DEF copied, new
  <2> DEFINE a2 == [data |-> b, size |-> a.size, physical_size |-> blocks]
             A2 == [p \in DOMAIN s.arrays \cup {o} |-> IF p = o THEN a2 ELSE s.arrays[p]]
             M2 == [c \in (DOMAIN s.memory \cup {b}) \ {old} |-> IF c = b THEN F ELSE s.memory[c]]
  <2>7. r = [arrays |-> A2, memory |-> M2, outside |-> FALSE]
    <3> DEFINE u == Delete(copied, old)
               N == [c \in DOMAIN M \ {old} |-> M[c]]
    <3>1. DOMAIN copied = {"arrays", "memory", "outside"} /\ copied.memory = M
      <4> HIDE DEF M, A
      <4> QED BY ONLY <2>6
    <3>2. u = [arrays |-> A, memory |-> N, outside |-> FALSE]
      <4>1. u = [copied EXCEPT !.memory = N]
        <5> HIDE DEF M
        <5> QED BY <3>1 DEF Delete
      <4> HIDE DEF u, N, M, A
      <4> QED BY ONLY <2>6, <4>1, MemoryIs
    <3>3. N = M2
      <4> HIDE DEF F
      <4> QED OBVIOUS
    <3> DEFINE d == a.data
               z == a.size
    <3>4. o \in DOMAIN A /\ A[o] = [data |-> d, size |-> z, physical_size |-> blocks]
      BY DEF A
    <3> DEFINE B == [A EXCEPT ![o] = [data |-> b, size |-> z, physical_size |-> blocks]]
    <3>5. [u EXCEPT !.arrays[o].data = b] = [arrays |-> B, memory |-> N, outside |-> FALSE]
      <4> DEFINE out == FALSE
      <4>1. u = [arrays |-> A, memory |-> N, outside |-> out]
        BY ONLY <3>2
      <4> HIDE DEF u, N, d, z, out
      <4>2. [u EXCEPT !.arrays[o].data = b] = [arrays |-> B, memory |-> N, outside |-> out]
        BY ONLY <4>1, <3>4, DataIs
      <4> QED BY ONLY <4>2 DEF out
    <3>6. B = A2
      BY <1>3 DEF A
    <3>7. r = [u EXCEPT !.arrays[o].data = b]
      BY <1>4, <1>6
    <3> HIDE DEF B, A2, N, M2, u
    <3> QED BY ONLY <3>3, <3>5, <3>6, <3>7
  <2>8. r = Updated(s, o, a2, F, {s.arrays[o].data} \ {a2.data})
    <3>1. a2.data = b /\ {old} \ {b} = {old}
      BY <2>2
    <3>2. Updated(s, o, a2, F, {old} \ {b}) = [arrays |-> A2, memory |-> M2, outside |-> FALSE]
      <4> HIDE DEF a2, F
      <4> QED BY ONLY <3>1 DEF Updated
    <3> HIDE DEF a2, F, A2, M2
    <3> QED BY ONLY <2>7, <3>1, <3>2
  <2>9. Fits(s, o, a2, F)
    <3>1. a2 \in Record
      BY <1>1, <1>2, <2>2 DEF Record
    <3>2. \A p \in DOMAIN s.arrays : p # o => s.arrays[p].data # b
      <4> SUFFICES ASSUME NEW p \in DOMAIN s.arrays PROVE s.arrays[p].data # b
        OBVIOUS
      <4>1. s.arrays[p].data \in DOMAIN s.memory \/ s.arrays[p].data = Null
        BY GoodParts
      <4> QED BY <2>2, <4>1
    <3>3. \A i \in 0 .. a.size - 1 : F[i] \in Items
      <4> SUFFICES ASSUME NEW i \in 0 .. a.size - 1 PROVE F[i] \in Items
        OBVIOUS
      <4>1. i \in 0 .. blocks - 1
        BY <1>1, <1>2, <2>5
      <4>2. F[i] = Load(s, old, i)
        BY <4>1
      <4>3. Get(s, o, i) \in Items
        BY ItemIs DEF Size
      <4> QED BY <4>2, <4>3 DEF Get
    <3> HIDE DEF F
    <3> QED BY <1>2, <2>2, <2>5, <2>6, <3>1, <3>2, <3>3 DEF Fits
  <2>10. Changes(s, r, o, a2, F)
    <3>1. a2.data \notin DOMAIN s.memory
      BY <2>2
    <3> HIDE DEF a2, F
    <3> QED BY ONLY <2>8, <2>9, <3>1, Good(s), ChangeIs, o \in DOMAIN s.arrays
  <2>11. \A i \in 0 .. Size(s, o) - 1 : Get(r, o, i) = Get(s, o, i)
    <3> SUFFICES ASSUME NEW i \in 0 .. a.size - 1 PROVE Get(r, o, i) = Get(s, o, i)
      BY DEF Size
    <3>1. Size(r, o) = a.size /\ Good(r) /\ o \in DOMAIN r.arrays /\ r.arrays[o].data = b /\ r.memory[b] = F
      BY <2>10 DEF Changes, Size, Others
    <3>2. Get(r, o, i) = F[i]
      <4>1. i \in 0 .. Size(r, o) - 1
        BY <3>1
      <4>2. Good(r) /\ o \in DOMAIN r.arrays
        BY <3>1
      <4>3. Get(r, o, i) = r.memory[r.arrays[o].data][i]
        BY ONLY <4>1, <4>2, GetIs
      <4> HIDE DEF F
      <4> QED BY ONLY <3>1, <4>3
    <3>3. i \in 0 .. blocks - 1
      BY <1>1, <1>2, <2>5
    <3> QED BY <3>2, <3>3 DEF Get
  <2>12. Widens(s, r, o)
    <3>1. r.arrays[o].physical_size = blocks
      BY <2>10 DEF Changes
    <3> QED BY <1>1, <1>2, <1>6, <3>1 DEF Widens
  <2> HIDE DEF F
  <2> QED BY <1>0, <1>2, <2>10, <2>11, <2>12 DEF Changes, Size, Reserves
<1> QED BY <1>5, <1>6

\* Items are written to the buffer of an object, which may change its size.
Rewritten(s, o, n, F) ==
  [arrays |-> [s.arrays EXCEPT ![o] = [data |-> s.arrays[o].data, size |-> n,
                                       physical_size |-> s.arrays[o].physical_size]],
   memory |-> [s.memory EXCEPT ![s.arrays[o].data] = F],
   outside |-> s.outside]

Rewrites(s, r, o, n, F) ==
  /\ Good(r) /\ Others(s, r, o) /\ o \in DOMAIN r.arrays /\ Widens(s, r, o)
  /\ r.arrays[o] = [data |-> s.arrays[o].data, size |-> n, physical_size |-> s.arrays[o].physical_size]
  /\ DOMAIN r.memory = DOMAIN s.memory /\ r.memory[r.arrays[o].data] = F
  /\ Size(r, o) = n /\ \A i \in 0 .. n - 1 : Get(r, o, i) = F[i]

LEMMA RewriteIs ==
  ASSUME NEW s, Good(s), NEW o \in DOMAIN s.arrays, s.arrays[o].data # Null,
         NEW n \in Nat, n <= s.arrays[o].physical_size,
         NEW F \in [0 .. s.arrays[o].physical_size - 1 -> All], \A i \in 0 .. n - 1 : F[i] \in Items
  PROVE  Rewrites(s, Rewritten(s, o, n, F), o, n, F)
<1> DEFINE b == s.arrays[o].data
           p == s.arrays[o].physical_size
           a == [data |-> b, size |-> n, physical_size |-> p]
           r == Rewritten(s, o, n, F)
<1>1. /\ b \in Buffers /\ b # Null /\ b \in DOMAIN s.memory /\ p \in Nat /\ p % BlockSize = 0
  BY GoodParts
<1>2. Fits(s, o, a, F)
  <2>1. a \in Record
    BY <1>1 DEF Record
  <2>2. \A q \in DOMAIN s.arrays : q # o => s.arrays[q].data # b
    BY <1>1 DEF Good
  <2> QED BY <1>1, <2>1, <2>2 DEF Fits
<1>3. r = Updated(s, o, a, F, {s.arrays[o].data} \ {a.data})
  <2>1. /\ s.arrays = [q \in DOMAIN s.arrays |-> s.arrays[q]] /\ s.outside = FALSE
        /\ s.memory = [c \in DOMAIN s.memory |-> s.memory[c]]
    BY StoreParts
  <2> DEFINE A == [q \in DOMAIN s.arrays \cup {o} |-> IF q = o THEN a ELSE s.arrays[q]]
             M == [c \in (DOMAIN s.memory \cup {b}) \ ({b} \ {b}) |-> IF c = b THEN F ELSE s.memory[c]]
  <2>2. A = [s.arrays EXCEPT ![o] = a]
    <3> HIDE DEF a
    <3> QED BY ONLY <2>1, o \in DOMAIN s.arrays
  <2>3. M = [s.memory EXCEPT ![b] = F]
    <3> HIDE DEF b
    <3> QED BY ONLY <1>1, <2>1
  <2>4. a.data = b
    OBVIOUS
  <2>5. Updated(s, o, a, F, {b} \ {b}) = [arrays |-> A, memory |-> M, outside |-> FALSE]
    <3> HIDE DEF a, b
    <3> QED BY ONLY <2>4 DEF Updated
  <2>6. r = [arrays |-> [s.arrays EXCEPT ![o] = a], memory |-> [s.memory EXCEPT ![b] = F], outside |-> FALSE]
    BY <2>1 DEF Rewritten
  <2> HIDE DEF A, M, a, r
  <2> QED BY ONLY <2>2, <2>3, <2>4, <2>5, <2>6
<1>4. a.data = b /\ a.size = n
  OBVIOUS
<1> HIDE DEF r, a
<1>5. Changes(s, r, o, a, F)
  BY ONLY <1>2, <1>3, <1>4, Good(s), ChangeIs, o \in DOMAIN s.arrays
<1>6. Good(r) /\ Others(s, r, o) /\ r.arrays[o] = a /\ r.memory[b] = F
  BY ONLY <1>4, <1>5 DEF Changes
<1>7. o \in DOMAIN r.arrays
  BY ONLY <1>6 DEF Others
<1>8. DOMAIN r.memory = DOMAIN s.memory
  <2>1. DOMAIN Rewritten(s, o, n, F).memory = DOMAIN s.memory
    BY DEF Rewritten
  <2> QED BY ONLY <2>1 DEF r
<1>9. Size(r, o) = n /\ r.arrays[o].data = b
  BY ONLY <1>4, <1>6 DEF Size
<1>10. \A i \in 0 .. n - 1 : Get(r, o, i) = F[i]
  <2> SUFFICES ASSUME NEW i \in 0 .. n - 1 PROVE Get(r, o, i) = F[i]
    OBVIOUS
  <2>1. Good(r) /\ o \in DOMAIN r.arrays /\ i \in 0 .. Size(r, o) - 1
    BY ONLY <1>6, <1>7, <1>9, i \in 0 .. n - 1
  <2>2. Get(r, o, i) = r.memory[r.arrays[o].data][i]
    BY ONLY <2>1, GetIs
  <2> QED BY ONLY <2>2, <1>6, <1>9
<1>11. Widens(s, r, o)
  <2>1. r.arrays[o].physical_size = p
    BY ONLY <1>6 DEF a
  <2> QED BY ONLY <1>1, <2>1 DEF Widens
<1> QED BY ONLY <1>6, <1>7, <1>8, <1>9, <1>10, <1>11 DEF Rewrites, r, a

LEMMA SizeSame ==
  ASSUME NEW s, Good(s), NEW o \in DOMAIN s.arrays
  PROVE  [s EXCEPT !.arrays[o].size = s.arrays[o].size] = s
<1> DEFINE A == s.arrays
           M == s.memory
           out == s.outside
           d == s.arrays[o].data
           z == s.arrays[o].size
           p == s.arrays[o].physical_size
<1>1. s = [arrays |-> A, memory |-> M, outside |-> out] /\ A = [q \in DOMAIN A |-> A[q]] /\ o \in DOMAIN A
  BY StoreParts
<1>2. A[o] = [data |-> d, size |-> z, physical_size |-> p]
  BY GoodParts
<1> HIDE DEF A, M, out, d, z, p
<1>3. [s EXCEPT !.arrays[o].size = z]
        = [arrays |-> [A EXCEPT ![o] = [data |-> d, size |-> z, physical_size |-> p]],
           memory |-> M, outside |-> out]
  BY ONLY <1>1, <1>2, SizeIs
<1>4. [A EXCEPT ![o] = A[o]] = A
  BY ONLY <1>1
<1>5. [s EXCEPT !.arrays[o].size = z] = s
  BY ONLY <1>1, <1>2, <1>3, <1>4
<1> QED BY ONLY <1>5 DEF z

LEMMA SetAndSize ==
  ASSUME NEW s, Good(s), NEW o \in DOMAIN s.arrays, NEW n, NEW F
  PROVE  [Set(s, s.arrays[o].data, F) EXCEPT !.arrays[o].size = n] = Rewritten(s, o, n, F)
<1> DEFINE A == s.arrays
           out == s.outside
           d == s.arrays[o].data
           z == s.arrays[o].size
           p == s.arrays[o].physical_size
           M == [s.memory EXCEPT ![d] = F]
           t == Set(s, d, F)
<1>1. Typed(s) /\ o \in DOMAIN A
  BY StoreParts
<1>2. A[o] = [data |-> d, size |-> z, physical_size |-> p]
  BY GoodParts
<1>3. t = [arrays |-> A, memory |-> M, outside |-> out]
  BY <1>1, SetRecord
<1> HIDE DEF A, M, out, d, z, p, t
<1>4. [t EXCEPT !.arrays[o].size = n]
        = [arrays |-> [A EXCEPT ![o] = [data |-> d, size |-> n, physical_size |-> p]],
           memory |-> M, outside |-> out]
  BY ONLY <1>1, <1>2, <1>3, SizeIs
<1> QED BY ONLY <1>4 DEF A, M, out, d, p, t, Rewritten

LEMMA SetOnly ==
  ASSUME NEW s, Good(s), NEW o \in DOMAIN s.arrays, NEW F
  PROVE  Set(s, s.arrays[o].data, F) = Rewritten(s, o, s.arrays[o].size, F)
<1> DEFINE A == s.arrays
           d == s.arrays[o].data
           z == s.arrays[o].size
           p == s.arrays[o].physical_size
           M == [s.memory EXCEPT ![d] = F]
<1>1. Typed(s) /\ o \in DOMAIN A /\ A = [q \in DOMAIN A |-> A[q]]
  BY StoreParts
<1>2. A[o] = [data |-> d, size |-> z, physical_size |-> p]
  BY GoodParts
<1>3. Set(s, d, F) = [arrays |-> A, memory |-> M, outside |-> s.outside]
  BY <1>1, SetRecord
<1> HIDE DEF A, M, d, z, p
<1>4. [A EXCEPT ![o] = [data |-> d, size |-> z, physical_size |-> p]] = A
  BY ONLY <1>1, <1>2
<1> QED BY ONLY <1>3, <1>4 DEF A, M, d, z, p, Rewritten

-----------------------------------------------------------------------------
(* The sequence an array stands for, after a call.                         *)

LEMMA ValIs ==
  ASSUME NEW s, Good(s), NEW o \in DOMAIN s.arrays
  PROVE  Val(s, o) \in Seq(Items)
<1>1. Size(s, o) \in Nat
  BY SizeType
<1>2. \A k \in 1 .. Size(s, o) : Get(s, o, k - 1) \in Items
  <2> SUFFICES ASSUME NEW k \in 1 .. Size(s, o) PROVE Get(s, o, k - 1) \in Items
    OBVIOUS
  <2>1. k - 1 \in 0 .. Size(s, o) - 1
    BY <1>1
  <2> QED BY <2>1, ItemIs
<1> QED BY ONLY <1>1, <1>2 DEF Val

LEMMA ValLen ==
  ASSUME NEW s, Good(s), NEW o \in DOMAIN s.arrays
  PROVE  Len(Val(s, o)) = Size(s, o)
<1>1. Size(s, o) \in Nat
  BY SizeType
<1>2. Val(s, o) \in Seq(Items)
  BY ValIs
<1>3. DOMAIN Val(s, o) = 1 .. Size(s, o)
  BY DEF Val
<1> QED BY ONLY <1>1, <1>2, <1>3

Becomes(s, r, o, v) ==
  /\ Good(r) /\ Others(s, r, o) /\ o \in DOMAIN r.arrays /\ Val(r, o) = v /\ Widens(s, r, o)
  /\ \E b : DOMAIN r.memory \subseteq DOMAIN s.memory \cup {b}

\* What an array is after its buffer was written to.
LEMMA Written ==
  ASSUME NEW s, NEW r, NEW o, NEW n \in Nat, NEW F, Rewrites(s, r, o, n, F)
  PROVE  Becomes(s, r, o, [k \in 1 .. n |-> F[k - 1]])
<1>1. /\ Good(r) /\ Others(s, r, o) /\ o \in DOMAIN r.arrays /\ DOMAIN r.memory = DOMAIN s.memory
      /\ Widens(s, r, o)
  BY DEF Rewrites
<1>2. \E b : DOMAIN r.memory \subseteq DOMAIN s.memory \cup {b}
  BY ONLY <1>1
<1>3. Size(r, o) = n /\ \A i \in 0 .. n - 1 : Get(r, o, i) = F[i]
  BY DEF Rewrites
<1>4. Val(r, o) = [k \in 1 .. n |-> F[k - 1]]
  BY ONLY <1>3, n \in Nat DEF Val
<1> QED BY ONLY <1>1, <1>2, <1>4 DEF Becomes

LEMMA OthersTwice ==
  ASSUME NEW s, NEW t, NEW r, NEW o, Others(s, t, o), Others(t, r, o)
  PROVE  Others(s, r, o)
<1>1. DOMAIN t.arrays = DOMAIN s.arrays \cup {o} /\ DOMAIN r.arrays = DOMAIN t.arrays \cup {o}
  BY DEF Others
<1>2. Lost(t) = Lost(s) /\ Lost(r) = Lost(t)
  BY DEF Others
<1>3. ASSUME NEW p \in DOMAIN s.arrays \ {o}
      PROVE  /\ r.arrays[p] = s.arrays[p]
             /\ s.arrays[p].data # Null => r.memory[s.arrays[p].data] = s.memory[s.arrays[p].data]
  <2>1. /\ t.arrays[p] = s.arrays[p]
        /\ s.arrays[p].data # Null => t.memory[s.arrays[p].data] = s.memory[s.arrays[p].data]
    BY DEF Others
  <2>2. p \in DOMAIN t.arrays \ {o}
    BY <1>1
  <2>3. /\ r.arrays[p] = t.arrays[p]
        /\ t.arrays[p].data # Null => r.memory[t.arrays[p].data] = t.memory[t.arrays[p].data]
    BY ONLY <2>2, Others(t, r, o) DEF Others
  <2> QED BY ONLY <2>1, <2>3
<1>4. DOMAIN r.arrays = DOMAIN s.arrays \cup {o}
  BY ONLY <1>1
<1> QED BY ONLY <1>2, <1>3, <1>4 DEF Others

LEMMA WidensTwice ==
  ASSUME NEW s, NEW t, NEW r, NEW o, Widens(s, t, o), Widens(t, r, o)
  PROVE  Widens(s, r, o)
BY DEF Widens

LEMMA BecomesThenWritten ==
  ASSUME NEW s, NEW t, NEW r, NEW o, NEW v, Becomes(s, t, o, v), NEW n \in Nat, NEW F, Rewrites(t, r, o, n, F)
  PROVE  Becomes(s, r, o, [k \in 1 .. n |-> F[k - 1]])
<1>1. Becomes(t, r, o, [k \in 1 .. n |-> F[k - 1]])
  BY Written
<1>2. DOMAIN r.memory = DOMAIN t.memory /\ Others(t, r, o) /\ Widens(t, r, o)
  BY DEF Rewrites
<1>3. Others(s, t, o) /\ Widens(s, t, o) /\ \E b : DOMAIN t.memory \subseteq DOMAIN s.memory \cup {b}
  BY DEF Becomes
<1>4. Others(s, r, o) /\ Widens(s, r, o)
  BY ONLY <1>2, <1>3, OthersTwice, WidensTwice
<1>5. \E b : DOMAIN r.memory \subseteq DOMAIN s.memory \cup {b}
  BY ONLY <1>2, <1>3
<1> QED BY ONLY <1>1, <1>4, <1>5 DEF Becomes

LEMMA WrittenThenBecomes ==
  ASSUME NEW s, NEW t, NEW r, NEW o, NEW v, NEW n, NEW F, Rewrites(s, t, o, n, F), Becomes(t, r, o, v)
  PROVE  Becomes(s, r, o, v)
<1>1. DOMAIN t.memory = DOMAIN s.memory /\ Others(s, t, o) /\ Widens(s, t, o)
  BY DEF Rewrites
<1>2. Others(t, r, o) /\ Widens(t, r, o) /\ \E b : DOMAIN r.memory \subseteq DOMAIN t.memory \cup {b}
  BY DEF Becomes
<1>3. Others(s, r, o) /\ Widens(s, r, o)
  BY ONLY <1>1, <1>2, OthersTwice, WidensTwice
<1>4. \E b : DOMAIN r.memory \subseteq DOMAIN s.memory \cup {b}
  BY ONLY <1>1, <1>2
<1> QED BY ONLY <1>3, <1>4, Becomes(t, r, o, v) DEF Becomes

-----------------------------------------------------------------------------
Resized(v, n) == [k \in 1 .. n |-> IF k <= Len(v) THEN v[k] ELSE Default]

LEMMA Resize ==
  ASSUME NEW s, Good(s), NEW o \in DOMAIN s.arrays, NEW n \in Nat,
         Free(s) >= 1 \/ n <= s.arrays[o].physical_size
  PROVE  Becomes(s, resize(s, o, n), o, Resized(Val(s, o), n))
<1> DEFINE room == reserve(s, o, n)
           z == Size(s, o)
           d == room.arrays[o].data
           p == room.arrays[o].physical_size
           ind == Up(z, n - 1)
           filled == Fill(room, d, Default, ind)
           r == resize(s, o, n)
           v == Resized(Val(s, o), n)
<1>1. Reserves(s, room, o, n)
  BY ONLY Good(s), o \in DOMAIN s.arrays, n \in Nat, Free(s) >= 1 \/ n <= s.arrays[o].physical_size, Reserve
<1> HIDE DEF room
<1>2. /\ Good(room) /\ Others(s, room, o) /\ Size(room, o) = z /\ p >= n /\ Widens(s, room, o)
      /\ \A i \in 0 .. z - 1 : Get(room, o, i) = Get(s, o, i)
      /\ \E b : DOMAIN room.memory \subseteq DOMAIN s.memory \cup {b}
  BY ONLY <1>1 DEF Reserves
<1>3. o \in DOMAIN room.arrays /\ z \in Nat
  BY <1>2, SizeType DEF Others
<1>4. r = [filled EXCEPT !.arrays[o].size = n]
  BY DEF resize, room
<1>5. /\ ind \in Seq(Int) /\ {ind[k] : k \in DOMAIN ind} = z .. n - 1
      /\ z > n - 1 => ind = <<>>
  <2>1. z \in Int /\ n - 1 \in Int
    BY <1>3
  <2> HIDE DEF z
  <2> QED BY ONLY <2>1, UpIs
<1>6. /\ p \in Nat /\ z <= p /\ room.arrays[o].size = z
      /\ d # Null => d \in DOMAIN room.memory /\ room.memory[d] \in [0 .. p - 1 -> All]
      /\ d = Null => p = 0
  <2>1. Good(room) /\ o \in DOMAIN room.arrays
    BY <1>2, <1>3
  <2>2. Size(room, o) = z
    BY <1>2
  <2> HIDE DEF z
  <2> QED BY ONLY <2>1, <2>2, GoodParts DEF Size
<1>7. Len(Val(s, o)) = z /\ \A k \in 1 .. z : Val(s, o)[k] = Get(s, o, k - 1)
  BY ValLen DEF Val
<1>8. Val(room, o) = Val(s, o)
  BY <1>2, <1>3 DEF Val
<1>9. CASE d # Null
  <2> DEFINE F == FillMap(room, d, Default, ind)
  <2>1. d \in DOMAIN room.memory /\ DOMAIN room.memory[d] = 0 .. p - 1 /\ Typed(room)
    BY <1>2, <1>6, <1>9 DEF Good
  <2>2. \A k \in DOMAIN ind : ind[k] \in DOMAIN room.memory[d]
    <3> SUFFICES ASSUME NEW k \in DOMAIN ind PROVE ind[k] \in 0 .. p - 1
      BY <2>1
    <3>1. ind[k] \in z .. n - 1
      BY <1>5
    <3> HIDE DEF ind
    <3> QED BY <1>2, <1>3, <1>6, <3>1
  <2> HIDE DEF d, ind
  <2>3. filled = Set(room, d, F)
    BY ONLY <1>5, <2>1, <2>2, FillIs
  <2>4. F = [i \in 0 .. p - 1 |-> IF i \in z .. n - 1 THEN Default ELSE room.memory[d][i]]
    BY ONLY <1>5, <2>1 DEF FillMap
  <2>5. r = Rewritten(room, o, n, F)
    <3> HIDE DEF F, filled, r
    <3> QED BY ONLY <1>2, <1>3, <1>4, <2>3, SetAndSize DEF d
  <2>6. F \in [0 .. p - 1 -> All]
    <3>1. Default \in All /\ room.memory[d] \in [0 .. p - 1 -> All]
      BY <1>6, <1>9, ContainersAssumption DEF All
    <3> HIDE DEF F
    <3> QED BY ONLY <2>4, <3>1
  <2>7. \A i \in 0 .. n - 1 : F[i] = IF i < z THEN Get(s, o, i) ELSE Default
    <3> SUFFICES ASSUME NEW i \in 0 .. n - 1 PROVE F[i] = IF i < z THEN Get(s, o, i) ELSE Default
      OBVIOUS
    <3>1. i \in 0 .. p - 1
      BY <1>2, <1>6
    <3>2. CASE i < z
      <4>1. i \in 0 .. z - 1 /\ i \notin z .. n - 1
        BY <1>3, <3>2
      <4>2. F[i] = room.memory[d][i]
        BY <2>4, <3>1, <4>1
      <4>3. i \in 0 .. Size(room, o) - 1 /\ Good(room) /\ o \in DOMAIN room.arrays
        BY <1>2, <1>3, <4>1
      <4>4. Get(room, o, i) = room.memory[room.arrays[o].data][i]
        BY ONLY <4>3, GetIs
      <4>5. Get(room, o, i) = room.memory[d][i]
        BY ONLY <4>4 DEF d
      <4> QED BY <1>2, <3>2, <4>1, <4>2, <4>5
    <3>3. CASE ~ (i < z)
      BY <1>3, <2>4, <3>1, <3>3
    <3> QED BY <3>2, <3>3
  <2>8. \A i \in 0 .. n - 1 : F[i] \in Items
    <3> SUFFICES ASSUME NEW i \in 0 .. n - 1 PROVE F[i] \in Items
      OBVIOUS
    <3>1. i < z => Get(s, o, i) \in Items
      BY <1>3, ItemIs
    <3> HIDE DEF F
    <3> QED BY <2>7, <3>1, ContainersAssumption
  <2> HIDE DEF F, r
  <2>9. Rewrites(room, r, o, n, F)
    <3>1. /\ Good(room) /\ o \in DOMAIN room.arrays /\ room.arrays[o].data # Null
          /\ n <= room.arrays[o].physical_size
          /\ F \in [0 .. room.arrays[o].physical_size - 1 -> All]
      BY <1>2, <1>3, <1>6, <1>9, <2>6 DEF d
    <3> QED BY ONLY <2>5, <2>8, <3>1, n \in Nat, RewriteIs
  <2>10. Becomes(s, room, o, Val(s, o))
    BY ONLY <1>2, <1>3, <1>8 DEF Becomes
  <2>11. Becomes(s, r, o, [k \in 1 .. n |-> F[k - 1]])
    BY ONLY <2>9, <2>10, n \in Nat, BecomesThenWritten
  <2>12. [k \in 1 .. n |-> F[k - 1]] = Resized(Val(s, o), n)
    <3> SUFFICES ASSUME NEW k \in 1 .. n
                 PROVE  F[k - 1] = IF k <= Len(Val(s, o)) THEN Val(s, o)[k] ELSE Default
      BY DEF Resized
    <3>1. k - 1 \in 0 .. n - 1
      OBVIOUS
    <3>2. F[k - 1] = IF k - 1 < z THEN Get(s, o, k - 1) ELSE Default
      BY <2>7, <3>1
    <3> QED BY <1>3, <1>7, <3>2
  <2> QED BY ONLY <2>11, <2>12 DEF r
<1>10. CASE d = Null
  <2>1. n = 0 /\ z = 0 /\ p = 0
    BY <1>2, <1>3, <1>6, <1>10
  <2>2. filled = room
    <3>1. ind = <<>>
      BY <1>5, <2>1
    <3> QED BY <3>1, FoldNothing
  <2>3. r = room
    <3> HIDE DEF filled, r
    <3> QED BY ONLY <1>2, <1>3, <1>4, <1>6, <2>1, <2>2, SizeSame
  <2>4. Val(s, o) = Resized(Val(s, o), n)
    BY <1>7, <2>1 DEF Val, Resized
  <2> HIDE DEF r
  <2>5. Becomes(s, room, o, Val(s, o))
    BY ONLY <1>2, <1>3, <1>8 DEF Becomes
  <2> QED BY ONLY <2>3, <2>4, <2>5 DEF r
<1> QED BY <1>9, <1>10

\* An array becomes v, and no buffer comes or goes.
Turns(s, r, o, v) ==
  /\ Good(r) /\ Others(s, r, o) /\ o \in DOMAIN r.arrays /\ Val(r, o) = v /\ Widens(s, r, o)
  /\ DOMAIN r.memory = DOMAIN s.memory /\ r.arrays[o].data = s.arrays[o].data

LEMMA TurnsFromWritten ==
  ASSUME NEW s, NEW r, NEW o, NEW n \in Nat, NEW F, Rewrites(s, r, o, n, F)
  PROVE  Turns(s, r, o, [k \in 1 .. n |-> F[k - 1]])
<1>1. Becomes(s, r, o, [k \in 1 .. n |-> F[k - 1]])
  BY Written
<1>2. DOMAIN r.memory = DOMAIN s.memory
  BY DEF Rewrites
<1>3. r.arrays[o].data = s.arrays[o].data
  BY DEF Rewrites
<1> QED BY ONLY <1>1, <1>2, <1>3 DEF Becomes, Turns

LEMMA StaysAsItIs ==
  ASSUME NEW s, Good(s), NEW o \in DOMAIN s.arrays
  PROVE  Turns(s, s, o, Val(s, o))
<1>1. s.arrays[o].physical_size \in Nat
  BY GoodParts
<1>2. Others(s, s, o) /\ Widens(s, s, o)
  BY <1>1 DEF Others, Widens
<1> QED BY <1>2 DEF Turns

LEMMA BecomesThenTurns ==
  ASSUME NEW s, NEW t, NEW r, NEW o, NEW v, NEW w, Becomes(s, t, o, v), Turns(t, r, o, w)
  PROVE  Becomes(s, r, o, w)
<1>1. /\ Good(r) /\ Others(t, r, o) /\ o \in DOMAIN r.arrays /\ Val(r, o) = w
      /\ DOMAIN r.memory = DOMAIN t.memory /\ Widens(t, r, o)
  BY DEF Turns
<1>2. Others(s, t, o) /\ Widens(s, t, o) /\ \E b : DOMAIN t.memory \subseteq DOMAIN s.memory \cup {b}
  BY DEF Becomes
<1>3. Others(s, r, o) /\ Widens(s, r, o)
  BY ONLY <1>1, <1>2, OthersTwice, WidensTwice
<1>4. \E b : DOMAIN r.memory \subseteq DOMAIN s.memory \cup {b}
  BY ONLY <1>1, <1>2
<1> QED BY ONLY <1>1, <1>3, <1>4 DEF Becomes

LEMMA TurnsThenBecomes ==
  ASSUME NEW s, NEW t, NEW r, NEW o, NEW v, NEW w, Turns(s, t, o, v), Becomes(t, r, o, w)
  PROVE  Becomes(s, r, o, w)
<1>1. Others(s, t, o) /\ Widens(s, t, o) /\ DOMAIN t.memory = DOMAIN s.memory
  BY DEF Turns
<1>2. Others(t, r, o) /\ Widens(t, r, o) /\ \E b : DOMAIN r.memory \subseteq DOMAIN t.memory \cup {b}
  BY DEF Becomes
<1>3. Others(s, r, o) /\ Widens(s, r, o)
  BY ONLY <1>1, <1>2, OthersTwice, WidensTwice
<1>4. \E b : DOMAIN r.memory \subseteq DOMAIN s.memory \cup {b}
  BY ONLY <1>1, <1>2
<1> QED BY ONLY <1>3, <1>4, Becomes(t, r, o, w) DEF Becomes

-----------------------------------------------------------------------------
(* The items lo .. hi are moved by a loop, from the same array or another. *)

Shifted(v, w, lo, hi, shift) == [k \in 1 .. Len(v) |-> IF k - 1 \in lo .. hi THEN w[k + shift] ELSE v[k]]

Movable(s, o, q, lo, hi, shift, ind) ==
  /\ {ind[k] : k \in DOMAIN ind} = lo .. hi
  /\ lo > hi => ind = <<>>
  /\ \A i \in lo .. hi : i \in 0 .. Size(s, o) - 1 /\ i + shift \in 0 .. Size(s, q) - 1
  /\ o = q => \A j, k \in DOMAIN ind : j < k => ind[k] + shift # ind[j]

LEMMA Shift ==
  ASSUME NEW s, Good(s), NEW o \in DOMAIN s.arrays, NEW q \in DOMAIN s.arrays,
         NEW shift \in Int, NEW lo \in Int, NEW hi \in Int, NEW ind \in Seq(Int),
         Movable(s, o, q, lo, hi, shift, ind)
  PROVE  Turns(s, Move(s, s.arrays[o].data, s.arrays[q].data, shift, ind), o,
               Shifted(Val(s, o), Val(s, q), lo, hi, shift))
<1> DEFINE d == s.arrays[o].data
           e == s.arrays[q].data
           n == Size(s, o)
           p == s.arrays[o].physical_size
           r == Move(s, d, e, shift, ind)
           v == Shifted(Val(s, o), Val(s, q), lo, hi, shift)
<1>1. /\ {ind[k] : k \in DOMAIN ind} = lo .. hi
      /\ lo > hi => ind = <<>>
      /\ \A i \in lo .. hi : i \in 0 .. n - 1 /\ i + shift \in 0 .. Size(s, q) - 1
      /\ o = q => \A j, k \in DOMAIN ind : j < k => ind[k] + shift # ind[j]
  BY DEF Movable
<1>2. /\ n \in Nat /\ p \in Nat /\ n <= p /\ Typed(s) /\ n = s.arrays[o].size
      /\ d = Null => p = 0
      /\ d # Null => d \in DOMAIN s.memory /\ s.memory[d] \in [0 .. p - 1 -> All]
  BY GoodParts DEF Size, Good
<1>3. /\ Len(Val(s, o)) = n /\ \A k \in 1 .. n : Val(s, o)[k] = Get(s, o, k - 1)
  BY ValLen DEF Val
<1>4. \A k \in 1 .. Size(s, q) : Val(s, q)[k] = Get(s, q, k - 1)
  BY DEF Val
<1>5. Size(s, q) \in Nat
  BY SizeType
<1>6. CASE d = Null
  <2>1. n = 0
    BY <1>2, <1>6
  <2>2. lo > hi
    <3> SUFFICES ASSUME ~ (lo > hi) PROVE FALSE
      OBVIOUS
    <3>1. lo \in lo .. hi
      OBVIOUS
    <3>2. lo \in 0 .. n - 1
      BY <1>1, <3>1
    <3> QED BY <2>1, <3>2
  <2>3. r = s
    BY <1>1, <2>2, FoldNothing
  <2>4. v = Val(s, o)
    BY <1>3, <2>1 DEF Shifted, Val
  <2>5. Turns(s, s, o, Val(s, o))
    BY StaysAsItIs
  <2> HIDE DEF r, v
  <2> QED BY ONLY <2>3, <2>4, <2>5 DEF r, v
<1>7. CASE d # Null
  <2> DEFINE F == MoveMap(s, d, e, shift, ind)
  <2>1. d \in DOMAIN s.memory /\ DOMAIN s.memory[d] = 0 .. p - 1
    BY <1>2, <1>7
  <2>2. \A k \in DOMAIN ind : ind[k] \in DOMAIN s.memory[d]
    <3> SUFFICES ASSUME NEW k \in DOMAIN ind PROVE ind[k] \in 0 .. p - 1
      BY <2>1
    <3>1. ind[k] \in lo .. hi
      BY <1>1
    <3>2. ind[k] \in 0 .. n - 1
      BY <1>1, <3>1
    <3> QED BY <1>2, <3>2
  <2>3. \A j, k \in DOMAIN ind : e = d /\ j < k => ind[k] + shift # ind[j]
    <3>1. e = d => o = q
      BY <1>7 DEF Good
    <3> HIDE DEF d, e
    <3> QED BY ONLY <1>1, <3>1
  <2>4. r = Set(s, d, F)
    <3> HIDE DEF d, e
    <3> QED BY ONLY <1>2, <2>1, <2>2, <2>3, shift \in Int, ind \in Seq(Int), MoveIs
  <2>5. F = [i \in 0 .. p - 1 |-> IF i \in lo .. hi THEN Load(s, e, i + shift) ELSE s.memory[d][i]]
    BY ONLY <1>1, <2>1 DEF MoveMap
  <2>6. r = Rewritten(s, o, n, F)
    <3> HIDE DEF F, r
    <3> QED BY ONLY <1>2, <2>4, Good(s), o \in DOMAIN s.arrays, SetOnly DEF d
  <2>7. F \in [0 .. p - 1 -> All]
    <3>1. \A i \in 0 .. p - 1 : Load(s, e, i + shift) \in All
      <4> HIDE DEF e
      <4> QED BY ONLY <1>2, LoadType
    <3>2. s.memory[d] \in [0 .. p - 1 -> All]
      BY <1>2, <1>7
    <3> HIDE DEF F, d, e
    <3> QED BY ONLY <2>5, <3>1, <3>2
  <2>8. \A i \in 0 .. n - 1 : F[i] = IF i \in lo .. hi THEN Get(s, q, i + shift) ELSE Get(s, o, i)
    <3> SUFFICES ASSUME NEW i \in 0 .. n - 1
                 PROVE  F[i] = IF i \in lo .. hi THEN Get(s, q, i + shift) ELSE Get(s, o, i)
      OBVIOUS
    <3>1. i \in 0 .. p - 1
      BY <1>2
    <3>2. Get(s, o, i) = s.memory[s.arrays[o].data][i]
      BY ONLY Good(s), o \in DOMAIN s.arrays, i \in 0 .. n - 1, GetIs
    <3>3. Get(s, q, i + shift) = Load(s, e, i + shift)
      BY DEF Get
    <3> HIDE DEF F
    <3> QED BY <2>5, <3>1, <3>2, <3>3
  <2>9. \A i \in 0 .. n - 1 : F[i] \in Items
    <3> SUFFICES ASSUME NEW i \in 0 .. n - 1 PROVE F[i] \in Items
      OBVIOUS
    <3>1. Get(s, o, i) \in Items
      BY ItemIs
    <3>2. i \in lo .. hi => Get(s, q, i + shift) \in Items
      BY <1>1, ItemIs
    <3> HIDE DEF F
    <3> QED BY ONLY <2>8, <3>1, <3>2, i \in 0 .. n - 1
  <2> HIDE DEF F, r
  <2>10. Rewrites(s, r, o, n, F)
    <3> HIDE DEF n
    <3> QED BY ONLY <1>2, <1>7, <2>6, <2>7, <2>9, Good(s), o \in DOMAIN s.arrays, RewriteIs
  <2>11. Turns(s, r, o, [k \in 1 .. n |-> F[k - 1]])
    <3>1. n \in Nat
      BY <1>2
    <3> HIDE DEF n
    <3> QED BY ONLY <3>1, <2>10, TurnsFromWritten
  <2>12. [k \in 1 .. n |-> F[k - 1]] = v
    <3> SUFFICES ASSUME NEW k \in 1 .. n
                 PROVE  F[k - 1] = IF k - 1 \in lo .. hi THEN Val(s, q)[k + shift] ELSE Val(s, o)[k]
      BY <1>3 DEF Shifted
    <3>1. k - 1 \in 0 .. n - 1
      BY <1>2
    <3>2. F[k - 1] = IF k - 1 \in lo .. hi THEN Get(s, q, (k - 1) + shift) ELSE Get(s, o, k - 1)
      BY ONLY <2>8, <3>1
    <3>3. k - 1 \in lo .. hi => Val(s, q)[k + shift] = Get(s, q, (k - 1) + shift)
      <4> SUFFICES ASSUME k - 1 \in lo .. hi PROVE Val(s, q)[k + shift] = Get(s, q, (k - 1) + shift)
        OBVIOUS
      <4>1. (k - 1) + shift \in 0 .. Size(s, q) - 1
        BY <1>1
      <4>2. k + shift \in 1 .. Size(s, q) /\ (k + shift) - 1 = (k - 1) + shift
        BY ONLY <4>1, <1>5, k \in 1 .. n, <1>2, shift \in Int
      <4> QED BY <1>4, <4>2
    <3> QED BY ONLY <1>3, <3>2, <3>3, k \in 1 .. n
  <2> QED BY ONLY <2>11, <2>12 DEF r, v
<1> QED BY <1>6, <1>7

\* One item is written inside the buffer: over another one, or after the last.
Replaced(v, i, item) == [k \in 1 .. Len(v) |-> IF k = i + 1 THEN item ELSE v[k]]

LEMMA PutTurns ==
  ASSUME NEW s, Good(s), NEW o \in DOMAIN s.arrays, NEW i \in 0 .. s.arrays[o].physical_size - 1,
         NEW item \in All, i < Size(s, o) => item \in Items
  PROVE  Turns(s, Put(s, o, i, item), o, Replaced(Val(s, o), i, item))
<1> DEFINE d == s.arrays[o].data
           n == Size(s, o)
           p == s.arrays[o].physical_size
           r == Put(s, o, i, item)
           f == s.memory[d]
           F == [f EXCEPT ![i] = item]
<1>1. /\ n \in Nat /\ p \in Nat /\ n <= p /\ Typed(s) /\ n = s.arrays[o].size
      /\ d = Null => p = 0
      /\ d # Null => d \in DOMAIN s.memory /\ s.memory[d] \in [0 .. p - 1 -> All]
  BY GoodParts DEF Size, Good
<1>2. d # Null
  BY <1>1
<1>3. d \in DOMAIN s.memory /\ f \in [0 .. p - 1 -> All] /\ i \in DOMAIN f
  BY <1>1, <1>2
<1>4. r = Set(s, d, F)
  <2>1. r = Store(s, d, i, item)
    BY DEF Put
  <2>2. Set(s, d, f) = s
    BY <1>1, <1>3, SetSame
  <2>3. Typed(s) /\ d \in DOMAIN s.memory /\ i \in DOMAIN f
    BY <1>1, <1>3
  <2> HIDE DEF d, f, r
  <2>4. Store(Set(s, d, f), d, i, item) = Set(s, d, [f EXCEPT ![i] = item])
    BY ONLY <2>3, StoreIs
  <2> QED BY ONLY <2>1, <2>2, <2>4
<1>5. r = Rewritten(s, o, n, F)
  <2> HIDE DEF F, r
  <2> QED BY ONLY <1>1, <1>4, Good(s), o \in DOMAIN s.arrays, SetOnly DEF d
<1>6. F \in [0 .. p - 1 -> All]
  BY <1>3
<1>7. \A j \in 0 .. n - 1 : F[j] = IF j = i THEN item ELSE Get(s, o, j)
  <2> SUFFICES ASSUME NEW j \in 0 .. n - 1
               PROVE  F[j] = IF j = i THEN item ELSE Get(s, o, j)
    OBVIOUS
  <2>1. j \in DOMAIN f
    BY <1>1, <1>3
  <2>2. Get(s, o, j) = s.memory[s.arrays[o].data][j]
    BY ONLY Good(s), o \in DOMAIN s.arrays, j \in 0 .. n - 1, GetIs
  <2> QED BY <2>1, <2>2
<1>8. \A j \in 0 .. n - 1 : F[j] \in Items
  <2> SUFFICES ASSUME NEW j \in 0 .. n - 1 PROVE F[j] \in Items
    OBVIOUS
  <2>1. Get(s, o, j) \in Items
    BY ItemIs
  <2>2. j = i => i < n
    BY <1>1
  <2> HIDE DEF F
  <2> QED BY <1>7, <2>1, <2>2
<1> HIDE DEF F, r
<1>9. Rewrites(s, r, o, n, F)
  <2> HIDE DEF n
  <2> QED BY ONLY <1>1, <1>2, <1>5, <1>6, <1>8, Good(s), o \in DOMAIN s.arrays, RewriteIs
<1>10. Turns(s, r, o, [k \in 1 .. n |-> F[k - 1]])
  <2>1. n \in Nat
    BY <1>1
  <2> HIDE DEF n
  <2> QED BY ONLY <2>1, <1>9, TurnsFromWritten
<1>11. [k \in 1 .. n |-> F[k - 1]] = Replaced(Val(s, o), i, item)
  <2>1. Len(Val(s, o)) = n /\ \A k \in 1 .. n : Val(s, o)[k] = Get(s, o, k - 1)
    BY ValLen DEF Val
  <2> SUFFICES ASSUME NEW k \in 1 .. n
               PROVE  F[k - 1] = IF k = i + 1 THEN item ELSE Val(s, o)[k]
    BY <2>1 DEF Replaced
  <2>2. k - 1 \in 0 .. n - 1 /\ (k = i + 1 <=> k - 1 = i)
    BY <1>1
  <2> QED BY <1>7, <2>1, <2>2
<1> QED BY ONLY <1>10, <1>11 DEF r

-----------------------------------------------------------------------------
(* erase.                                                                  *)

Erased(v, start, end) == SubSeq(v, 1, start) \o SubSeq(v, end + 1, Len(v))

Cut(v, start, end) ==
  [k \in 1 .. Len(v) - (end - start) |-> IF k <= start THEN v[k] ELSE v[k + (end - start)]]

LEMMA ErasedIs ==
  ASSUME NEW S, NEW v \in Seq(S), NEW start \in 0 .. Len(v), NEW end \in start .. Len(v)
  PROVE  Erased(v, start, end) = Cut(v, start, end)
<1> DEFINE x == SubSeq(v, 1, start)
           y == SubSeq(v, end + 1, Len(v))
<1>0. Len(v) \in Nat /\ start \in Nat /\ end \in Nat /\ start <= end /\ end <= Len(v)
  OBVIOUS
<1>1. x \in Seq(S) /\ Len(x) = start /\ \A k \in 1 .. start : x[k] = v[k]
  <2>1. 1 \in 1 .. Len(v) + 1 /\ start \in 1 - 1 .. Len(v)
    BY <1>0
  <2>2. /\ SubSeq(v, 1, start) \in Seq(S) /\ Len(SubSeq(v, 1, start)) = start - 1 + 1
        /\ \A k \in 1 .. start - 1 + 1 : SubSeq(v, 1, start)[k] = v[1 + k - 1]
    BY ONLY <2>1, v \in Seq(S), SubSeqProperties
  <2> QED BY <1>0, <2>2
<1>2. y \in Seq(S) /\ Len(y) = Len(v) - end /\ \A k \in 1 .. Len(v) - end : y[k] = v[end + k]
  <2>1. end + 1 \in 1 .. Len(v) + 1 /\ Len(v) \in (end + 1) - 1 .. Len(v)
    BY <1>0
  <2>2. /\ SubSeq(v, end + 1, Len(v)) \in Seq(S) /\ Len(SubSeq(v, end + 1, Len(v))) = Len(v) - (end + 1) + 1
        /\ \A k \in 1 .. Len(v) - (end + 1) + 1 : SubSeq(v, end + 1, Len(v))[k] = v[(end + 1) + k - 1]
    BY ONLY <2>1, v \in Seq(S), SubSeqProperties
  <2> QED BY <1>0, <2>2
<1> HIDE DEF x, y
<1>3. /\ x \o y \in Seq(S) /\ Len(x \o y) = start + (Len(v) - end)
      /\ \A k \in 1 .. Len(x) + Len(y) : (x \o y)[k] = IF k <= Len(x) THEN x[k] ELSE y[k - Len(x)]
  BY ONLY <1>1, <1>2, ConcatProperties
<1> DEFINE m == Len(v) - (end - start)
<1>4. start + (Len(v) - end) = m /\ Len(x) + Len(y) = m /\ m \in Nat
  BY <1>0, <1>1, <1>2
<1>5. \A k \in 1 .. m : (x \o y)[k] = IF k <= start THEN v[k] ELSE v[k + (end - start)]
  <2> SUFFICES ASSUME NEW k \in 1 .. m
               PROVE  (x \o y)[k] = IF k <= start THEN v[k] ELSE v[k + (end - start)]
    OBVIOUS
  <2>1. (x \o y)[k] = IF k <= start THEN x[k] ELSE y[k - start]
    BY <1>1, <1>3, <1>4
  <2>2. k <= start => x[k] = v[k]
    BY <1>0, <1>1, <1>4
  <2>3. ~ (k <= start) => k - start \in 1 .. Len(v) - end /\ end + (k - start) = k + (end - start)
    BY <1>0, <1>4
  <2>4. ~ (k <= start) => y[k - start] = v[k + (end - start)]
    BY ONLY <1>2, <2>3
  <2>5. CASE k <= start
    BY ONLY <2>1, <2>2, <2>5
  <2>6. CASE ~ (k <= start)
    BY ONLY <2>1, <2>4, <2>6
  <2> QED BY ONLY <2>5, <2>6
<1>6. x \o y = [k \in 1 .. m |-> IF k <= start THEN v[k] ELSE v[k + (end - start)]]
  <2> DEFINE q == x \o y
  <2>1. q \in Seq(S) /\ Len(q) = m /\ m \in Nat
    BY <1>3, <1>4
  <2> HIDE DEF m, q
  <2>2. q = [k \in 1 .. m |-> q[k]]
    BY ONLY <2>1
  <2>3. \A k \in 1 .. m : q[k] = IF k <= start THEN v[k] ELSE v[k + (end - start)]
    BY ONLY <1>5 DEF q
  <2>4. q = [k \in 1 .. m |-> IF k <= start THEN v[k] ELSE v[k + (end - start)]]
    BY ONLY <2>2, <2>3
  <2> QED BY ONLY <2>4 DEF q
<1> QED BY ONLY <1>6 DEF Erased, Cut, x, y, m

LEMMA Erase ==
  ASSUME NEW s, Good(s), NEW o \in DOMAIN s.arrays, NEW start \in 0 .. Size(s, o), NEW end \in start .. Size(s, o)
  PROVE  Becomes(s, erase(s, o, start, end), o, Erased(Val(s, o), start, end))
<1> DEFINE z == Size(s, o)
           n == z - (end - start)
           b == s.arrays[o].data
           ind == Up(start, n - 1)
           t == Move(s, b, b, end - start, ind)
           r == resize(t, o, n)
           v == Val(s, o)
           w == Shifted(v, v, start, n - 1, end - start)
<1>1. z \in Nat /\ start \in Nat /\ end \in Nat /\ n \in Nat /\ n <= z /\ start <= n
      /\ end - start \in Int /\ n - 1 \in Int /\ start <= end /\ end <= z
  BY SizeType
<1>2. erase(s, o, start, end) = r
  BY DEF erase
<1>3. /\ ind \in Seq(Int) /\ {ind[k] : k \in DOMAIN ind} = start .. n - 1
      /\ DOMAIN ind = 1 .. (n - 1) - start + 1
      /\ \A k \in DOMAIN ind : ind[k] = start + k - 1
      /\ start > n - 1 => ind = <<>>
  <2>1. start \in Int /\ n - 1 \in Int
    BY <1>1
  <2> HIDE DEF n
  <2> QED BY ONLY <2>1, UpIs
<1>4. Movable(s, o, o, start, n - 1, end - start, ind)
  <2>1. \A i \in start .. n - 1 : i \in 0 .. z - 1 /\ i + (end - start) \in 0 .. z - 1
    BY <1>1
  <2>2. \A j, k \in DOMAIN ind : j < k => ind[k] + (end - start) # ind[j]
    <3> SUFFICES ASSUME NEW j \in DOMAIN ind, NEW k \in DOMAIN ind, j < k PROVE ind[k] + (end - start) # ind[j]
      OBVIOUS
    <3>1. ind[j] = start + j - 1 /\ ind[k] = start + k - 1 /\ j \in Int /\ k \in Int
      BY <1>3
    <3> HIDE DEF ind
    <3> QED BY <1>1, <3>1
  <2> HIDE DEF ind, n
  <2> QED BY ONLY <1>3, <2>1, <2>2 DEF Movable
<1> HIDE DEF ind
<1>5. Turns(s, t, o, w)
  <2> HIDE DEF n, z
  <2> QED BY ONLY <1>1, <1>3, <1>4, Good(s), o \in DOMAIN s.arrays, Shift
<1>6. Len(v) = z /\ v \in Seq(Items)
  BY ValLen, ValIs
<1> HIDE DEF t
<1>7. Good(t) /\ o \in DOMAIN t.arrays /\ Val(t, o) = w
  BY ONLY <1>5 DEF Turns
<1>8. Len(w) = z
  <2>1. w = [k \in 1 .. z |-> IF k - 1 \in start .. n - 1 THEN v[k + (end - start)] ELSE v[k]]
    BY ONLY <1>6 DEF Shifted
  <2>2. w \in Seq(Items)
    BY ONLY <1>7, ValIs
  <2>3. DOMAIN w = 1 .. z
    BY ONLY <2>1
  <2> HIDE DEF w, z
  <2> QED BY ONLY <1>1, <2>2, <2>3
<1>9. n <= t.arrays[o].physical_size
  <2>1. Size(t, o) = z
    BY ONLY <1>7, <1>8, ValLen
  <2>2. /\ t.arrays[o].size <= t.arrays[o].physical_size
        /\ t.arrays[o].physical_size \in Nat
    BY ONLY <1>7, GoodParts
  <2> QED BY <1>1, <2>1, <2>2 DEF Size
<1>10. Becomes(t, r, o, Resized(w, n))
  <2> HIDE DEF n, w
  <2> QED BY ONLY <1>1, <1>7, <1>9, Resize
<1>11. Becomes(s, r, o, Resized(w, n))
  BY ONLY <1>5, <1>10, TurnsThenBecomes
<1>12. Resized(w, n) = Erased(v, start, end)
  <2>1. Resized(w, n) = [k \in 1 .. n |-> IF k <= z THEN w[k] ELSE Default]
    BY ONLY <1>8 DEF Resized
  <2>2. \A k \in 1 .. n : w[k] = IF k <= start THEN v[k] ELSE v[k + (end - start)]
    <3> HIDE DEF v, z
    <3> QED BY <1>1, <1>6 DEF Shifted
  <2>3. Erased(v, start, end) = Cut(v, start, end)
    <3>1. start \in 0 .. Len(v) /\ end \in start .. Len(v) /\ v \in Seq(Items)
      BY <1>1, <1>6
    <3> HIDE DEF v, z
    <3> QED BY ONLY <3>1, ErasedIs
  <2>4. \A k \in 1 .. n : k <= z
    BY <1>1
  <2>5. Cut(v, start, end) = [k \in 1 .. n |-> IF k <= start THEN v[k] ELSE v[k + (end - start)]]
    BY ONLY <1>6 DEF Cut
  <2> HIDE DEF v, w, z, n
  <2>6. Resized(w, n) = Cut(v, start, end)
    BY ONLY <2>1, <2>2, <2>4, <2>5
  <2> QED BY ONLY <2>3, <2>6
<1> QED BY ONLY <1>2, <1>11, <1>12

LEMMA TurnsTwice ==
  ASSUME NEW s, NEW t, NEW r, NEW o, NEW v, NEW w, Turns(s, t, o, v), Turns(t, r, o, w)
  PROVE  Turns(s, r, o, w)
<1>1. Others(s, t, o) /\ Widens(s, t, o) /\ DOMAIN t.memory = DOMAIN s.memory
  BY DEF Turns
<1>2. /\ Good(r) /\ Others(t, r, o) /\ o \in DOMAIN r.arrays /\ Val(r, o) = w
      /\ DOMAIN r.memory = DOMAIN t.memory /\ Widens(t, r, o)
  BY DEF Turns
<1>3. Others(s, r, o) /\ Widens(s, r, o)
  BY ONLY <1>1, <1>2, OthersTwice, WidensTwice
<1>4. r.arrays[o].data = s.arrays[o].data
  BY DEF Turns
<1> QED BY ONLY <1>1, <1>2, <1>3, <1>4 DEF Turns

\* Room for all items of an array that became v.
LEMMA RoomFor ==
  ASSUME NEW s, Good(s), NEW o \in DOMAIN s.arrays
  PROVE  Len(Val(s, o)) <= s.arrays[o].physical_size
<1>1. Len(Val(s, o)) = s.arrays[o].size
  BY ValLen DEF Size
<1> QED BY <1>1, GoodParts

-----------------------------------------------------------------------------
(* insert.                                                                 *)

Spliced(v, w, i) ==
  [k \in 1 .. Len(v) + Len(w) |-> IF k <= i THEN v[k]
                                  ELSE IF k <= i + Len(w) THEN w[k - i] ELSE v[k - Len(w)]]

LEMMA SpliceIs ==
  ASSUME NEW S, NEW v \in Seq(S), NEW w \in Seq(S), NEW i \in 0 .. Len(v)
  PROVE  SubSeq(v, 1, i) \o w \o SubSeq(v, i + 1, Len(v)) = Spliced(v, w, i)
<1> DEFINE x == SubSeq(v, 1, i)
           y == SubSeq(v, i + 1, Len(v))
           a == Len(v)
           n == Len(w)
           q == x \o w
           z == q \o y
<1>0. a \in Nat /\ i \in Nat /\ i <= a /\ n \in Nat
  OBVIOUS
<1>1. x \in Seq(S) /\ Len(x) = i /\ \A k \in 1 .. i : x[k] = v[k]
  <2>1. 1 \in 1 .. Len(v) + 1 /\ i \in 1 - 1 .. Len(v)
    BY <1>0
  <2>2. /\ SubSeq(v, 1, i) \in Seq(S) /\ Len(SubSeq(v, 1, i)) = i - 1 + 1
        /\ \A k \in 1 .. i - 1 + 1 : SubSeq(v, 1, i)[k] = v[1 + k - 1]
    BY ONLY <2>1, v \in Seq(S), SubSeqProperties
  <2> QED BY <1>0, <2>2
<1>2. y \in Seq(S) /\ Len(y) = a - i /\ \A k \in 1 .. a - i : y[k] = v[i + k]
  <2>1. i + 1 \in 1 .. Len(v) + 1 /\ Len(v) \in (i + 1) - 1 .. Len(v)
    BY <1>0
  <2>2. /\ SubSeq(v, i + 1, Len(v)) \in Seq(S) /\ Len(SubSeq(v, i + 1, Len(v))) = Len(v) - (i + 1) + 1
        /\ \A k \in 1 .. Len(v) - (i + 1) + 1 : SubSeq(v, i + 1, Len(v))[k] = v[(i + 1) + k - 1]
    BY ONLY <2>1, v \in Seq(S), SubSeqProperties
  <2> QED BY <1>0, <2>2
<1> HIDE DEF x, y
<1>3. /\ q \in Seq(S) /\ Len(q) = i + n
      /\ \A k \in 1 .. i + n : q[k] = IF k <= i THEN x[k] ELSE w[k - i]
  <2>1. /\ x \o w \in Seq(S) /\ Len(x \o w) = Len(x) + Len(w)
        /\ \A k \in 1 .. Len(x) + Len(w) : (x \o w)[k] = IF k <= Len(x) THEN x[k] ELSE w[k - Len(x)]
    BY ONLY <1>1, w \in Seq(S), ConcatProperties
  <2> QED BY ONLY <1>1, <2>1
<1> HIDE DEF q
<1>4. /\ z \in Seq(S) /\ Len(z) = (i + n) + (a - i)
      /\ \A k \in 1 .. (i + n) + (a - i) : z[k] = IF k <= i + n THEN q[k] ELSE y[k - (i + n)]
  <2>1. /\ q \o y \in Seq(S) /\ Len(q \o y) = Len(q) + Len(y)
        /\ \A k \in 1 .. Len(q) + Len(y) : (q \o y)[k] = IF k <= Len(q) THEN q[k] ELSE y[k - Len(q)]
    BY ONLY <1>2, <1>3, ConcatProperties
  <2> QED BY ONLY <1>2, <1>3, <2>1
<1> HIDE DEF z
<1>5. (i + n) + (a - i) = a + n /\ a + n \in Nat
  BY <1>0
<1>6. \A k \in 1 .. a + n :
        z[k] = IF k <= i THEN v[k] ELSE IF k <= i + n THEN w[k - i] ELSE v[k - n]
  <2> SUFFICES ASSUME NEW k \in 1 .. a + n
               PROVE  z[k] = IF k <= i THEN v[k] ELSE IF k <= i + n THEN w[k - i] ELSE v[k - n]
    OBVIOUS
  <2>1. z[k] = IF k <= i + n THEN q[k] ELSE y[k - (i + n)]
    BY ONLY <1>4, <1>5, k \in 1 .. a + n
  <2>2. k <= i + n => q[k] = IF k <= i THEN x[k] ELSE w[k - i]
    BY ONLY <1>0, <1>3, k \in 1 .. a + n
  <2>3. k <= i => x[k] = v[k]
    BY ONLY <1>0, <1>1, k \in 1 .. a + n
  <2>4. ~ (k <= i + n) => y[k - (i + n)] = v[k - n]
    <3> SUFFICES ASSUME ~ (k <= i + n) PROVE y[k - (i + n)] = v[k - n]
      OBVIOUS
    <3>1. k - (i + n) \in 1 .. a - i /\ i + (k - (i + n)) = k - n
      BY <1>0
    <3> QED BY ONLY <1>2, <3>1
  <2>5. k <= i => k <= i + n
    BY <1>0
  <2>6. CASE k <= i
    BY ONLY <2>1, <2>2, <2>3, <2>5, <2>6
  <2>7. CASE ~ (k <= i) /\ k <= i + n
    BY ONLY <2>1, <2>2, <2>7
  <2>8. CASE ~ (k <= i + n)
    BY ONLY <2>1, <2>4, <2>5, <2>8
  <2> QED BY ONLY <2>6, <2>7, <2>8
<1>7. z = [k \in 1 .. a + n |-> z[k]]
  BY ONLY <1>4, <1>5
<1>8. z = [k \in 1 .. a + n |-> IF k <= i THEN v[k] ELSE IF k <= i + n THEN w[k - i] ELSE v[k - n]]
  BY ONLY <1>6, <1>7
<1> QED BY ONLY <1>8 DEF x, y, q, z, a, n, Spliced

LEMMA InsertItem ==
  ASSUME NEW s, Good(s), NEW o \in DOMAIN s.arrays, NEW item \in Items, NEW index \in 0 .. Size(s, o),
         Free(s) >= 1 \/ Size(s, o) + 1 <= s.arrays[o].physical_size
  PROVE  Becomes(s, insertItem(s, o, item, index), o, Spliced(Val(s, o), <<item>>, index))
<1> DEFINE n == Size(s, o)
           room == resize(s, o, n + 1)
           b == room.arrays[o].data
           ind == Down(n, index + 1)
           moved == Move(room, b, b, -1, ind)
           r == Put(moved, o, index, item)
           v == Val(s, o)
           w == Resized(v, n + 1)
           x == Shifted(w, w, index + 1, n, -1)
<1>1. n \in Nat /\ n + 1 \in Nat /\ index \in Nat /\ index <= n
  BY SizeType
<1>2. insertItem(s, o, item, index) = r
  BY DEF insertItem
<1>3. v \in Seq(Items) /\ Len(v) = n
  BY ValIs, ValLen
<1>4. Becomes(s, room, o, w)
  <2>1. Free(s) >= 1 \/ n + 1 <= s.arrays[o].physical_size
    OBVIOUS
  <2> HIDE DEF n
  <2> QED BY ONLY <1>1, <2>1, Good(s), o \in DOMAIN s.arrays, Resize
<1> HIDE DEF room
<1>5. Good(room) /\ o \in DOMAIN room.arrays /\ Val(room, o) = w
  BY ONLY <1>4 DEF Becomes
<1>6. Len(w) = n + 1 /\ w = [k \in 1 .. n + 1 |-> IF k <= n THEN v[k] ELSE Default]
  <2>1. w = [k \in 1 .. n + 1 |-> IF k <= n THEN v[k] ELSE Default]
    BY ONLY <1>3 DEF Resized
  <2>2. w \in Seq(Items)
    BY ONLY <1>5, ValIs
  <2>3. DOMAIN w = 1 .. n + 1
    BY ONLY <2>1
  <2>4. Len(w) = n + 1
    <3> HIDE DEF w, n
    <3> QED BY ONLY <1>1, <2>2, <2>3
  <2> QED BY ONLY <2>1, <2>4
<1>7. Size(room, o) = n + 1
  BY ONLY <1>5, <1>6, ValLen
<1>8. /\ ind \in Seq(Int) /\ {ind[k] : k \in DOMAIN ind} = index + 1 .. n
      /\ DOMAIN ind = 1 .. n - (index + 1) + 1
      /\ \A k \in DOMAIN ind : ind[k] = n - k + 1
      /\ index + 1 > n => ind = <<>>
  <2>1. n \in Int /\ index + 1 \in Int
    BY <1>1
  <2> HIDE DEF n
  <2> QED BY ONLY <2>1, DownIs
<1>9. Movable(room, o, o, index + 1, n, -1, ind)
  <2>1. \A i \in index + 1 .. n : i \in 0 .. Size(room, o) - 1 /\ i + (-1) \in 0 .. Size(room, o) - 1
    BY <1>1, <1>7
  <2>2. \A j, k \in DOMAIN ind : j < k => ind[k] + (-1) # ind[j]
    <3> SUFFICES ASSUME NEW j \in DOMAIN ind, NEW k \in DOMAIN ind, j < k PROVE ind[k] + (-1) # ind[j]
      OBVIOUS
    <3>1. ind[j] = n - j + 1 /\ ind[k] = n - k + 1 /\ j \in Int /\ k \in Int
      BY <1>8
    <3> HIDE DEF ind
    <3> QED BY <1>1, <3>1
  <2> HIDE DEF ind, n
  <2> QED BY ONLY <1>8, <2>1, <2>2 DEF Movable
<1> HIDE DEF ind
<1>10. Turns(room, moved, o, x)
  <2>1. index + 1 \in Int /\ n \in Int /\ -1 \in Int /\ ind \in Seq(Int)
    BY <1>1, <1>8
  <2>2. Turns(room, moved, o, Shifted(Val(room, o), Val(room, o), index + 1, n, -1))
    <3> HIDE DEF n
    <3> QED BY ONLY <1>5, <1>9, <2>1, Shift
  <2> QED BY ONLY <1>5, <2>2
<1> HIDE DEF moved
<1>11. Good(moved) /\ o \in DOMAIN moved.arrays /\ Val(moved, o) = x
  BY ONLY <1>10 DEF Turns
<1>12. Len(x) = n + 1 /\ x = [k \in 1 .. n + 1 |-> IF k - 1 \in index + 1 .. n THEN w[k + (-1)] ELSE w[k]]
  <2>1. x = [k \in 1 .. n + 1 |-> IF k - 1 \in index + 1 .. n THEN w[k + (-1)] ELSE w[k]]
    BY ONLY <1>6 DEF Shifted
  <2>2. x \in Seq(Items)
    BY ONLY <1>11, ValIs
  <2>3. DOMAIN x = 1 .. n + 1
    BY ONLY <2>1
  <2>4. Len(x) = n + 1
    <3> HIDE DEF x, n
    <3> QED BY ONLY <1>1, <2>2, <2>3
  <2> QED BY ONLY <2>1, <2>4
<1>13. Turns(moved, r, o, Replaced(x, index, item))
  <2>1. Size(moved, o) = n + 1
    BY ONLY <1>11, <1>12, ValLen
  <2>2. moved.arrays[o].size <= moved.arrays[o].physical_size /\ moved.arrays[o].physical_size \in Nat
    BY ONLY <1>11, GoodParts
  <2>3. index \in 0 .. moved.arrays[o].physical_size - 1
    BY <1>1, <2>1, <2>2 DEF Size
  <2>4. item \in All
    BY DEF All
  <2> HIDE DEF x
  <2>5. Turns(moved, r, o, Replaced(Val(moved, o), index, item))
    BY ONLY <1>11, <2>3, <2>4, item \in Items, PutTurns
  <2> QED BY ONLY <1>11, <2>5
<1> HIDE DEF r
<1>14. Becomes(s, r, o, Replaced(x, index, item))
  <2>1. Turns(room, r, o, Replaced(x, index, item))
    BY ONLY <1>10, <1>13, TurnsTwice
  <2> QED BY ONLY <1>4, <2>1, BecomesThenTurns
<1>15. Replaced(x, index, item) = Spliced(v, <<item>>, index)
  <2>1. Replaced(x, index, item) = [k \in 1 .. n + 1 |-> IF k = index + 1 THEN item ELSE x[k]]
    BY ONLY <1>12 DEF Replaced
  <2>2. Spliced(v, <<item>>, index) = [k \in 1 .. n + 1 |-> IF k <= index THEN v[k]
                                  ELSE IF k <= index + 1 THEN <<item>>[k - index] ELSE v[k - 1]]
    <3>1. Len(<<item>>) = 1
      OBVIOUS
    <3> HIDE DEF v, n
    <3> QED BY ONLY <1>3, <3>1 DEF Spliced
  <2>3. ASSUME NEW k \in 1 .. n + 1
        PROVE  (IF k = index + 1 THEN item ELSE x[k])
                 = IF k <= index THEN v[k] ELSE IF k <= index + 1 THEN <<item>>[k - index] ELSE v[k - 1]
    <3>1. x[k] = IF k - 1 \in index + 1 .. n THEN w[k + (-1)] ELSE w[k]
      BY ONLY <1>12, k \in 1 .. n + 1
    <3>2. w[k] = IF k <= n THEN v[k] ELSE Default
      BY ONLY <1>6, k \in 1 .. n + 1
    <3>3. k - 1 \in index + 1 .. n => w[k + (-1)] = v[k - 1]
      <4> SUFFICES ASSUME k - 1 \in index + 1 .. n PROVE w[k + (-1)] = v[k - 1]
        OBVIOUS
      <4>1. k - 1 \in 1 .. n + 1 /\ k - 1 <= n /\ k + (-1) = k - 1
        BY <1>1
      <4> HIDE DEF w, v
      <4> QED BY ONLY <1>6, <4>1
    <3> HIDE DEF x, w, v
    <3>4. CASE k <= index
      <4>1. ~ (k = index + 1) /\ ~ (k - 1 \in index + 1 .. n) /\ k <= n
        BY <1>1, <3>4
      <4> QED BY ONLY <3>1, <3>2, <3>4, <4>1
    <3>5. CASE k = index + 1
      <4>1. ~ (k <= index) /\ k <= index + 1 /\ k - index = 1
        BY <1>1, <3>5
      <4>2. <<item>>[k - index] = item
        BY ONLY <4>1
      <4> QED BY ONLY <3>5, <4>1, <4>2
    <3>6. CASE k > index + 1
      <4>1. ~ (k <= index) /\ ~ (k <= index + 1) /\ k - 1 \in index + 1 .. n /\ k # index + 1
        BY <1>1, <3>6
      <4> QED BY ONLY <3>1, <3>3, <4>1
    <3> QED BY <1>1, <3>4, <3>5, <3>6
  <2> HIDE DEF x, v, n
  <2> QED BY ONLY <2>1, <2>2, <2>3
<1> QED BY ONLY <1>2, <1>14, <1>15

-----------------------------------------------------------------------------
(* push: an item after the last one.                                       *)

LEMMA SpliceAtEnd ==
  ASSUME NEW S, NEW v \in Seq(S), NEW item \in S
  PROVE  Spliced(v, <<item>>, Len(v)) = Append(v, item)
<1> DEFINE n == Len(v)
           w == Append(v, item)
<1>1. n \in Nat /\ w \in Seq(S) /\ Len(w) = n + 1 /\ \A k \in 1 .. n : w[k] = v[k]
  OBVIOUS
<1>2. w[n + 1] = item
  OBVIOUS
<1>3. Len(<<item>>) = 1 /\ <<item>>[1] = item
  OBVIOUS
<1>4. Spliced(v, <<item>>, n) = [k \in 1 .. n + 1 |-> IF k <= n THEN v[k]
                                  ELSE IF k <= n + 1 THEN <<item>>[k - n] ELSE v[k - 1]]
  <2> HIDE DEF n
  <2> QED BY ONLY <1>3 DEF Spliced, n
<1>5. ASSUME NEW k \in 1 .. n + 1
      PROVE  (IF k <= n THEN v[k] ELSE IF k <= n + 1 THEN <<item>>[k - n] ELSE v[k - 1]) = w[k]
  <2>1. CASE k <= n
    <3> HIDE DEF w
    <3> QED BY <1>1, <2>1
  <2>2. CASE k = n + 1
    <3>1. ~ (k <= n) /\ k <= n + 1 /\ k - n = 1
      BY <1>1, <2>2
    <3> HIDE DEF w, n
    <3> QED BY ONLY <3>1, <1>2, <1>3, <2>2
  <2> QED BY <1>1, <2>1, <2>2
<1>6. w = [k \in 1 .. n + 1 |-> w[k]]
  <2> HIDE DEF w, n
  <2> QED BY ONLY <1>1
<1> HIDE DEF w, n
<1>7. Spliced(v, <<item>>, n) = w
  BY ONLY <1>4, <1>5, <1>6
<1> QED BY ONLY <1>7 DEF w, n

LEMMA Push ==
  ASSUME NEW s, Good(s), NEW o \in DOMAIN s.arrays, NEW item \in Items,
         Free(s) >= 1 \/ Size(s, o) + 1 <= s.arrays[o].physical_size
  PROVE  Becomes(s, push(s, o, item), o, Append(Val(s, o), item))
<1>1. Val(s, o) \in Seq(Items) /\ Len(Val(s, o)) = Size(s, o)
  BY ValIs, ValLen
<1>2. Size(s, o) \in 0 .. Size(s, o)
  BY SizeType
<1>3. Becomes(s, insertItem(s, o, item, Size(s, o)), o, Spliced(Val(s, o), <<item>>, Size(s, o)))
  BY ONLY Good(s), o \in DOMAIN s.arrays, item \in Items, <1>2, InsertItem,
          Free(s) >= 1 \/ Size(s, o) + 1 <= s.arrays[o].physical_size
<1>4. Spliced(Val(s, o), <<item>>, Len(Val(s, o))) = Append(Val(s, o), item)
  BY ONLY <1>1, item \in Items, SpliceAtEnd
<1> QED BY ONLY <1>1, <1>3, <1>4 DEF push

-----------------------------------------------------------------------------
(* Calls that make an object, or take one away.                            *)

\* The objects other than o are as they were.
Kept(s, r, o) ==
  \A p \in DOMAIN s.arrays \ {o} :
    /\ p \in DOMAIN r.arrays /\ r.arrays[p] = s.arrays[p]
    /\ s.arrays[p].data # Null => r.memory[s.arrays[p].data] = s.memory[s.arrays[p].data]

LEMMA OthersKept ==
  ASSUME NEW s, NEW r, NEW o, Others(s, r, o)
  PROVE  Kept(s, r, o)
BY DEF Others, Kept

\* The sequences that the others stand for are the same.
LEMMA KeptValue ==
  ASSUME NEW s, Good(s), NEW r, NEW o, Kept(s, r, o), Good(r), NEW p \in DOMAIN s.arrays, p # o
  PROVE  p \in DOMAIN r.arrays /\ Val(r, p) = Val(s, p)
<1>1. /\ p \in DOMAIN r.arrays /\ r.arrays[p] = s.arrays[p]
      /\ s.arrays[p].data # Null => r.memory[s.arrays[p].data] = s.memory[s.arrays[p].data]
  BY DEF Kept
<1>2. Size(r, p) = Size(s, p)
  BY ONLY <1>1 DEF Size
<1>3. \A k \in 1 .. Size(s, p) : Get(r, p, k - 1) = Get(s, p, k - 1)
  <2> SUFFICES ASSUME NEW k \in 1 .. Size(s, p) PROVE Get(r, p, k - 1) = Get(s, p, k - 1)
    OBVIOUS
  <2>1. Size(s, p) \in Nat
    BY SizeType
  <2>2. k - 1 \in 0 .. Size(s, p) - 1
    BY ONLY <2>1, k \in 1 .. Size(s, p)
  <2>3. k - 1 \in 0 .. Size(r, p) - 1
    BY ONLY <1>2, <2>2
  <2> DEFINE i == k - 1
  <2> HIDE DEF i
  <2>4. Get(s, p, i) = s.memory[s.arrays[p].data][i] /\ s.arrays[p].data # Null
    BY ONLY <2>2, Good(s), p \in DOMAIN s.arrays, GetParts DEF i
  <2>5. Get(r, p, i) = r.memory[r.arrays[p].data][i]
    BY ONLY <1>1, <2>3, Good(r), GetIs DEF i
  <2>6. Get(r, p, i) = Get(s, p, i)
    BY ONLY <1>1, <2>4, <2>5
  <2> QED BY ONLY <2>6 DEF i
<1>4. Val(r, p) = Val(s, p)
  BY ONLY <1>2, <1>3 DEF Val
<1> QED BY ONLY <1>1, <1>4

LEMMA FreeOfRoom ==
  ASSUME NEW s, NEW r, NEW n \in Nat, Free(s) >= n + 1, \E b : DOMAIN r.memory \subseteq DOMAIN s.memory \cup {b}
  PROVE  Free(r) >= n
<1>1. PICK b : DOMAIN r.memory \subseteq DOMAIN s.memory \cup {b}
  OBVIOUS
<1>2. Free(r) >= Free(s) - 1
  BY ONLY <1>1, FreeTaken
<1>3. Free(r) \in Nat /\ Free(s) \in Nat
  BY FreeType
<1> QED BY <1>2, <1>3

\* o is v now, and the buffer it may have had is lost.
Left(s, o) == {b \in DOMAIN s.memory : o \in DOMAIN s.arrays /\ b = s.arrays[o].data}

Takes(s, r, o, v) ==
  /\ Good(r) /\ Kept(s, r, o) /\ DOMAIN r.arrays = DOMAIN s.arrays \cup {o}
  /\ Val(r, o) = v /\ Lost(r) = Lost(s) \cup Left(s, o)
  /\ \E b : DOMAIN r.memory \subseteq DOMAIN s.memory \cup {b}

Leaves(s, r, o) ==
  /\ Good(r) /\ Kept(s, r, o) /\ DOMAIN r.arrays = DOMAIN s.arrays \ {o}
  /\ Lost(r) = Lost(s) /\ DOMAIN r.memory \subseteq DOMAIN s.memory

LEMMA ConstructIs ==
  ASSUME NEW s, Good(s), NEW o \in Names, o \notin DOMAIN s.arrays
  PROVE  Takes(s, Construct(s, o), o, <<>>)
<1> DEFINE A == With(s.arrays, o, Empty)
           r == Construct(s, o)
<1>1. s = [arrays |-> s.arrays, memory |-> s.memory, outside |-> s.outside] /\ s.outside = FALSE
  BY StoreParts
<1>2. r = [arrays |-> A, memory |-> s.memory, outside |-> s.outside]
  <2>1. DOMAIN s = {"arrays", "memory", "outside"}
    BY StoreParts
  <2>2. r = [s EXCEPT !.arrays = A]
    BY ONLY <2>1 DEF Construct
  <2> HIDE DEF A, r
  <2>3. [s EXCEPT !.arrays = A] = [arrays |-> A, memory |-> s.memory, outside |-> s.outside]
    <3> DEFINE B == s.arrays
               M == s.memory
               out == s.outside
    <3>1. s = [arrays |-> B, memory |-> M, outside |-> out]
      BY ONLY <1>1
    <3> HIDE DEF B, M, out
    <3>2. [s EXCEPT !.arrays = A] = [arrays |-> A, memory |-> M, outside |-> out]
      BY ONLY <3>1, ArraysIs
    <3> QED BY ONLY <3>2 DEF M, out
  <2> QED BY ONLY <2>2, <2>3
<1> HIDE DEF r
<1>3. r.arrays = A /\ r.memory = s.memory /\ r.outside = FALSE
  BY ONLY <1>1, <1>2
<1>4. /\ DOMAIN A = DOMAIN s.arrays \cup {o} /\ A[o] = Empty /\ A = [p \in DOMAIN A |-> A[p]]
      /\ \A p \in DOMAIN s.arrays : A[p] = s.arrays[p]
  BY DEF With
<1> HIDE DEF A
<1>5. Typed(r)
  <2>1. r = [arrays |-> r.arrays, memory |-> r.memory, outside |-> r.outside]
    BY ONLY <1>2
  <2>2. Typed(s)
    BY StoreParts
  <2> QED BY ONLY <2>1, <2>2, <1>3 DEF Typed
<1>6. Empty = [data |-> Null, size |-> 0, physical_size |-> 0] /\ Empty.data = Null /\ Empty.size = 0
      /\ Empty.physical_size = 0
  BY DEF Empty
<1>7. ASSUME NEW p \in DOMAIN A PROVE Held(r, p)
  <2>1. CASE p = o
    <3>1. r.arrays[p] = Empty
      BY ONLY <1>3, <1>4, <2>1
    <3>2. 0 % BlockSize = 0
      BY ContainersAssumption
    <3>3. Empty \in Record
      BY ONLY <1>6 DEF Record, Null
    <3> HIDE DEF Empty
    <3> QED BY ONLY <1>6, <3>1, <3>2, <3>3 DEF Held, Null
  <2>2. CASE p # o
    <3>1. p \in DOMAIN s.arrays /\ r.arrays[p] = s.arrays[p]
      BY ONLY <1>3, <1>4, <2>2, p \in DOMAIN A
    <3>2. Held(s, p)
      BY <3>1 DEF Good
    <3> QED BY ONLY <1>3, <3>1, <3>2 DEF Held
  <2> QED BY ONLY <2>1, <2>2
<1>8. \A p, q \in DOMAIN A : A[p].data = A[q].data /\ A[p].data # Null => p = q
  <2> SUFFICES ASSUME NEW p \in DOMAIN A, NEW q \in DOMAIN A, A[p].data = A[q].data, A[p].data # Null
               PROVE  p = q
    OBVIOUS
  <2>1. p \in DOMAIN s.arrays /\ q \in DOMAIN s.arrays
    BY <1>4, <1>6
  <2>2. A[p] = s.arrays[p] /\ A[q] = s.arrays[q]
    BY <1>4, <2>1
  <2> QED BY <2>1, <2>2 DEF Good
<1>9. Good(r)
  <2>1. DOMAIN A \subseteq Names \cup {Parameter} /\ DOMAIN s.memory \subseteq Buffers
    BY <1>4 DEF Good
  <2> QED BY ONLY <1>3, <1>4, <1>5, <1>7, <1>8, <2>1 DEF Good
<1>10. Val(r, o) = <<>>
  <2>1. Size(r, o) = 0
    BY ONLY <1>3, <1>4, <1>6 DEF Size
  <2>2. Val(r, o) \in Seq(Items) /\ Len(Val(r, o)) = 0
    BY <1>3, <1>4, <1>9, <2>1, ValIs, ValLen
  <2> QED BY <2>2
<1>11. Kept(s, r, o)
  BY ONLY <1>3, <1>4 DEF Kept
<1>12. Lost(r) = Lost(s) \cup Left(s, o)
  <2> DEFINE X == {s.arrays[p].data : p \in DOMAIN s.arrays}
             Y == {A[p].data : p \in DOMAIN A}
  <2>1. Y = X \cup {Null}
    BY <1>4, <1>6
  <2>2. Null \notin DOMAIN s.memory
    BY FreeType DEF Good
  <2>3. Left(s, o) = {}
    BY DEF Left
  <2>4. Lost(s) = DOMAIN s.memory \ X /\ Lost(r) = DOMAIN s.memory \ Y
    BY ONLY <1>3 DEF Lost
  <2> HIDE DEF X, Y
  <2> QED BY ONLY <2>1, <2>2, <2>3, <2>4
<1>13. \E b : DOMAIN r.memory \subseteq DOMAIN s.memory \cup {b}
  BY <1>3
<1> QED BY ONLY <1>3, <1>4, <1>9, <1>10, <1>11, <1>12, <1>13 DEF Takes, r

LEMMA DestructIs ==
  ASSUME NEW s, Good(s), NEW o \in DOMAIN s.arrays
  PROVE  Leaves(s, Destruct(s, o), o)
<1> DEFINE d == s.arrays[o].data
           A == [p \in DOMAIN s.arrays \ {o} |-> s.arrays[p]]
           M == [c \in DOMAIN s.memory \ {d} |-> s.memory[c]]
           r == Destruct(s, o)
<1>1. /\ s = [arrays |-> s.arrays, memory |-> s.memory, outside |-> s.outside]
      /\ s.outside = FALSE /\ DOMAIN s = {"arrays", "memory", "outside"} /\ Typed(s)
  BY StoreParts
<1>2. r = [arrays |-> A, memory |-> M, outside |-> s.outside]
  <2> DEFINE u == Delete(s, d)
             out == s.outside
             B == s.arrays
             N == s.memory
  <2>1. u = [s EXCEPT !.memory = M]
    BY <1>1 DEF Delete
  <2>2. u = [arrays |-> B, memory |-> M, outside |-> out]
    <3>1. s = [arrays |-> B, memory |-> N, outside |-> out]
      BY ONLY <1>1
    <3> HIDE DEF u, B, N, M, out
    <3>2. [s EXCEPT !.memory = M] = [arrays |-> B, memory |-> M, outside |-> out]
      BY ONLY <3>1, MemoryIs
    <3> QED BY ONLY <2>1, <3>2
  <2>3. DOMAIN u = {"arrays", "memory", "outside"} /\ u.arrays = B
    <3> HIDE DEF u, B, M, out
    <3> QED BY ONLY <2>2
  <2>4. r = [u EXCEPT !.arrays = A]
    <3>1. r = [u EXCEPT !.arrays = [p \in DOMAIN u.arrays \ {o} |-> u.arrays[p]]]
      <4>1. r = [Delete(s, d) EXCEPT !.arrays = [p \in DOMAIN @ \ {o} |-> @[p]]]
        BY ONLY DEF Destruct
      <4>2. r = [u EXCEPT !.arrays = [p \in DOMAIN @ \ {o} |-> @[p]]]
        BY ONLY <4>1
      <4> HIDE DEF u, r
      <4> QED BY ONLY <4>2, <2>3
    <3> HIDE DEF u, r
    <3> QED BY ONLY <3>1, <2>3
  <2> HIDE DEF u, A, M, out, B, r
  <2>5. [u EXCEPT !.arrays = A] = [arrays |-> A, memory |-> M, outside |-> out]
    BY ONLY <2>2, ArraysIs
  <2> QED BY ONLY <2>4, <2>5 DEF out
<1> HIDE DEF r
<1>3. r.arrays = A /\ r.memory = M /\ r.outside = FALSE
  BY ONLY <1>1, <1>2
<1>4. DOMAIN A = DOMAIN s.arrays \ {o} /\ (\A p \in DOMAIN A : A[p] = s.arrays[p])
      /\ A = [p \in DOMAIN A |-> A[p]]
  OBVIOUS
<1>5. DOMAIN M = DOMAIN s.memory \ {d} /\ (\A c \in DOMAIN M : M[c] = s.memory[c])
      /\ M = [c \in DOMAIN M |-> M[c]]
  OBVIOUS
<1>6. Typed(r)
  <2>1. r = [arrays |-> r.arrays, memory |-> r.memory, outside |-> r.outside]
    BY ONLY <1>2
  <2>2. \A c \in DOMAIN M : \E n \in Nat : M[c] \in [0 .. n - 1 -> All]
    BY <1>1, <1>5 DEF Typed
  <2> HIDE DEF A, M
  <2> QED BY ONLY <2>1, <2>2, <1>3, <1>5 DEF Typed
<1>7. \A p \in DOMAIN A : s.arrays[p].data # Null =>
        s.arrays[p].data \in DOMAIN M /\ M[s.arrays[p].data] = s.memory[s.arrays[p].data]
  <2> SUFFICES ASSUME NEW p \in DOMAIN A, s.arrays[p].data # Null
               PROVE  s.arrays[p].data \in DOMAIN M /\ M[s.arrays[p].data] = s.memory[s.arrays[p].data]
    OBVIOUS
  <2>1. p \in DOMAIN s.arrays /\ p # o
    BY <1>4
  <2>2. s.arrays[p].data \in DOMAIN s.memory
    BY <2>1, GoodParts
  <2>3. s.arrays[p].data # d
    BY <2>1 DEF Good
  <2> QED BY ONLY <1>5, <2>2, <2>3
<1> HIDE DEF A, M
<1>8. ASSUME NEW p \in DOMAIN A PROVE Held(r, p)
  <2>1. p \in DOMAIN s.arrays /\ r.arrays[p] = s.arrays[p]
    BY ONLY <1>3, <1>4, p \in DOMAIN A
  <2>2. Held(s, p)
    BY <2>1 DEF Good
  <2>3. s.arrays[p].data # Null =>
          s.arrays[p].data \in DOMAIN r.memory /\ r.memory[s.arrays[p].data] = s.memory[s.arrays[p].data]
    BY ONLY <1>3, <1>7, p \in DOMAIN A
  <2> QED BY ONLY <2>1, <2>2, <2>3 DEF Held
<1>9. Good(r)
  <2>1. DOMAIN A \subseteq Names \cup {Parameter} /\ DOMAIN M \subseteq Buffers
    BY <1>4, <1>5 DEF Good
  <2>2. \A p, q \in DOMAIN A : A[p].data = A[q].data /\ A[p].data # Null => p = q
    BY <1>4 DEF Good
  <2> QED BY ONLY <1>3, <1>4, <1>6, <1>8, <2>1, <2>2 DEF Good
<1>10. Kept(s, r, o)
  BY ONLY <1>3, <1>4, <1>7 DEF Kept
<1>11. Lost(r) = Lost(s)
  <2> DEFINE X == {s.arrays[p].data : p \in DOMAIN s.arrays}
             Y == {A[p].data : p \in DOMAIN A}
  <2>1. X = Y \cup {d}
    BY <1>4
  <2>2. Lost(s) = DOMAIN s.memory \ X /\ Lost(r) = DOMAIN M \ Y
    BY ONLY <1>3 DEF Lost
  <2> HIDE DEF X, Y
  <2> QED BY ONLY <1>5, <2>1, <2>2
<1>12. DOMAIN r.memory \subseteq DOMAIN s.memory /\ DOMAIN r.arrays = DOMAIN s.arrays \ {o}
  BY ONLY <1>3, <1>4, <1>5
<1> QED BY ONLY <1>9, <1>10, <1>11, <1>12 DEF Leaves, r

\* The copy constructor, and operator=.
LEMMA CopyIs ==
  ASSUME NEW s, Good(s), NEW o \in Names \cup {Parameter}, NEW p \in DOMAIN s.arrays, o # p, Free(s) >= 1
  PROVE  Takes(s, Copy(s, o, p), o, Val(s, p))
<1> DEFINE a == s.arrays[p]
           room == a.physical_size
           n == a.size
           from == a.data
           b == Fresh(s)
           c == [data |-> b, size |-> n, physical_size |-> room]
           A == With(s.arrays, o, c)
           t == [arrays |-> A, memory |-> s.memory, outside |-> s.outside]
           f == FirstOf(t, from, n, room)
           r == Copy(s, o, p)
<1>1. /\ a = [data |-> from, size |-> n, physical_size |-> room]
      /\ from \in Buffers \cup {Null} /\ n \in Nat /\ room \in Nat /\ n <= room
      /\ room % BlockSize = 0 /\ (from # Null => from \in DOMAIN s.memory)
  BY GoodParts
<1>2. b \in Buffers /\ b \notin DOMAIN s.memory /\ b # Null
  BY FreshIs
<1>3. /\ s = [arrays |-> s.arrays, memory |-> s.memory, outside |-> s.outside]
      /\ DOMAIN s = {"arrays", "memory", "outside"} /\ Typed(s) /\ s.outside = FALSE
  BY StoreParts
<1>4. [s EXCEPT !.arrays = With(@, o, [s.arrays[p] EXCEPT !.data = b])] = t
  <2>1. [a EXCEPT !.data = b] = c
    <3> HIDE DEF from, n, room, a, b
    <3> QED BY ONLY <1>1
  <2>2. [s EXCEPT !.arrays = With(@, o, [s.arrays[p] EXCEPT !.data = b])] = [s EXCEPT !.arrays = A]
    <3> HIDE DEF c, b
    <3> QED BY ONLY <1>3, <2>1 DEF A, a
  <2> DEFINE out == s.outside
             B == s.arrays
             N == s.memory
  <2>3. s = [arrays |-> B, memory |-> N, outside |-> out]
    BY ONLY <1>3
  <2> HIDE DEF B, N, out, A
  <2>4. [s EXCEPT !.arrays = A] = [arrays |-> A, memory |-> N, outside |-> out]
    BY ONLY <2>3, ArraysIs
  <2>5. t = [arrays |-> A, memory |-> N, outside |-> out]
    BY DEF N, out
  <2> HIDE DEF t
  <2> QED BY ONLY <2>2, <2>4, <2>5
<1>5. r = Move(New(t, b, room), b, from, 0, Up(0, n - 1))
  <2>1. r = Move(New([s EXCEPT !.arrays = With(@, o, [s.arrays[p] EXCEPT !.data = b])], b, room),
                 b, from, 0, Up(0, n - 1))
    BY ONLY DEF Copy, Size
  <2> HIDE DEF t, b, n, from, room, r
  <2> QED BY ONLY <1>4, <2>1
<1>6. Typed(t) /\ t.memory = s.memory /\ t.outside = FALSE /\ t.arrays = A
  <2>1. t.memory = s.memory /\ t.outside = FALSE /\ t.arrays = A
        /\ t = [arrays |-> t.arrays, memory |-> t.memory, outside |-> t.outside]
    <3> HIDE DEF A
    <3> QED BY ONLY <1>3
  <2> HIDE DEF t
  <2> QED BY ONLY <1>3, <2>1 DEF Typed
<1>7. r = [arrays |-> A, memory |-> With(s.memory, b, f), outside |-> FALSE]
  <2>1. /\ Typed(t) /\ b \notin DOMAIN t.memory /\ n \in Nat /\ room \in Nat /\ n <= room /\ from # b
    <3>1. from # b
      BY <1>1, <1>2
    <3> HIDE DEF t, b, n, from, room
    <3> QED BY ONLY <1>1, <1>2, <1>6, <3>1
  <2> HIDE DEF t, b, n, from, room, r, A
  <2>2. Move(New(t, b, room), b, from, 0, Up(0, n - 1))
          = [arrays |-> t.arrays, memory |-> With(t.memory, b, FirstOf(t, from, n, room)), outside |-> t.outside]
    BY ONLY <2>1, NewCopy
  <2> QED BY ONLY <2>2, <1>5, <1>6 DEF f
<1>8. f \in [0 .. room - 1 -> All]
  <2> HIDE DEF t, n, from, room
  <2>1. FirstOf(t, from, n, room) \in [0 .. room - 1 -> All]
    BY ONLY <1>1, <1>6, FirstType
  <2> QED BY ONLY <2>1 DEF f
<1>9. \A i \in 0 .. n - 1 : f[i] = Get(s, p, i) /\ Get(s, p, i) \in Items
  <2> SUFFICES ASSUME NEW i \in 0 .. n - 1 PROVE f[i] = Get(s, p, i) /\ Get(s, p, i) \in Items
    OBVIOUS
  <2>1. i \in 0 .. room - 1
    BY <1>1
  <2>2. f[i] = Load(t, from, i)
    BY ONLY <2>1, i \in 0 .. n - 1 DEF FirstOf, f
  <2>3. Load(t, from, i) = Load(s, from, i)
    <3> HIDE DEF t, from
    <3> QED BY ONLY <1>6 DEF Load, Inside
  <2>4. Get(s, p, i) \in Items
    BY ItemIs DEF Size
  <2> HIDE DEF f, t
  <2> QED BY ONLY <2>2, <2>3, <2>4 DEF Get
<1> HIDE DEF f, t, r, b
<1>10. c \in Record /\ c.data = b /\ c.size = n /\ c.physical_size = room
  <2> HIDE DEF n, room
  <2> QED BY ONLY <1>1, <1>2 DEF Record
<1>11. \A q \in DOMAIN s.arrays : s.arrays[q].data # b
  <2> SUFFICES ASSUME NEW q \in DOMAIN s.arrays PROVE s.arrays[q].data # b
    OBVIOUS
  <2>1. s.arrays[q].data \in DOMAIN s.memory \/ s.arrays[q].data = Null
    BY GoodParts
  <2> QED BY ONLY <1>2, <2>1
<1>12. Fits(s, o, c, f)
  <2> HIDE DEF c, n, room
  <2> QED BY ONLY <1>1, <1>2, <1>8, <1>9, <1>10, <1>11 DEF Fits
<1>13. r = Updated(s, o, c, f, {})
  <2>1. Updated(s, o, c, f, {}) =
          [arrays |-> [q \in DOMAIN s.arrays \cup {o} |-> IF q = o THEN c ELSE s.arrays[q]],
           memory |-> [d \in (DOMAIN s.memory \cup {b}) \ {} |-> IF d = b THEN f ELSE s.memory[d]],
           outside |-> FALSE]
    <3> HIDE DEF c
    <3> QED BY ONLY <1>10 DEF Updated
  <2>2. (DOMAIN s.memory \cup {b}) \ {} = DOMAIN s.memory \cup {b}
    OBVIOUS
  <2>3. A = [q \in DOMAIN s.arrays \cup {o} |-> IF q = o THEN c ELSE s.arrays[q]]
    BY ONLY DEF With
  <2>4. With(s.memory, b, f) = [d \in DOMAIN s.memory \cup {b} |-> IF d = b THEN f ELSE s.memory[d]]
    BY ONLY DEF With
  <2> HIDE DEF A, c
  <2> QED BY ONLY <1>7, <2>1, <2>2, <2>3, <2>4
<1> HIDE DEF c, n, room
<1>14. IsUpdate(s, r, o, c, f, {})
  <2> DEFINE none == {}
  <2>1. Spared(s, o, c, none)
    BY ONLY DEF Spared
  <2>2. r = Updated(s, o, c, f, none)
    BY ONLY <1>13
  <2> HIDE DEF none
  <2>3. IsUpdate(s, Updated(s, o, c, f, none), o, c, f, none)
    BY ONLY Good(s), o \in Names \cup {Parameter}, <1>12, <2>1, Update
  <2> QED BY ONLY <2>2, <2>3 DEF none
<1>15. /\ Good(r) /\ DOMAIN r.arrays = DOMAIN s.arrays \cup {o} /\ r.arrays[o] = c
       /\ DOMAIN r.memory = DOMAIN s.memory \cup {b} /\ r.memory[b] = f
       /\ \A q \in DOMAIN s.arrays \ {o} :
            /\ r.arrays[q] = s.arrays[q]
            /\ s.arrays[q].data # Null => r.memory[s.arrays[q].data] = s.memory[s.arrays[q].data]
  <2>1. (DOMAIN s.memory \cup {b}) \ {} = DOMAIN s.memory \cup {b}
    OBVIOUS
  <2> QED BY ONLY <1>10, <1>14, <2>1 DEF IsUpdate
<1>16. Kept(s, r, o)
  BY ONLY <1>15 DEF Kept
<1>17. Size(r, o) = n /\ Size(s, p) = n
  BY ONLY <1>10, <1>15 DEF Size, n
<1>18. Val(r, o) = Val(s, p)
  <2>1. \A k \in 1 .. n : Get(r, o, k - 1) = Get(s, p, k - 1)
    <3> SUFFICES ASSUME NEW k \in 1 .. n PROVE Get(r, o, k - 1) = Get(s, p, k - 1)
      OBVIOUS
    <3> DEFINE i == k - 1
    <3>1. i \in 0 .. n - 1
      BY ONLY <1>1, k \in 1 .. n
    <3> HIDE DEF i
    <3>2. Get(r, o, i) = r.memory[r.arrays[o].data][i]
      BY ONLY <1>15, <1>17, <3>1, GetIs
    <3>3. Get(r, o, i) = Get(s, p, i)
      BY ONLY <1>9, <1>10, <1>15, <3>1, <3>2
    <3> QED BY ONLY <3>3 DEF i
  <2> QED BY ONLY <1>17, <2>1 DEF Val
<1>19. Lost(r) = Lost(s) \cup Left(s, o)
  <2> DEFINE X == {s.arrays[q].data : q \in DOMAIN s.arrays \ {o}}
             W == {s.arrays[q].data : q \in DOMAIN s.arrays}
             Y == {r.arrays[q].data : q \in DOMAIN r.arrays}
             L == Left(s, o)
  <2>1. Y = X \cup {b}
    <3>1. \A q \in DOMAIN s.arrays \ {o} : r.arrays[q].data = s.arrays[q].data
      BY ONLY <1>15
    <3>2. DOMAIN r.arrays = (DOMAIN s.arrays \ {o}) \cup {o} /\ r.arrays[o].data = b
      BY ONLY <1>10, <1>15
    <3> QED BY ONLY <3>1, <3>2
  <2>2. W \cap DOMAIN s.memory = (X \cap DOMAIN s.memory) \cup L
    BY DEF Left
  <2>3. L \cap X = {} /\ L \subseteq DOMAIN s.memory
    <3>1. ASSUME NEW e \in L PROVE e \notin X /\ e \in DOMAIN s.memory
      <4>1. o \in DOMAIN s.arrays /\ e = s.arrays[o].data /\ e \in DOMAIN s.memory
        BY ONLY <3>1 DEF Left
      <4>2. e # Null
        BY <4>1, FreeType DEF Good
      <4>3. e \notin X
        BY <4>1, <4>2 DEF Good
      <4> QED BY ONLY <4>1, <4>3
    <3> QED BY ONLY <3>1
  <2>4. Lost(s) = DOMAIN s.memory \ W /\ Lost(r) = DOMAIN r.memory \ Y
    BY ONLY DEF Lost
  <2>5. DOMAIN r.memory = DOMAIN s.memory \cup {b}
    BY ONLY <1>15
  <2> HIDE DEF X, Y, W, L
  <2>6. Lost(r) = Lost(s) \cup L
    <3>1. ASSUME NEW e PROVE e \in Lost(r) <=> e \in Lost(s) \cup L
      <4>1. e = b => e \notin DOMAIN s.memory
        BY ONLY <1>2
      <4> QED BY ONLY <2>1, <2>2, <2>3, <2>4, <2>5, <4>1
    <3> QED BY ONLY <3>1
  <2> QED BY ONLY <2>6 DEF L
<1>20. \E d : DOMAIN r.memory \subseteq DOMAIN s.memory \cup {d}
  BY ONLY <1>15
<1> QED BY ONLY <1>15, <1>16, <1>18, <1>19, <1>20 DEF Takes, r

\* o is v now, and nothing else has changed.
Yields(s, r, o, v) ==
  /\ Good(r) /\ Kept(s, r, o) /\ DOMAIN r.arrays = DOMAIN s.arrays \cup {o}
  /\ Val(r, o) = v /\ Lost(r) = Lost(s)

LEMMA BecomesYields ==
  ASSUME NEW s, NEW r, NEW o, NEW v, Becomes(s, r, o, v)
  PROVE  Yields(s, r, o, v)
<1>1. Good(r) /\ Others(s, r, o) /\ Val(r, o) = v
  BY DEF Becomes
<1>2. Kept(s, r, o)
  BY ONLY <1>1, OthersKept
<1> QED BY ONLY <1>1, <1>2 DEF Others, Yields

\* A new object has no buffer to lose.
LEMMA TakesYields ==
  ASSUME NEW s, NEW r, NEW o, NEW v, Takes(s, r, o, v), o \notin DOMAIN s.arrays
  PROVE  Yields(s, r, o, v)
<1>1. Left(s, o) = {}
  BY DEF Left
<1> QED BY <1>1 DEF Takes, Yields

LEMMA YieldsTwice ==
  ASSUME NEW s, NEW t, NEW r, NEW o, NEW v, NEW w, Yields(s, t, o, v), Yields(t, r, o, w)
  PROVE  Yields(s, r, o, w)
<1>1. /\ Kept(s, t, o) /\ DOMAIN t.arrays = DOMAIN s.arrays \cup {o} /\ Lost(t) = Lost(s)
      /\ Kept(t, r, o) /\ DOMAIN r.arrays = DOMAIN t.arrays \cup {o} /\ Lost(r) = Lost(t)
      /\ Good(r) /\ Val(r, o) = w
  BY DEF Yields
<1>2. Kept(s, r, o)
  <2> SUFFICES ASSUME NEW p \in DOMAIN s.arrays \ {o}
               PROVE  /\ p \in DOMAIN r.arrays /\ r.arrays[p] = s.arrays[p]
                      /\ s.arrays[p].data # Null => r.memory[s.arrays[p].data] = s.memory[s.arrays[p].data]
    BY DEF Kept
  <2>1. /\ p \in DOMAIN t.arrays /\ t.arrays[p] = s.arrays[p]
        /\ s.arrays[p].data # Null => t.memory[s.arrays[p].data] = s.memory[s.arrays[p].data]
    BY ONLY <1>1, p \in DOMAIN s.arrays \ {o} DEF Kept
  <2>2. /\ p \in DOMAIN r.arrays /\ r.arrays[p] = t.arrays[p]
        /\ t.arrays[p].data # Null => r.memory[t.arrays[p].data] = t.memory[t.arrays[p].data]
    BY ONLY <1>1, <2>1, p \in DOMAIN s.arrays \ {o} DEF Kept
  <2> QED BY ONLY <2>1, <2>2
<1> QED BY ONLY <1>1, <1>2 DEF Yields

\* The items of an array in place of those that were moved out of the way.
LEMMA TwoShifts ==
  ASSUME NEW v, NEW w, NEW z \in Nat, NEW n \in Nat, NEW i \in 0 .. z, Len(v) = z, Len(w) = n,
         NEW u, u = Resized(v, z + n), Len(u) = z + n,
         NEW x, x = Shifted(u, u, i + n, z + n - 1, -n), Len(x) = z + n
  PROVE  Shifted(x, w, i, i + n - 1, -i) = Spliced(v, w, i)
<1> DEFINE y == Shifted(x, w, i, i + n - 1, -i)
<1>1. y = [k \in 1 .. z + n |-> IF k - 1 \in i .. i + n - 1 THEN w[k + (-i)] ELSE x[k]]
  BY DEF Shifted
<1>2. x = [k \in 1 .. z + n |-> IF k - 1 \in i + n .. z + n - 1 THEN u[k + (-n)] ELSE u[k]]
  BY DEF Shifted
<1>3. u = [k \in 1 .. z + n |-> IF k <= z THEN v[k] ELSE Default]
  BY DEF Resized
<1>4. Spliced(v, w, i) = [k \in 1 .. z + n |-> IF k <= i THEN v[k]
                            ELSE IF k <= i + n THEN w[k - i] ELSE v[k - n]]
  BY DEF Spliced
<1>5. ASSUME NEW k \in 1 .. z + n
      PROVE  (IF k - 1 \in i .. i + n - 1 THEN w[k + (-i)] ELSE x[k])
               = IF k <= i THEN v[k] ELSE IF k <= i + n THEN w[k - i] ELSE v[k - n]
  <2>1. CASE k <= i
    <3>1. ~ (k - 1 \in i .. i + n - 1) /\ ~ (k - 1 \in i + n .. z + n - 1) /\ k <= z
      BY ONLY <2>1, k \in 1 .. z + n, z \in Nat, n \in Nat, i \in 0 .. z
    <3>2. x[k] = u[k]
      BY ONLY <1>2, <3>1, k \in 1 .. z + n
    <3>3. u[k] = v[k]
      BY ONLY <1>3, <3>1, k \in 1 .. z + n
    <3> QED BY ONLY <2>1, <3>1, <3>2, <3>3
  <2>2. CASE k > i /\ k <= i + n
    <3>1. k - 1 \in i .. i + n - 1 /\ ~ (k <= i) /\ k + (-i) = k - i
      BY ONLY <2>2, k \in 1 .. z + n, z \in Nat, n \in Nat, i \in 0 .. z
    <3> QED BY ONLY <2>2, <3>1
  <2>3. CASE k > i + n
    <3> DEFINE j == k - n
    <3>1. /\ ~ (k - 1 \in i .. i + n - 1) /\ k - 1 \in i + n .. z + n - 1 /\ ~ (k <= i)
          /\ ~ (k <= i + n) /\ k + (-n) = j /\ j \in 1 .. z + n /\ j <= z
      BY ONLY <2>3, k \in 1 .. z + n, z \in Nat, n \in Nat, i \in 0 .. z
    <3> HIDE DEF j
    <3>2. x[k] = u[j]
      BY ONLY <1>2, <3>1, k \in 1 .. z + n
    <3>3. u[j] = v[j]
      BY ONLY <1>3, <3>1
    <3>4. x[k] = v[j]
      BY ONLY <3>2, <3>3
    <3>5. (IF k - 1 \in i .. i + n - 1 THEN w[k + (-i)] ELSE x[k]) = x[k]
      BY ONLY <3>1
    <3>6. (IF k <= i THEN v[k] ELSE IF k <= i + n THEN w[k - i] ELSE v[k - n]) = v[j]
      BY ONLY <3>1 DEF j
    <3> QED BY ONLY <3>4, <3>5, <3>6
  <2> QED BY ONLY <2>1, <2>2, <2>3, k \in 1 .. z + n, z \in Nat, n \in Nat, i \in 0 .. z
<1> HIDE DEF y
<1> QED BY ONLY <1>1, <1>4, <1>5 DEF y

\* The steps of insert(Array): a copy for the call, the changes to o, and the
\* end of the copy.
LEMMA CallWithCopy ==
  ASSUME NEW s, Good(s), Parameter \notin DOMAIN s.arrays, NEW o \in DOMAIN s.arrays,
         NEW t, NEW u, NEW w, Takes(s, t, Parameter, w),
         NEW v, Kept(t, u, o), Good(u), DOMAIN u.arrays = DOMAIN t.arrays, Lost(u) = Lost(t), Val(u, o) = v
  PROVE  Yields(s, Destruct(u, Parameter), o, v)
<1> DEFINE r == Destruct(u, Parameter)
<1>1. /\ Good(t) /\ Kept(s, t, Parameter) /\ DOMAIN t.arrays = DOMAIN s.arrays \cup {Parameter}
      /\ Lost(t) = Lost(s)
  <2>1. Left(s, Parameter) = {}
    BY DEF Left
  <2> QED BY <2>1 DEF Takes
<1>2. Parameter \in DOMAIN u.arrays /\ o \in DOMAIN u.arrays /\ o # Parameter
  BY <1>1
<1>3. Leaves(u, r, Parameter)
  BY ONLY <1>2, Good(u), DestructIs
<1> HIDE DEF r
<1>4. /\ Good(r) /\ Kept(u, r, Parameter) /\ DOMAIN r.arrays = DOMAIN u.arrays \ {Parameter}
      /\ Lost(r) = Lost(u)
  BY ONLY <1>3 DEF Leaves
<1>5. DOMAIN r.arrays = DOMAIN s.arrays \cup {o}
  BY <1>1, <1>4
<1>6. Lost(r) = Lost(s)
  BY <1>1, <1>4
<1>7. Val(r, o) = v
  BY ONLY <1>2, <1>4, Good(u), KeptValue, Val(u, o) = v
<1>8. Kept(s, r, o)
  <2> SUFFICES ASSUME NEW p \in DOMAIN s.arrays \ {o}
               PROVE  /\ p \in DOMAIN r.arrays /\ r.arrays[p] = s.arrays[p]
                      /\ s.arrays[p].data # Null => r.memory[s.arrays[p].data] = s.memory[s.arrays[p].data]
    BY DEF Kept
  <2>1. p # Parameter /\ p # o /\ p \in DOMAIN s.arrays
    OBVIOUS
  <2>2. /\ p \in DOMAIN t.arrays /\ t.arrays[p] = s.arrays[p]
        /\ s.arrays[p].data # Null => t.memory[s.arrays[p].data] = s.memory[s.arrays[p].data]
    BY ONLY <1>1, <2>1 DEF Kept
  <2>3. /\ p \in DOMAIN u.arrays /\ u.arrays[p] = t.arrays[p]
        /\ t.arrays[p].data # Null => u.memory[t.arrays[p].data] = t.memory[t.arrays[p].data]
    BY ONLY <2>1, <2>2, Kept(t, u, o) DEF Kept
  <2>4. /\ p \in DOMAIN r.arrays /\ r.arrays[p] = u.arrays[p]
        /\ u.arrays[p].data # Null => r.memory[u.arrays[p].data] = u.memory[u.arrays[p].data]
    BY ONLY <1>4, <2>1, <2>3 DEF Kept
  <2> QED BY ONLY <2>2, <2>3, <2>4
<1> QED BY ONLY <1>4, <1>5, <1>6, <1>7, <1>8 DEF Yields, r

LEMMA InsertAll ==
  ASSUME NEW s, Good(s), DOMAIN s.arrays \subseteq Names, NEW o \in DOMAIN s.arrays, NEW p \in DOMAIN s.arrays,
         NEW index \in 0 .. Size(s, o), Free(s) >= 2
  PROVE  Yields(s, insertAll(s, o, p, index), o, Spliced(Val(s, o), Val(s, p), index))
<1> DEFINE z == Size(s, o)
           n == Size(s, p)
           v == Val(s, o)
           w == Val(s, p)
           t == Copy(s, Parameter, p)
           room == resize(t, o, z + n)
           b == room.arrays[o].data
           down == Down(z + n - 1, index + n)
           up == Up(index, index + n - 1)
           moved == Move(room, b, b, -n, down)
           filled == Move(moved, b, moved.arrays[Parameter].data, -index, up)
           r == Destruct(filled, Parameter)
           u == Resized(v, z + n)
           x == Shifted(u, u, index + n, z + n - 1, -n)
           y == Shifted(x, w, index, index + n - 1, -index)
<1>1. insertAll(s, o, p, index) = r
  BY DEF insertAll
<1>2. z \in Nat /\ n \in Nat /\ index \in Nat /\ index <= z /\ z + n \in Nat
  <2>1. z \in Nat /\ n \in Nat
    BY SizeType
  <2>2. index \in 0 .. z
    OBVIOUS
  <2> HIDE DEF n, z
  <2> QED BY ONLY <2>1, <2>2
<1>3. v \in Seq(Items) /\ Len(v) = z /\ w \in Seq(Items) /\ Len(w) = n
  BY ONLY Good(s), o \in DOMAIN s.arrays, p \in DOMAIN s.arrays, ValIs, ValLen
<1>4. Parameter \notin DOMAIN s.arrays /\ o # Parameter /\ p # Parameter
  BY ContainersAssumption
<1>5. Free(s) >= 1 /\ Free(s) >= 1 + 1
  <2>1. Free(s) \in Nat
    BY ONLY FreeType
  <2> QED BY ONLY <2>1, Free(s) >= 2
<1>6. Takes(s, t, Parameter, w)
  BY ONLY <1>4, <1>5, Good(s), p \in DOMAIN s.arrays, Parameter \in Names \cup {Parameter}, CopyIs
<1> HIDE DEF t
<1>7. /\ Good(t) /\ Kept(s, t, Parameter) /\ DOMAIN t.arrays = DOMAIN s.arrays \cup {Parameter}
      /\ Val(t, Parameter) = w /\ \E c : DOMAIN t.memory \subseteq DOMAIN s.memory \cup {c}
  BY ONLY <1>6 DEF Takes
<1>8. Free(t) >= 1
  <2> DEFINE one == 1
  <2>1. Free(s) >= one + 1 /\ one \in Nat
    BY ONLY <1>5
  <2> HIDE DEF one
  <2>2. Free(t) >= one
    BY ONLY <1>7, <2>1, FreeOfRoom
  <2> QED BY ONLY <2>2 DEF one
<1>9. o \in DOMAIN t.arrays /\ Val(t, o) = v
  BY ONLY <1>4, <1>7, Good(s), o \in DOMAIN s.arrays, KeptValue
<1>10. Becomes(t, room, o, u)
  <2> DEFINE m == z + n
  <2>1. m \in Nat
    BY ONLY <1>2
  <2> HIDE DEF m, v
  <2>2. Becomes(t, resize(t, o, m), o, Resized(Val(t, o), m))
    BY ONLY <1>7, <1>8, <1>9, <2>1, Resize
  <2> QED BY ONLY <2>2, <1>9 DEF m
<1> HIDE DEF room
<1>11. Good(room) /\ Others(t, room, o) /\ o \in DOMAIN room.arrays /\ Val(room, o) = u
  BY ONLY <1>10 DEF Becomes
<1>12. Parameter \in DOMAIN room.arrays /\ Val(room, Parameter) = w
  <2>1. Kept(t, room, o)
    BY ONLY <1>11, OthersKept
  <2>2. Parameter \in DOMAIN t.arrays /\ Parameter # o
    BY ONLY <1>4, <1>7
  <2>3. Parameter \in DOMAIN room.arrays /\ Val(room, Parameter) = Val(t, Parameter)
    BY ONLY <1>7, <1>11, <2>1, <2>2, KeptValue
  <2> QED BY ONLY <1>7, <2>3
<1>13. Len(u) = z + n
  <2>1. u \in Seq(Items)
    BY ONLY <1>11, ValIs
  <2>2. DOMAIN u = 1 .. z + n
    BY DEF Resized
  <2> HIDE DEF u, z, n
  <2> QED BY ONLY <1>2, <2>1, <2>2
<1>14. Size(room, o) = z + n
  BY ONLY <1>11, <1>13, ValLen
<1> HIDE DEF v, w, u, z, n
<1>15. /\ down \in Seq(Int) /\ {down[k] : k \in DOMAIN down} = index + n .. z + n - 1
       /\ \A k \in DOMAIN down : down[k] = (z + n - 1) - k + 1 /\ k \in Int
       /\ index + n > z + n - 1 => down = <<>>
  <2>1. z + n - 1 \in Int /\ index + n \in Int
    BY ONLY <1>2
  <2>2. /\ down \in Seq(Int) /\ DOMAIN down = 1 .. (z + n - 1) - (index + n) + 1
        /\ {down[k] : k \in DOMAIN down} = index + n .. z + n - 1
        /\ \A k \in DOMAIN down : down[k] = (z + n - 1) - k + 1
        /\ index + n > z + n - 1 => down = <<>>
    BY ONLY <2>1, DownIs
  <2> HIDE DEF down
  <2> QED BY ONLY <2>2
<1>16. Movable(room, o, o, index + n, z + n - 1, -n, down)
  <2>1. \A i \in index + n .. z + n - 1 : i \in 0 .. Size(room, o) - 1 /\ i + (-n) \in 0 .. Size(room, o) - 1
    BY ONLY <1>2, <1>14
  <2>2. \A j, k \in DOMAIN down : j < k => down[k] + (-n) # down[j]
    <3> SUFFICES ASSUME NEW j \in DOMAIN down, NEW k \in DOMAIN down, j < k PROVE down[k] + (-n) # down[j]
      OBVIOUS
    <3>1. down[j] = (z + n - 1) - j + 1 /\ down[k] = (z + n - 1) - k + 1 /\ j \in Int /\ k \in Int
      BY ONLY <1>15, j \in DOMAIN down, k \in DOMAIN down
    <3> HIDE DEF down
    <3> QED BY ONLY <1>2, <3>1, j < k
  <2> HIDE DEF down
  <2> QED BY ONLY <1>15, <2>1, <2>2 DEF Movable
<1> HIDE DEF down
<1>17. Turns(room, moved, o, x)
  <2>1. index + n \in Int /\ z + n - 1 \in Int /\ -n \in Int /\ down \in Seq(Int)
    BY ONLY <1>2, <1>15
  <2>2. Turns(room, moved, o, Shifted(Val(room, o), Val(room, o), index + n, z + n - 1, -n))
    BY ONLY <1>11, <1>16, <2>1, Shift
  <2> QED BY ONLY <1>11, <2>2
<1> HIDE DEF moved
<1>18. Good(moved) /\ Others(room, moved, o) /\ o \in DOMAIN moved.arrays /\ Val(moved, o) = x
       /\ moved.arrays[o].data = b
  BY ONLY <1>17 DEF Turns
<1>19. Len(x) = z + n
  <2>1. x \in Seq(Items)
    BY ONLY <1>18, ValIs
  <2>2. DOMAIN x = 1 .. z + n
    BY ONLY <1>13 DEF Shifted
  <2> HIDE DEF x
  <2> QED BY ONLY <1>2, <2>1, <2>2
<1>20. Size(moved, o) = z + n
  BY ONLY <1>18, <1>19, ValLen
<1>21. Parameter \in DOMAIN moved.arrays /\ Val(moved, Parameter) = w
  <2>1. Kept(room, moved, o)
    BY ONLY <1>18, OthersKept
  <2>2. Parameter \in DOMAIN moved.arrays /\ Val(moved, Parameter) = Val(room, Parameter)
    BY ONLY <1>4, <1>11, <1>12, <1>18, <2>1, KeptValue
  <2> QED BY ONLY <1>12, <2>2
<1>22. Size(moved, Parameter) = n
  BY ONLY <1>3, <1>18, <1>21, ValLen
<1>23. /\ up \in Seq(Int) /\ {up[k] : k \in DOMAIN up} = index .. index + n - 1
       /\ index > index + n - 1 => up = <<>>
  <2>1. index \in Int /\ index + n - 1 \in Int
    BY ONLY <1>2
  <2> QED BY ONLY <2>1, UpIs
<1> HIDE DEF up
<1>24. Movable(moved, o, Parameter, index, index + n - 1, -index, up)
  <2>1. \A i \in index .. index + n - 1 : i \in 0 .. Size(moved, o) - 1 /\ i + (-index) \in 0 .. Size(moved, Parameter) - 1
    BY ONLY <1>2, <1>20, <1>22
  <2> QED BY ONLY <1>4, <1>23, <2>1 DEF Movable
<1>25. Turns(moved, filled, o, y)
  <2>1. index \in Int /\ index + n - 1 \in Int /\ -index \in Int /\ up \in Seq(Int)
    BY ONLY <1>2, <1>23
  <2> HIDE DEF x
  <2>2. Turns(moved, Move(moved, moved.arrays[o].data, moved.arrays[Parameter].data, -index, up), o,
              Shifted(Val(moved, o), Val(moved, Parameter), index, index + n - 1, -index))
    BY ONLY <1>18, <1>21, <1>24, <2>1, Shift
  <2> HIDE DEF b
  <2> QED BY ONLY <1>18, <1>21, <2>2
<1> HIDE DEF filled
<1>26. y = Spliced(v, w, index)
  <2>1. u = Resized(v, z + n) /\ x = Shifted(u, u, index + n, z + n - 1, -n) /\ index \in 0 .. z
    BY ONLY <1>2 DEF u
  <2> HIDE DEF x
  <2> QED BY ONLY <1>2, <1>3, <1>13, <1>19, <2>1, TwoShifts
<1> HIDE DEF y
<1>27. Becomes(t, filled, o, y)
  <2>1. Turns(room, filled, o, y)
    BY ONLY <1>17, <1>25, TurnsTwice
  <2> QED BY ONLY <1>10, <2>1, BecomesThenTurns
<1>28. Good(filled) /\ Others(t, filled, o) /\ Val(filled, o) = y
  BY ONLY <1>27 DEF Becomes
<1>29. /\ Kept(t, filled, o) /\ Good(filled) /\ DOMAIN filled.arrays = DOMAIN t.arrays
       /\ Lost(filled) = Lost(t) /\ Val(filled, o) = y
  <2>1. Kept(t, filled, o)
    BY ONLY <1>28, OthersKept
  <2> QED BY ONLY <1>9, <1>28, <2>1 DEF Others
<1> HIDE DEF r
<1>30. Yields(s, r, o, y)
  BY ONLY <1>4, <1>6, <1>29, Good(s), o \in DOMAIN s.arrays, CallWithCopy DEF r
<1> QED BY ONLY <1>1, <1>26, <1>30 DEF v, w

LEMMA SpliceAllAtEnd ==
  ASSUME NEW S, NEW v \in Seq(S), NEW w \in Seq(S)
  PROVE  Spliced(v, w, Len(v)) = v \o w
<1> DEFINE a == Len(v)
           n == Len(w)
           x == v \o w
<1>1. a \in Nat /\ n \in Nat /\ x \in Seq(S) /\ Len(x) = a + n
  OBVIOUS
<1>2. \A k \in 1 .. a + n : x[k] = IF k <= a THEN v[k] ELSE w[k - a]
  BY ConcatProperties
<1>3. x = [k \in 1 .. a + n |-> x[k]]
  <2> HIDE DEF x, a, n
  <2> QED BY ONLY <1>1
<1>4. Spliced(v, w, a) = [k \in 1 .. a + n |-> IF k <= a THEN v[k]
                            ELSE IF k <= a + n THEN w[k - a] ELSE v[k - n]]
  BY ONLY DEF Spliced
<1> HIDE DEF x, a, n
<1>5. Spliced(v, w, a) = x
  BY ONLY <1>2, <1>3, <1>4
<1> QED BY ONLY <1>5 DEF x, a

\* operator+: a copy of the first, and the second inserted at its end.
LEMMA PlusIs ==
  ASSUME NEW s, Good(s), DOMAIN s.arrays \subseteq Names, NEW r \in Names, r \notin DOMAIN s.arrays,
         NEW o \in DOMAIN s.arrays, NEW p \in DOMAIN s.arrays, Free(s) >= 3
  PROVE  Yields(s, Plus(s, r, o, p), r, Val(s, o) \o Val(s, p))
<1> DEFINE t == Copy(s, r, o)
           v == Val(s, o)
           w == Val(s, p)
           z == Size(s, o)
<1>1. Plus(s, r, o, p) = insertAll(t, r, p, z)
  BY ONLY DEF Plus
<1>2. v \in Seq(Items) /\ Len(v) = z /\ w \in Seq(Items)
  BY ONLY Good(s), o \in DOMAIN s.arrays, p \in DOMAIN s.arrays, ValIs, ValLen
<1>3. r # o /\ r # p /\ r \in Names \cup {Parameter}
  OBVIOUS
<1>4. Free(s) >= 1 /\ Free(s) >= 2 + 1
  <2>1. Free(s) \in Nat
    BY ONLY FreeType
  <2> QED BY ONLY <2>1, Free(s) >= 3
<1>5. Takes(s, t, r, v)
  BY ONLY <1>3, <1>4, Good(s), o \in DOMAIN s.arrays, CopyIs
<1> HIDE DEF t
<1>6. /\ Good(t) /\ Kept(s, t, r) /\ DOMAIN t.arrays = DOMAIN s.arrays \cup {r}
      /\ Val(t, r) = v /\ \E c : DOMAIN t.memory \subseteq DOMAIN s.memory \cup {c}
  BY ONLY <1>5 DEF Takes
<1>7. Free(t) >= 2
  <2> DEFINE two == 2
  <2>1. Free(s) >= two + 1 /\ two \in Nat
    BY ONLY <1>4
  <2> HIDE DEF two
  <2>2. Free(t) >= two
    BY ONLY <1>6, <2>1, FreeOfRoom
  <2> QED BY ONLY <2>2 DEF two
<1>8. p \in DOMAIN t.arrays /\ Val(t, p) = w
  BY ONLY <1>3, <1>6, Good(s), p \in DOMAIN s.arrays, KeptValue
<1>9. r \in DOMAIN t.arrays /\ DOMAIN t.arrays \subseteq Names
  BY <1>6
<1>10. Size(t, r) = z /\ z \in 0 .. Size(t, r)
  <2>1. Len(Val(t, r)) = Size(t, r)
    BY ONLY <1>6, <1>9, ValLen
  <2>2. z \in Nat
    BY ONLY Good(s), o \in DOMAIN s.arrays, SizeType
  <2>3. Size(t, r) = z
    BY ONLY <1>2, <1>6, <2>1
  <2> HIDE DEF z
  <2> QED BY ONLY <2>2, <2>3
<1> HIDE DEF v, w, z
<1>11. Yields(t, insertAll(t, r, p, z), r, Spliced(Val(t, r), Val(t, p), z))
  BY ONLY <1>6, <1>7, <1>8, <1>9, <1>10, InsertAll
<1>12. Spliced(v, w, z) = v \o w
  BY ONLY <1>2, SpliceAllAtEnd
<1>13. Yields(t, insertAll(t, r, p, z), r, v \o w)
  BY ONLY <1>6, <1>8, <1>11, <1>12
<1>14. Yields(s, t, r, v)
  BY ONLY <1>5, r \notin DOMAIN s.arrays, TakesYields
<1>15. Yields(s, insertAll(t, r, p, z), r, v \o w)
  BY ONLY <1>13, <1>14, YieldsTwice
<1> QED BY ONLY <1>1, <1>15 DEF v, w

-----------------------------------------------------------------------------
(* A string made of a text: its items one by one, in room that is there.   *)

PushAll(s, o, text) == FoldLeft(LAMBDA t, c : push(t, o, c), s, text)

Rounds(f, s, o, text) ==
  /\ f[0] = s
  /\ \A k \in 0 .. Len(text) - 1 : f[k + 1] = push(f[k], o, text[k + 1])

LEMMA MaxIs ==
  ASSUME NEW n \in Nat, NEW S \in SUBSET (1 .. n), NEW m \in S, \A k \in S : k <= m
  PROVE  Max(S) = m
<1>1. Max(S) \in S /\ Max(S) \in 1 .. n /\ \A k \in S : k <= Max(S)
  BY MaxOf
<1> QED BY <1>1

LEMMA PushAllIs ==
  ASSUME NEW s, NEW o, NEW text \in Seq(Items)
  PROVE  \E f : Rounds(f, s, o, text) /\ PushAll(s, o, text) = f[Len(text)]
<1> DEFINE n == Len(text)
           Round(t, c) == push(t, o, c)
           Solves(f) == f = [S \in SUBSET DOMAIN text |->
                               IF S = {} THEN s ELSE Round(f[S \ {Max(S)}], text[Max(S)])]
           Upto(f, k) == f = [S \in SUBSET (1 .. k) |->
                               IF S = {} THEN s ELSE Round(f[S \ {Max(S)}], text[Max(S)])]
           P == {k \in 0 .. n : \E f : Upto(f, k)}
<1>1. n \in Nat /\ DOMAIN text = 1 .. n
  OBVIOUS
<1>2. 0 \in P
  <2> DEFINE f == [S \in SUBSET (1 .. 0) |-> s]
  <2>1. \A S \in SUBSET (1 .. 0) : S = {}
    OBVIOUS
  <2>2. Upto(f, 0)
    <3> HIDE DEF Round
    <3> QED BY ONLY <2>1
  <2>3. 0 \in 0 .. n
    BY ONLY <1>1
  <2> HIDE DEF Upto
  <2> QED BY <2>2, <2>3
<1>3. ASSUME NEW k \in 0 .. n - 1, k \in P PROVE k + 1 \in P
  <2>1. PICK f : Upto(f, k)
    <3> HIDE DEF Upto
    <3> QED BY <1>3
  <2> DEFINE m == k + 1
             g == [S \in SUBSET (1 .. m) |-> IF m \in S THEN Round(f[S \ {m}], text[m]) ELSE f[S]]
  <2>2. k \in Nat /\ m \in Nat /\ m \in 0 .. n /\ k < m
    BY ONLY <1>1, k \in 0 .. n - 1
  <2>3. ASSUME NEW S \in SUBSET (1 .. m)
        PROVE  g[S] = IF S = {} THEN s ELSE Round(g[S \ {Max(S)}], text[Max(S)])
    <3>1. CASE m \in S
      <4>1. \A j \in S : j <= m
        BY ONLY S \in SUBSET (1 .. m), <2>2
      <4>2. Max(S) = m
        <5> HIDE DEF m
        <5> QED BY ONLY <3>1, <4>1, <2>2, S \in SUBSET (1 .. m), MaxIs
      <4>3. S \ {m} \in SUBSET (1 .. m) /\ m \notin S \ {m} /\ S # {}
        BY ONLY <3>1, S \in SUBSET (1 .. m)
      <4>4. g[S \ {m}] = f[S \ {m}]
        <5> HIDE DEF Round, m
        <5> QED BY ONLY <4>3
      <4>5. g[S] = Round(f[S \ {m}], text[m])
        <5> HIDE DEF Round, m
        <5> QED BY ONLY <3>1, S \in SUBSET (1 .. m)
      <4> HIDE DEF Round, m, g
      <4> QED BY ONLY <4>2, <4>3, <4>4, <4>5
    <3>2. CASE m \notin S
      <4>1. S \in SUBSET (1 .. k)
        BY ONLY S \in SUBSET (1 .. m), <2>2, <3>2
      <4>2. g[S] = f[S]
        <5> HIDE DEF Round, m
        <5> QED BY ONLY <3>2, S \in SUBSET (1 .. m)
      <4>3. f[S] = IF S = {} THEN s ELSE Round(f[S \ {Max(S)}], text[Max(S)])
        <5> HIDE DEF Round, m
        <5> QED BY ONLY <2>1, <4>1
      <4>4. S # {} => g[S \ {Max(S)}] = f[S \ {Max(S)}]
        <5>1. S \ {Max(S)} \in SUBSET (1 .. m) /\ m \notin S \ {Max(S)}
          BY ONLY <3>2, S \in SUBSET (1 .. m)
        <5> HIDE DEF Round, m
        <5> QED BY ONLY <5>1
      <4> HIDE DEF Round, m, g
      <4> QED BY ONLY <4>2, <4>3, <4>4
    <3> QED BY ONLY <3>1, <3>2
  <2>4. Upto(g, m)
    <3>1. g = [S \in SUBSET (1 .. m) |-> g[S]]
      <4> HIDE DEF Round, m
      <4> QED OBVIOUS
    <3> HIDE DEF Round, m, g
    <3> QED BY ONLY <2>3, <3>1
  <2> HIDE DEF Upto, g
  <2> QED BY ONLY <2>2, <2>4 DEF P
<1>4. n \in P
  <2> HIDE DEF P
  <2> QED BY ONLY <1>1, <1>2, <1>3, UpTo
<1>5. \E f : Solves(f)
  <2>1. PICK f : Upto(f, n)
    <3> HIDE DEF Upto
    <3> QED BY ONLY <1>4 DEF P
  <2>2. Solves(f)
    <3> HIDE DEF Round
    <3> QED BY ONLY <1>1, <2>1
  <2> HIDE DEF Solves
  <2> QED BY ONLY <2>2
<1> DEFINE iter == CHOOSE f : Solves(f)
<1>6. Solves(iter)
  <2> HIDE DEF Solves
  <2> QED BY ONLY <1>5
<1>7. \A S \in SUBSET DOMAIN text :
        iter[S] = IF S = {} THEN s ELSE Round(iter[S \ {Max(S)}], text[Max(S)])
  <2> HIDE DEF Round, iter
  <2> QED BY ONLY <1>6
<1>8. PushAll(s, o, text) = iter[DOMAIN text]
  BY DEF PushAll, FoldLeft, MapThenFoldSet
<1> DEFINE f == [k \in 0 .. n |-> iter[1 .. k]]
<1> HIDE DEF iter, Round
<1>9. f[0] = s
  <2>1. 1 .. 0 = {} /\ {} \in SUBSET DOMAIN text /\ 0 \in 0 .. n
    BY ONLY <1>1
  <2> QED BY ONLY <1>7, <2>1
<1>10. ASSUME NEW k \in 0 .. n - 1 PROVE f[k + 1] = Round(f[k], text[k + 1])
  <2>1. 1 .. k + 1 \in SUBSET DOMAIN text /\ 1 .. k + 1 # {} /\ k \in 0 .. n /\ k + 1 \in 0 .. n
    <3> DEFINE m == n
    <3>1. m \in Nat /\ k \in 0 .. m - 1 /\ DOMAIN text = 1 .. m
      BY ONLY <1>1, k \in 0 .. n - 1
    <3> HIDE DEF m
    <3>2. k \in 0 .. m /\ k + 1 \in 0 .. m /\ 1 \in 1 .. k + 1
      BY ONLY <3>1
    <3>3. 1 .. k + 1 \subseteq 1 .. m
      BY ONLY <3>1
    <3> QED BY ONLY <3>1, <3>2, <3>3 DEF m
  <2>2. Max(1 .. k + 1) = k + 1
    <3> DEFINE S == 1 .. k + 1
               m == k + 1
    <3>1. S \in SUBSET (1 .. n) /\ m \in S /\ (\A j \in S : j <= m) /\ n \in Nat
      BY ONLY <1>1, k \in 0 .. n - 1
    <3> HIDE DEF S, m
    <3>2. Max(S) = m
      BY ONLY <3>1, MaxIs
    <3> QED BY ONLY <3>2 DEF S, m
  <2>3. (1 .. k + 1) \ {k + 1} = 1 .. k
    BY ONLY <1>1, k \in 0 .. n - 1
  <2>4. iter[1 .. k + 1] = Round(iter[1 .. k], text[k + 1])
    BY ONLY <1>7, <2>1, <2>2, <2>3
  <2> QED BY ONLY <2>1, <2>4
<1>11. PushAll(s, o, text) = f[n]
  <2>1. n \in 0 .. n
    BY ONLY <1>1
  <2> QED BY ONLY <1>1, <1>8, <2>1
<1> HIDE DEF f
<1>12. Rounds(f, s, o, text)
  BY ONLY <1>9, <1>10 DEF Rounds, Round, n
<1> QED BY ONLY <1>11, <1>12 DEF n

LEMMA TextPrefix ==
  ASSUME NEW S, NEW text \in Seq(S), NEW k \in 0 .. Len(text) - 1
  PROVE  Append(SubSeq(text, 1, k), text[k + 1]) = SubSeq(text, 1, k + 1)
<1> DEFINE n == Len(text)
           a == SubSeq(text, 1, k)
           b == SubSeq(text, 1, k + 1)
           c == Append(a, text[k + 1])
<1>1. n \in Nat /\ k \in Nat /\ k + 1 <= n
  OBVIOUS
<1>2. a \in Seq(S) /\ Len(a) = k /\ \A j \in 1 .. k : a[j] = text[j]
  BY <1>1, SubSeqProperties
<1>3. b \in Seq(S) /\ Len(b) = k + 1 /\ \A j \in 1 .. k + 1 : b[j] = text[j]
  BY <1>1, SubSeqProperties
<1>4. text[k + 1] \in S
  BY <1>1
<1> HIDE DEF a, b
<1>5. c \in Seq(S) /\ Len(c) = k + 1 /\ (\A j \in 1 .. k : c[j] = a[j]) /\ c[k + 1] = text[k + 1]
  BY <1>1, <1>2, <1>4
<1>6. \A j \in 1 .. k + 1 : c[j] = b[j]
  BY <1>1, <1>2, <1>3, <1>5
<1> HIDE DEF c
<1>7. c = [j \in 1 .. k + 1 |-> c[j]] /\ b = [j \in 1 .. k + 1 |-> b[j]]
  BY ONLY <1>1, <1>3, <1>5
<1>8. c = b
  BY ONLY <1>6, <1>7
<1> QED BY ONLY <1>8 DEF a, b, c

LEMMA Pushes ==
  ASSUME NEW s, Good(s), NEW o \in DOMAIN s.arrays, Val(s, o) = <<>>, NEW text \in Seq(Items),
         Len(text) <= s.arrays[o].physical_size
  PROVE  Yields(s, PushAll(s, o, text), o, text)
<1> DEFINE n == Len(text)
           z == s.arrays[o].physical_size
<1>1. n \in Nat /\ z \in Nat /\ n <= z
  <2>1. n \in Nat
    BY ONLY text \in Seq(Items)
  <2>2. s.arrays[o].physical_size \in Nat
    BY ONLY Good(s), o \in DOMAIN s.arrays, GoodParts
  <2> QED BY ONLY <2>1, <2>2, Len(text) <= s.arrays[o].physical_size
<1>2. PICK f : Rounds(f, s, o, text) /\ PushAll(s, o, text) = f[n]
  BY PushAllIs
<1>3. f[0] = s /\ \A k \in 0 .. n - 1 : f[k + 1] = push(f[k], o, text[k + 1])
  BY <1>2 DEF Rounds
<1> DEFINE Q(k) == Yields(s, f[k], o, SubSeq(text, 1, k)) /\ Widens(s, f[k], o)
           P == {k \in 0 .. n : Q(k)}
<1>4. 0 \in P
  <2>1. SubSeq(text, 1, 0) = <<>>
    OBVIOUS
  <2>2. Yields(s, s, o, <<>>)
    <3>1. Turns(s, s, o, Val(s, o))
      BY StaysAsItIs
    <3>2. Kept(s, s, o)
      BY DEF Kept
    <3>3. DOMAIN s.arrays = DOMAIN s.arrays \cup {o}
      OBVIOUS
    <3> QED BY <3>2, <3>3 DEF Yields
  <2>3. Widens(s, s, o)
    BY <1>1 DEF Widens
  <2>4. 0 \in 0 .. n
    BY <1>1
  <2>5. Q(0)
    BY ONLY <1>3, <2>1, <2>2, <2>3
  <2> HIDE DEF Q
  <2> QED BY ONLY <2>4, <2>5 DEF P
<1>5. ASSUME NEW k \in 0 .. n - 1, k \in P PROVE k + 1 \in P
  <2> DEFINE t == f[k]
             item == text[k + 1]
             v == SubSeq(text, 1, k)
             r == push(t, o, item)
  <2>1. Yields(s, t, o, v) /\ Widens(s, t, o)
    BY <1>5
  <2>2. k \in Nat /\ k + 1 \in 0 .. n /\ k + 1 \in 1 .. n /\ k \in 0 .. n - 1
    BY <1>1
  <2>3. f[k + 1] = r
    BY <1>3
  <2>4. item \in Items
    BY <2>2
  <2>5. Len(v) = k
    BY <2>2, SubSeqProperties
  <2>6. Append(v, item) = SubSeq(text, 1, k + 1)
    BY <2>2, TextPrefix
  <2> HIDE DEF t, item, v, r, n, P, Q
  <2>7. Good(t) /\ Val(t, o) = v /\ o \in DOMAIN t.arrays
    BY ONLY <2>1 DEF Yields
  <2>8. Size(t, o) = k
    BY ONLY <2>5, <2>7, ValLen
  <2>9. Size(t, o) + 1 <= t.arrays[o].physical_size
    <3>1. t.arrays[o].physical_size \in Nat /\ s.arrays[o].physical_size <= t.arrays[o].physical_size
      BY ONLY <2>1 DEF Widens
    <3> QED BY ONLY <1>1, <2>2, <2>8, <3>1
  <2>10. Becomes(t, r, o, Append(v, item))
    <3>1. Becomes(t, push(t, o, item), o, Append(Val(t, o), item))
      BY ONLY <2>4, <2>7, <2>9, Push
    <3> QED BY ONLY <2>7, <3>1 DEF r
  <2>11. Yields(t, r, o, Append(v, item)) /\ Widens(t, r, o)
    <3>1. Yields(t, r, o, Append(v, item))
      BY ONLY <2>10, BecomesYields
    <3> QED BY ONLY <3>1, <2>10 DEF Becomes
  <2>12. Yields(s, r, o, Append(v, item))
    BY ONLY <2>1, <2>11, YieldsTwice
  <2>13. Widens(s, r, o)
    BY ONLY <2>1, <2>11, WidensTwice
  <2>14. Q(k + 1)
    BY ONLY <2>3, <2>6, <2>12, <2>13 DEF Q
  <2> QED BY ONLY <2>2, <2>14 DEF P
<1>6. n \in P
  <2> HIDE DEF P, n
  <2> QED BY ONLY <1>1, <1>4, <1>5, UpTo
<1>7. SubSeq(text, 1, n) = text
  OBVIOUS
<1> QED BY <1>2, <1>6, <1>7

LEMMA FromTextIs ==
  ASSUME NEW s, Good(s), NEW o \in Names, o \notin DOMAIN s.arrays, NEW text \in Seq(Items), Free(s) >= 2
  PROVE  Yields(s, FromText(s, o, text), o, text)
<1> DEFINE c == Construct(s, o)
           n == Len(text)
           t == reserve(c, o, n)
           r == PushAll(t, o, text)
<1>1. FromText(s, o, text) = r
  BY ONLY DEF FromText, PushAll
<1>2. n \in Nat
  OBVIOUS
<1>3. Takes(s, c, o, <<>>)
  BY ConstructIs
<1> HIDE DEF c, n
<1>4. Good(c) /\ o \in DOMAIN c.arrays /\ Val(c, o) = <<>> /\ \E b : DOMAIN c.memory \subseteq DOMAIN s.memory \cup {b}
  BY ONLY <1>3 DEF Takes
<1>5. Free(c) >= 1
  <2> DEFINE one == 1
  <2>1. Free(s) >= one + 1 /\ one \in Nat
    BY ONLY Free(s) >= 2
  <2> HIDE DEF one
  <2>2. Free(c) >= one
    BY ONLY <1>4, <2>1, FreeOfRoom
  <2> QED BY ONLY <2>2 DEF one
<1>6. Reserves(c, t, o, n)
  BY ONLY <1>2, <1>4, <1>5, Reserve
<1> HIDE DEF t
<1>7. Good(t) /\ Others(c, t, o) /\ Size(t, o) = Size(c, o) /\ t.arrays[o].physical_size >= n
  BY ONLY <1>6 DEF Reserves
<1>8. o \in DOMAIN t.arrays
  BY ONLY <1>7 DEF Others
<1>9. Val(t, o) = <<>>
  <2>1. Len(Val(c, o)) = Size(c, o) /\ Len(Val(t, o)) = Size(t, o)
    BY ONLY <1>4, <1>7, <1>8, ValLen
  <2>2. Val(t, o) \in Seq(Items)
    BY ONLY <1>7, <1>8, ValIs
  <2>3. Len(Val(t, o)) = 0
    BY <1>4, <1>7, <2>1
  <2> QED BY ONLY <2>2, <2>3
<1>10. Yields(c, t, o, <<>>)
  <2>1. Kept(c, t, o)
    BY ONLY <1>7, OthersKept
  <2> QED BY ONLY <1>7, <1>9, <2>1 DEF Yields, Others
<1>11. n <= t.arrays[o].physical_size
  <2>1. t.arrays[o].physical_size \in Nat
    BY ONLY <1>7, <1>8, GoodParts
  <2> QED BY ONLY <1>2, <1>7, <2>1
<1>12. Yields(t, r, o, text)
  BY ONLY <1>7, <1>8, <1>9, <1>11, text \in Seq(Items), Pushes DEF n
<1> HIDE DEF r
<1>13. Yields(s, c, o, <<>>)
  BY ONLY <1>3, o \notin DOMAIN s.arrays, TakesYields
<1>14. Yields(s, t, o, <<>>)
  BY ONLY <1>10, <1>13, YieldsTwice
<1>15. Yields(s, r, o, text)
  BY ONLY <1>12, <1>14, YieldsTwice
<1> QED BY ONLY <1>1, <1>15

-----------------------------------------------------------------------------
(* What the calls that only read return.                                   *)

LEMMA PutGet ==
  ASSUME NEW s, Good(s), NEW o \in DOMAIN s.arrays, NEW i \in 0 .. s.arrays[o].physical_size - 1, NEW item
  PROVE  Get(Put(s, o, i, item), o, i) = item
<1> DEFINE d == s.arrays[o].data
           r == Put(s, o, i, item)
<1>1. /\ s = [arrays |-> s.arrays, memory |-> s.memory, outside |-> s.outside]
      /\ s.memory = [b \in DOMAIN s.memory |-> s.memory[b]]
  BY StoreParts
<1>2. d \in DOMAIN s.memory /\ s.memory[d] \in [0 .. s.arrays[o].physical_size - 1 -> All]
  <2>1. s.arrays[o].physical_size \in Nat /\ (d = Null => s.arrays[o].physical_size = 0)
        /\ (d # Null => d \in DOMAIN s.memory /\ s.memory[d] \in [0 .. s.arrays[o].physical_size - 1 -> All])
    BY GoodParts
  <2>2. s.arrays[o].physical_size # 0
    BY ONLY <2>1, i \in 0 .. s.arrays[o].physical_size - 1
  <2> QED BY ONLY <2>1, <2>2
<1>3. i \in DOMAIN s.memory[d]
  BY ONLY <1>2, i \in 0 .. s.arrays[o].physical_size - 1
<1>4. r = [s EXCEPT !.memory[d][i] = item]
  <2> HIDE DEF d
  <2>1. Store(s, d, i, item) = [s EXCEPT !.memory[d][i] = item]
    BY ONLY <1>2, <1>3 DEF Store, Inside
  <2> QED BY ONLY <2>1 DEF Put, d
<1> HIDE DEF r
<1>5. r.arrays = s.arrays
  BY ONLY <1>1, <1>4
<1>6. d \in DOMAIN r.memory /\ i \in DOMAIN r.memory[d] /\ r.memory[d][i] = item
  <2> HIDE DEF d
  <2> QED BY ONLY <1>1, <1>2, <1>3, <1>4
<1>7. Get(r, o, i) = Load(r, d, i)
  BY ONLY <1>5 DEF Get
<1> QED BY ONLY <1>6, <1>7 DEF Load, Inside, r

\* getCharArr: the string stays as it is, and its reader sees it.
Shows(s, r, o) == Yields(s, r, o, Val(s, o)) /\ CString(r, o) = Val(s, o)

LEMMA CharArr ==
  ASSUME NEW s, Good(s), NEW o \in DOMAIN s.arrays, Free(s) >= 1
  PROVE  Shows(s, getCharArr(s, o), o)
<1> DEFINE z == Size(s, o)
           m == z + 1
           t == reserve(s, o, m)
           r == Put(t, o, z, Terminator)
           v == Val(s, o)
<1>1. getCharArr(s, o) = r
  BY ONLY DEF getCharArr
<1>2. z \in Nat /\ m \in Nat /\ v \in Seq(Items) /\ Len(v) = z
  BY SizeType, ValIs, ValLen
<1>3. Reserves(s, t, o, m)
  <2> HIDE DEF m
  <2> QED BY ONLY <1>2, Good(s), o \in DOMAIN s.arrays, Free(s) >= 1, Reserve
<1> HIDE DEF t
<1>4. Good(t) /\ Others(s, t, o) /\ Size(t, o) = z /\ t.arrays[o].physical_size >= m
      /\ \A i \in 0 .. z - 1 : Get(t, o, i) = Get(s, o, i)
  BY ONLY <1>3 DEF Reserves
<1>5. o \in DOMAIN t.arrays
  BY ONLY <1>4 DEF Others
<1>6. Val(t, o) = v
  <2>1. \A k \in 1 .. z : Get(t, o, k - 1) = Get(s, o, k - 1)
    <3> SUFFICES ASSUME NEW k \in 1 .. z PROVE Get(t, o, k - 1) = Get(s, o, k - 1)
      OBVIOUS
    <3>1. k - 1 \in 0 .. z - 1
      BY ONLY <1>2, k \in 1 .. z
    <3> QED BY ONLY <1>4, <3>1
  <2> QED BY ONLY <1>4, <2>1 DEF Val
<1>7. t.arrays[o].physical_size \in Nat
  BY ONLY <1>4, <1>5, GoodParts
<1>8. z \in 0 .. t.arrays[o].physical_size - 1
  BY ONLY <1>2, <1>4, <1>7
<1>9. Terminator \in All
  BY DEF All
<1> HIDE DEF v, z
<1>10. Turns(t, r, o, Replaced(Val(t, o), z, Terminator))
  <2>1. z < Size(t, o) => Terminator \in Items
    BY ONLY <1>2, <1>4
  <2> QED BY ONLY <1>4, <1>5, <1>8, <1>9, <2>1, PutTurns
<1>11. Replaced(v, z, Terminator) = v
  <2>1. Replaced(v, z, Terminator) = [k \in 1 .. z |-> IF k = z + 1 THEN Terminator ELSE v[k]]
    BY ONLY <1>2 DEF Replaced
  <2>2. v = [k \in 1 .. z |-> v[k]]
    BY ONLY <1>2
  <2>3. \A k \in 1 .. z : k # z + 1
    BY ONLY <1>2
  <2> QED BY ONLY <2>1, <2>2, <2>3
<1>12. Turns(t, r, o, v)
  BY ONLY <1>6, <1>10, <1>11
<1>13. Get(r, o, z) = Terminator
  BY ONLY <1>4, <1>5, <1>8, PutGet
<1> HIDE DEF r
<1>14. Good(r) /\ Others(t, r, o) /\ o \in DOMAIN r.arrays /\ Val(r, o) = v /\ Widens(t, r, o)
  BY ONLY <1>12 DEF Turns
<1>15. Yields(s, r, o, v)
  <2>1. Others(s, r, o)
    BY ONLY <1>4, <1>14, OthersTwice
  <2>2. Kept(s, r, o)
    BY ONLY <2>1, OthersKept
  <2> QED BY ONLY <1>14, <2>1, <2>2 DEF Yields, Others
<1>16. Size(r, o) = z
  BY ONLY <1>2, <1>14, ValLen
<1>17. CString(r, o) = v
  <2> DEFINE Stop(i) == Get(r, o, i) \in {Terminator, Junk}
             R == 0 .. r.arrays[o].physical_size
             E(n) == Stop(n) /\ \A i \in 0 .. n - 1 : Get(r, o, i) \notin {Terminator, Junk}
             end == CHOOSE n \in R : E(n)
  <2>1. z \in R
    BY ONLY <1>2, <1>7, <1>8, <1>14 DEF Widens
  <2>2. \A i \in 0 .. z - 1 : ~ Stop(i)
    <3> SUFFICES ASSUME NEW i \in 0 .. z - 1 PROVE Get(r, o, i) \notin {Terminator, Junk}
      OBVIOUS
    <3>1. Get(r, o, i) \in Items
      BY ONLY <1>14, <1>16, i \in 0 .. z - 1, ItemIs
    <3> QED BY <3>1, ContainersAssumption
  <2>3. E(z)
    BY ONLY <1>13, <2>2
  <2>4. end \in R /\ E(end)
    <3> HIDE DEF E, R
    <3> QED BY ONLY <2>1, <2>3
  <2> HIDE DEF end
  <2>5. end \in Nat
    BY ONLY <2>4, <1>14 DEF Widens
  <2>6. end = z
    <3>1. ~ (end < z)
      <4> SUFFICES ASSUME end < z PROVE FALSE
        OBVIOUS
      <4>1. end \in 0 .. z - 1
        BY ONLY <1>2, <2>5, end < z
      <4> HIDE DEF Stop
      <4> QED BY ONLY <2>2, <2>4, <4>1
    <3>2. ~ (z < end)
      <4> SUFFICES ASSUME z < end PROVE FALSE
        OBVIOUS
      <4>1. z \in 0 .. end - 1
        BY ONLY <1>2, <2>5, z < end
      <4> QED BY ONLY <1>13, <2>4, <4>1
    <3> QED BY ONLY <1>2, <2>5, <3>1, <3>2
  <2>7. CString(r, o) = [i \in 1 .. end |-> Get(r, o, i - 1)]
    BY ONLY DEF CString, end
  <2>8. v = [k \in 1 .. z |-> Get(r, o, k - 1)]
    BY ONLY <1>14, <1>16 DEF Val
  <2> QED BY ONLY <2>6, <2>7, <2>8
<1> QED BY ONLY <1>1, <1>15, <1>17 DEF v, Shows

LEMMA EqualIs ==
  ASSUME NEW s, Good(s), NEW o \in DOMAIN s.arrays, NEW p \in DOMAIN s.arrays
  PROVE  Equal(s, o, p) = (Val(s, o) = Val(s, p))
<1> DEFINE v == Val(s, o)
           w == Val(s, p)
           z == Size(s, o)
           y == Size(s, p)
<1>1. /\ z \in Nat /\ y \in Nat /\ Len(v) = z /\ Len(w) = y
      /\ \A k \in 1 .. z : v[k] = Get(s, o, k - 1)
      /\ \A k \in 1 .. y : w[k] = Get(s, p, k - 1)
      /\ v = [k \in 1 .. z |-> v[k]] /\ w = [k \in 1 .. y |-> w[k]]
  <2>1. z \in Nat /\ y \in Nat /\ Len(v) = z /\ Len(w) = y
    BY SizeType, ValLen
  <2>2. v = [k \in 1 .. z |-> Get(s, o, k - 1)] /\ w = [k \in 1 .. y |-> Get(s, p, k - 1)]
    BY DEF Val
  <2> HIDE DEF v, w, z, y
  <2> QED BY ONLY <2>1, <2>2
<1> HIDE DEF v, w
<1>2. ASSUME Equal(s, o, p) PROVE v = w
  <2>1. z = y /\ \A i \in 0 .. z - 1 : Get(s, o, i) = Get(s, p, i)
    BY <1>2 DEF Equal
  <2>2. \A k \in 1 .. z : v[k] = w[k]
    <3> SUFFICES ASSUME NEW k \in 1 .. z PROVE v[k] = w[k]
      OBVIOUS
    <3>1. k - 1 \in 0 .. z - 1
      BY <1>1
    <3>2. Get(s, o, k - 1) = Get(s, p, k - 1)
      BY ONLY <2>1, <3>1
    <3> QED BY ONLY <1>1, <2>1, <3>2, k \in 1 .. z
  <2> HIDE DEF z, y
  <2> QED BY ONLY <1>1, <2>1, <2>2
<1>3. ASSUME v = w PROVE Equal(s, o, p)
  <2>1. z = y
    BY <1>1, <1>3
  <2>2. \A i \in 0 .. z - 1 : Get(s, o, i) = Get(s, p, i)
    <3> SUFFICES ASSUME NEW i \in 0 .. z - 1 PROVE Get(s, o, i) = Get(s, p, i)
      OBVIOUS
    <3>1. i + 1 \in 1 .. z /\ (i + 1) - 1 = i
      BY <1>1
    <3>2. v[i + 1] = Get(s, o, (i + 1) - 1) /\ w[i + 1] = Get(s, p, (i + 1) - 1)
      BY ONLY <1>1, <2>1, <3>1
    <3> QED BY ONLY <1>3, <3>1, <3>2
  <2> QED BY <2>1, <2>2 DEF Equal
<1>4. Equal(s, o, p) \in BOOLEAN
  BY DEF Equal
<1> QED BY ONLY <1>2, <1>3, <1>4 DEF v, w

\* The place of the first such item.
Place(q, item) == LET I == {i \in 1 .. Len(q) : q[i] = item} IN IF I # {} THEN Min(I) ELSE 0

LEMMA FindIs ==
  ASSUME NEW s, Good(s), NEW o \in DOMAIN s.arrays, NEW item \in Items
  PROVE  find(s, o, item) = Place(Val(s, o) \o <<item>>, item) - 1
<1> DEFINE v == Val(s, o)
           z == Size(s, o)
           q == v \o <<item>>
           found == {i \in 0 .. z - 1 : Get(s, o, i) = item}
           I == {i \in 1 .. Len(q) : q[i] = item}
<1>1. v \in Seq(Items) /\ Len(v) = z /\ z \in Nat
  BY SizeType, ValIs, ValLen
<1>2. \A k \in 1 .. z : v[k] = Get(s, o, k - 1)
  BY ONLY DEF Val
<1> HIDE DEF v
<1>3. /\ q \in Seq(Items) /\ Len(q) = z + 1 /\ (\A k \in 1 .. z : q[k] = v[k]) /\ q[z + 1] = item
  BY <1>1
<1> HIDE DEF q, z
<1>4. z + 1 \in I
  BY ONLY <1>1, <1>3
<1>5. Place(q, item) = Min(I)
  <2>1. Place(q, item) = IF I # {} THEN Min(I) ELSE 0
    BY ONLY DEF Place
  <2> HIDE DEF I
  <2> QED BY ONLY <1>4, <2>1
<1>6. \A i \in 0 .. z - 1 : i \in found <=> i + 1 \in I
  <2> SUFFICES ASSUME NEW i \in 0 .. z - 1 PROVE Get(s, o, i) = item <=> q[i + 1] = item
    BY <1>1, <1>3
  <2>1. i + 1 \in 1 .. z /\ (i + 1) - 1 = i
    BY ONLY <1>1, i \in 0 .. z - 1
  <2>2. v[i + 1] = Get(s, o, (i + 1) - 1) /\ q[i + 1] = v[i + 1]
    BY ONLY <1>2, <1>3, <2>1 DEF z
  <2> QED BY ONLY <2>1, <2>2
<1>7. I \subseteq 1 .. z + 1 /\ found \subseteq 0 .. z - 1
  BY ONLY <1>3
<1>8. find(s, o, item) = IF found = {} THEN z ELSE CHOOSE i \in found : \A j \in found : i <= j
  BY ONLY DEF find, z
<1> HIDE DEF I, found
<1>9. PICK m \in I : \A k \in I : m <= k
  BY <1>1, <1>4, <1>7, LeastNatural
<1>10. Min(I) = m
  <2>1. Min(I) \in I /\ \A k \in I : Min(I) <= k
    BY ONLY <1>9 DEF Min
  <2> DEFINE c == Min(I)
  <2>2. c \in I /\ c <= m /\ m <= c
    <3> HIDE DEF c
    <3>1. c \in I /\ \A k \in I : c <= k
      BY ONLY <2>1 DEF c
    <3> QED BY ONLY <1>9, <3>1
  <2> HIDE DEF c
  <2>3. c \in 1 .. z + 1 /\ m \in 1 .. z + 1
    BY ONLY <1>7, <1>9, <2>2
  <2>4. c = m
    BY ONLY <2>2, <2>3
  <2> QED BY ONLY <2>4 DEF c
<1>11. m \in 1 .. z + 1
  BY ONLY <1>7, <1>9
<1>12. CASE found = {}
  <2>1. m = z + 1
    <3> SUFFICES ASSUME m # z + 1 PROVE FALSE
      OBVIOUS
    <3>1. m - 1 \in 0 .. z - 1 /\ (m - 1) + 1 = m
      BY ONLY <1>1, <1>11, m # z + 1
    <3> QED BY ONLY <1>6, <1>9, <1>12, <3>1
  <2> QED BY ONLY <1>1, <1>5, <1>8, <1>10, <1>12, <2>1 DEF q, v
<1>13. CASE found # {}
  <2>1. PICK i \in found : TRUE
    BY <1>13
  <2>2. i \in 0 .. z - 1 /\ i + 1 \in I
    BY ONLY <1>6, <1>7, <2>1
  <2>3. m <= i + 1
    BY ONLY <1>9, <2>2
  <2>4. m - 1 \in 0 .. z - 1 /\ (m - 1) + 1 = m
    BY ONLY <1>1, <1>11, <2>2, <2>3
  <2>5. m - 1 \in found
    BY ONLY <1>6, <1>9, <2>4
  <2>6. \A j \in found : m - 1 <= j
    <3> SUFFICES ASSUME NEW j \in found PROVE m - 1 <= j
      OBVIOUS
    <3>1. j \in 0 .. z - 1 /\ j + 1 \in I
      BY ONLY <1>6, <1>7, j \in found
    <3>2. m <= j + 1
      BY ONLY <1>9, <3>1
    <3> QED BY ONLY <1>1, <1>11, <3>1, <3>2
  <2>7. (CHOOSE j \in found : \A k \in found : j <= k) = m - 1
    <3> DEFINE c == CHOOSE j \in found : \A k \in found : j <= k
    <3>1. c \in found /\ \A k \in found : c <= k
      BY ONLY <2>5, <2>6
    <3> HIDE DEF c
    <3>2. c \in 0 .. z - 1
      BY ONLY <1>7, <3>1
    <3>3. c <= m - 1 /\ m - 1 <= c
      BY ONLY <2>5, <2>6, <3>1
    <3>4. c = m - 1
      BY ONLY <1>1, <2>4, <3>2, <3>3
    <3> QED BY ONLY <3>4 DEF c
  <2> QED BY ONLY <1>5, <1>8, <1>10, <1>13, <2>7 DEF q, v
<1> QED BY ONLY <1>12, <1>13

-----------------------------------------------------------------------------
(* The invariant, and who owns what.                                       *)

IInv ==
  /\ Good(store) /\ Objects \subseteq Names /\ overwritten \in Nat
  /\ IsFiniteSet(Lost(store)) /\ Cardinality(Lost(store)) = overwritten

LEMMA ValueIs ==
  ASSUME NEW o
  PROVE  Value(o) = Val(store, o)
BY DEF Value, Val

LEMMA RoomIs ==
  ASSUME NEW n \in Nat, Room(n)
  PROVE  Free(store) >= n
BY DEF Room, Free

\* As many buffers are owned as arrays own one.
LEMMA OwnersCounted ==
  ASSUME NEW D, NEW O, NEW data, IsFiniteSet(D), D = {data[o] : o \in O},
         \A o, p \in O : data[o] = data[p] => o = p
  PROVE  IsFiniteSet(O) /\ Cardinality(O) = Cardinality(D)
<1> DEFINE f == [d \in D |-> CHOOSE o \in O : data[o] = d]
<1>1. \A d \in D : f[d] \in O /\ data[f[d]] = d
  OBVIOUS
<1>2. \A o \in O : data[o] \in D /\ f[data[o]] = o
  <2> SUFFICES ASSUME NEW o \in O PROVE data[o] \in D /\ f[data[o]] = o
    OBVIOUS
  <2>1. data[o] \in D
    OBVIOUS
  <2>2. f[data[o]] \in O /\ data[f[data[o]]] = data[o]
    BY ONLY <1>1, <2>1
  <2> HIDE DEF f
  <2> QED BY <2>1, <2>2
<1>3. f \in [D -> O]
  <2>1. f = [d \in D |-> f[d]]
    OBVIOUS
  <2> HIDE DEF f
  <2> QED BY ONLY <1>1, <2>1
<1> HIDE DEF f
<1>4. f \in Bijection(D, O)
  <2>1. \A d, e \in D : f[d] = f[e] => d = e
    BY ONLY <1>1
  <2>2. \A o \in O : \E d \in D : f[d] = o
    BY ONLY <1>2
  <2> QED BY ONLY <1>3, <2>1, <2>2 DEF Bijection, Injection, Surjection, IsInjective
<1>5. ExistsBijection(D, O)
  BY ONLY <1>4 DEF ExistsBijection
<1> QED BY ONLY <1>5, IsFiniteSet(D), FS_Bijection

LEMMA Owned ==
  ASSUME IInv
  PROVE  BuffersOwned
<1> DEFINE s == store
           owned == {o \in Objects : s.arrays[o].data # Null}
           data == [o \in Objects |-> s.arrays[o].data]
           D == {data[o] : o \in owned}
<1>1. Good(s) /\ s.outside = FALSE /\ Objects \subseteq Names
  BY DEF IInv, Good
<1>2. \A o, p \in owned : s.arrays[o].data = s.arrays[p].data => o = p
  BY DEF IInv, Good, Objects
<1>3. ASSUME NEW o \in Objects
      PROVE  LET a == s.arrays[o]
             IN  /\ a.size <= a.physical_size /\ a.physical_size % BlockSize = 0
                 /\ IF o \in owned
                      THEN a.data \in DOMAIN s.memory /\ DOMAIN s.memory[a.data] = 0 .. a.physical_size - 1
                      ELSE a.physical_size = 0
  <2>1. o \in DOMAIN s.arrays
    BY DEF Objects
  <2> DEFINE a == s.arrays[o]
  <2>2. /\ a.size <= a.physical_size /\ a.physical_size % BlockSize = 0
        /\ a.data = Null => a.physical_size = 0
        /\ a.data # Null =>
             /\ a.data \in DOMAIN s.memory /\ s.memory[a.data] \in [0 .. a.physical_size - 1 -> All]
    BY <1>1, <2>1, GoodParts
  <2>3. a.data # Null => DOMAIN s.memory[a.data] = 0 .. a.physical_size - 1
    BY <2>2
  <2>4. o \in owned <=> a.data # Null
    OBVIOUS
  <2> HIDE DEF a, owned
  <2> QED BY ONLY <2>2, <2>3, <2>4 DEF a
<1>4. Cardinality(DOMAIN s.memory) = Cardinality(owned) + overwritten
  <2>1. \A o \in owned : data[o] = s.arrays[o].data /\ data[o] # Null /\ data[o] \in DOMAIN s.memory
    <3> SUFFICES ASSUME NEW o \in owned PROVE data[o] = s.arrays[o].data /\ data[o] # Null /\ data[o] \in DOMAIN s.memory
      OBVIOUS
    <3>1. o \in DOMAIN s.arrays /\ o \in Objects /\ s.arrays[o].data # Null /\ data[o] = s.arrays[o].data
      BY DEF Objects
    <3>2. s.arrays[o].data # Null => s.arrays[o].data \in DOMAIN s.memory
      BY <1>1, <3>1, GoodParts
    <3> HIDE DEF data
    <3> QED BY <3>1, <3>2
  <2>2. D \subseteq DOMAIN s.memory
    BY ONLY <2>1
  <2>3. Lost(s) = DOMAIN s.memory \ D
    <3>1. Null \notin DOMAIN s.memory
      BY <1>1, FreeType DEF Good
    <3>2. \A d \in DOMAIN s.memory : d \in {s.arrays[o].data : o \in DOMAIN s.arrays} <=> d \in D
      <4> SUFFICES ASSUME NEW d \in DOMAIN s.memory
                   PROVE  d \in {s.arrays[o].data : o \in DOMAIN s.arrays} <=> d \in D
        OBVIOUS
      <4>1. ASSUME NEW o \in DOMAIN s.arrays, d = s.arrays[o].data PROVE d \in D
        <5>1. o \in owned
          BY <3>1, <4>1 DEF Objects
        <5>2. d = data[o]
          BY <2>1, <4>1, <5>1
        <5> HIDE DEF owned, data
        <5> QED BY <5>1, <5>2
      <4>2. ASSUME NEW o \in owned, d = data[o] PROVE d \in {s.arrays[q].data : q \in DOMAIN s.arrays}
        <5>1. d = s.arrays[o].data /\ o \in DOMAIN s.arrays
          BY <2>1, <4>2 DEF Objects
        <5> QED BY <5>1
      <4> HIDE DEF owned, data
      <4> QED BY ONLY <4>1, <4>2
    <3> HIDE DEF D
    <3> QED BY ONLY <3>2 DEF Lost
  <2>4. IsFiniteSet(DOMAIN s.memory)
    <3>1. DOMAIN s.memory \subseteq Buffers
      BY <1>1 DEF Good
    <3> QED BY ONLY <3>1, FreeType, FS_Subset
  <2>5. IsFiniteSet(D)
    BY ONLY <2>2, <2>4, FS_Subset
  <2>6. \A o, p \in owned : data[o] = data[p] => o = p
    <3> HIDE DEF owned, data
    <3> QED BY ONLY <1>2, <2>1
  <2>7. Cardinality(owned) = Cardinality(D)
    <3>1. D = {data[o] : o \in owned}
      OBVIOUS
    <3> HIDE DEF D, owned, data
    <3> QED BY ONLY <2>5, <2>6, <3>1, OwnersCounted
  <2>8. IsFiniteSet(Lost(s)) /\ Cardinality(Lost(s)) = overwritten
    BY DEF IInv
  <2> HIDE DEF D, owned
  <2>9. /\ Cardinality(DOMAIN s.memory \ D) = Cardinality(DOMAIN s.memory) - Cardinality(DOMAIN s.memory \cap D)
        /\ Cardinality(DOMAIN s.memory) \in Nat /\ Cardinality(D) \in Nat
    BY ONLY <2>4, <2>5, FS_Difference, FS_CardinalityType
  <2>10. DOMAIN s.memory \cap D = D
    BY ONLY <2>2
  <2> DEFINE cm == Cardinality(DOMAIN s.memory)
             cd == Cardinality(D)
             co == Cardinality(owned)
  <2>11. overwritten = cm - cd /\ co = cd /\ cm \in Nat /\ cd \in Nat
    BY ONLY <2>3, <2>7, <2>8, <2>9, <2>10
  <2> HIDE DEF cm, cd, co
  <2>12. cm = co + overwritten
    BY ONLY <2>11
  <2> QED BY ONLY <2>12 DEF cm, co
<1> QED BY ONLY <1>1, <1>2, <1>3, <1>4 DEF BuffersOwned

-----------------------------------------------------------------------------
(* The steps.                                                              *)

LEMMA YieldsInv ==
  ASSUME IInv, NEW o \in Names, NEW v, Yields(store, store', o, v), overwritten' = overwritten
  PROVE  IInv'
<1>1. Good(store') /\ DOMAIN store'.arrays = DOMAIN store.arrays \cup {o} /\ Lost(store') = Lost(store)
  BY ONLY Yields(store, store', o, v) DEF Yields
<1>2. DOMAIN store'.arrays \subseteq Names
  BY <1>1 DEF IInv, Objects
<1>3. IsFiniteSet(Lost(store')) /\ Cardinality(Lost(store')) = overwritten' /\ overwritten' \in Nat
  BY <1>1 DEF IInv
<1> QED BY ONLY <1>1, <1>2, <1>3 DEF IInv, Objects

LEMMA LeavesInv ==
  ASSUME IInv, NEW o, Leaves(store, store', o), overwritten' = overwritten
  PROVE  IInv'
<1>1. Good(store') /\ DOMAIN store'.arrays = DOMAIN store.arrays \ {o} /\ Lost(store') = Lost(store)
  BY ONLY Leaves(store, store', o) DEF Leaves
<1>2. DOMAIN store'.arrays \subseteq Names
  BY <1>1 DEF IInv, Objects
<1>3. IsFiniteSet(Lost(store')) /\ Cardinality(Lost(store')) = overwritten' /\ overwritten' \in Nat
  BY <1>1 DEF IInv
<1> QED BY ONLY <1>1, <1>2, <1>3 DEF IInv, Objects

\* An assignment: one more buffer is lost if the object had one.
LEMMA TakesInv ==
  ASSUME IInv, NEW o \in Objects, NEW v, Takes(store, store', o, v),
         overwritten' = overwritten + (IF store.arrays[o].data = Null THEN 0 ELSE 1)
  PROVE  IInv'
<1> DEFINE d == store.arrays[o].data
<1>1. /\ Good(store') /\ DOMAIN store'.arrays = DOMAIN store.arrays \cup {o}
      /\ Lost(store') = Lost(store) \cup Left(store, o)
  BY ONLY Takes(store, store', o, v) DEF Takes
<1>2. DOMAIN store'.arrays \subseteq Names
  BY <1>1 DEF IInv, Objects
<1>3. Good(store) /\ o \in DOMAIN store.arrays /\ overwritten \in Nat
      /\ IsFiniteSet(Lost(store)) /\ Cardinality(Lost(store)) = overwritten
  BY DEF IInv, Objects
<1>4. IsFiniteSet(Lost(store')) /\ Cardinality(Lost(store')) = overwritten' /\ overwritten' \in Nat
  <2>1. CASE d = Null
    <3>1. Left(store, o) = {}
      BY <1>3, <2>1, FreeType DEF Left, Good
    <3> QED BY <1>1, <1>3, <2>1, <3>1
  <2>2. CASE d # Null
    <3>1. d \in DOMAIN store.memory
      BY <1>3, <2>2, GoodParts
    <3>2. Left(store, o) = {d}
      BY <1>3, <3>1 DEF Left
    <3>3. d \notin Lost(store)
      BY <1>3 DEF Lost
    <3>4. overwritten' = overwritten + 1
      BY <2>2
    <3> HIDE DEF d
    <3>5. IsFiniteSet(Lost(store) \cup {d}) /\ Cardinality(Lost(store) \cup {d}) = Cardinality(Lost(store)) + 1
      BY ONLY <1>3, <3>3, FS_AddElement
    <3> QED BY ONLY <1>1, <1>3, <3>2, <3>4, <3>5
  <2> QED BY ONLY <2>1, <2>2
<1> QED BY ONLY <1>1, <1>2, <1>4 DEF IInv, Objects

LEMMA InitInv ==
  ASSUME Init
  PROVE  IInv
<1>1. store = [arrays |-> <<>>, memory |-> <<>>, outside |-> FALSE] /\ overwritten = 0
  BY DEF Init
<1>2. store.arrays = <<>> /\ store.memory = <<>> /\ store.outside = FALSE
      /\ store = [arrays |-> store.arrays, memory |-> store.memory, outside |-> store.outside]
  BY <1>1
<1>3. DOMAIN store.arrays = {} /\ DOMAIN store.memory = {}
  BY <1>2
<1>4. store.arrays = [o \in DOMAIN store.arrays |-> store.arrays[o]]
      /\ store.memory = [o \in DOMAIN store.memory |-> store.memory[o]]
  BY <1>2
<1>5. Good(store)
  BY ONLY <1>2, <1>3, <1>4 DEF Good, Typed
<1>6. Lost(store) = {}
  BY ONLY <1>3 DEF Lost
<1>7. IsFiniteSet(Lost(store)) /\ Cardinality(Lost(store)) = overwritten
  BY <1>1, <1>6, FS_EmptySet
<1> QED BY ONLY <1>1, <1>3, <1>5, <1>7 DEF IInv, Objects

-----------------------------------------------------------------------------
(* What is promised of a call.                                             *)

Promises(c, o, v, result) ==
  /\ c.on = o /\ c.op # "none" /\ c.op # "destruct" /\ ~ Promise!Endless(c)
  /\ Promise!Promised(c) = v /\ Promise!Answered(c) = result

LEMMA PromisesConstruct ==
  ASSUME NEW o
  PROVE  Promises([op |-> "construct", on |-> o], o, <<>>, <<>>)
BY DEF Promises, Promise!Endless, Promise!Promised, Promise!Answered

LEMMA PromisesText ==
  ASSUME NEW o, NEW text
  PROVE  Promises([op |-> "text", on |-> o, items |-> text], o, text, <<>>)
BY DEF Promises, Promise!Endless, Promise!Promised, Promise!Answered

LEMMA PromisesCopy ==
  ASSUME NEW o, NEW p \in Objects
  PROVE  Promises([op |-> "copy", on |-> o, of |-> p], o, Val(store, p), <<>>)
BY ValueIs DEF Promises, Promise!Endless, Promise!Promised, Promise!Answered

LEMMA PromisesAssign ==
  ASSUME NEW o, NEW p \in Objects
  PROVE  Promises([op |-> "assign", on |-> o, of |-> p], o, Val(store, p), <<>>)
BY ValueIs DEF Promises, Promise!Endless, Promise!Promised, Promise!Answered

LEMMA PromisesPlus ==
  ASSUME NEW o, NEW p \in Objects, NEW q \in Objects, ~ (Val(store, p) = <<>> /\ Val(store, q) = <<>>)
  PROVE  Promises([op |-> "plus", on |-> o, of |-> p, and |-> q], o, Val(store, p) \o Val(store, q), <<>>)
<1> DEFINE c == [op |-> "plus", on |-> o, of |-> p, and |-> q]
<1>1. ~ Promise!Endless(c)
  BY ValueIs DEF Promise!Endless
<1>2. Promise!Promised(c) = Val(store, p) \o Val(store, q)
  BY ValueIs DEF Promise!Promised
<1>3. Promise!Answered(c) = <<>>
  BY DEF Promise!Answered
<1> QED BY <1>1, <1>2, <1>3 DEF Promises

LEMMA PromisesPush ==
  ASSUME NEW o \in Objects, NEW item
  PROVE  Promises([op |-> "push", on |-> o, item |-> item], o, Append(Val(store, o), item), <<>>)
BY ValueIs DEF Promises, Promise!Endless, Promise!Promised, Promise!Answered

LEMMA PromisesInsert ==
  ASSUME NEW o \in Objects, NEW item, NEW i \in Nat
  PROVE  Promises([op |-> "insert", on |-> o, item |-> item, index |-> i], o,
                  SubSeq(Val(store, o), 1, i) \o <<item>> \o SubSeq(Val(store, o), i + 1, Len(Val(store, o))), <<>>)
<1> DEFINE c == [op |-> "insert", on |-> o, item |-> item, index |-> i]
<1>1. ~ Promise!Endless(c)
  BY DEF Promise!Endless
<1>2. Promise!Promised(c) = Promise!InsertAt(Val(store, o), i + 1, item)
  BY ValueIs DEF Promise!Promised
<1>3. ASSUME NEW v
      PROVE  Promise!InsertAt(v, i + 1, item) = SubSeq(v, 1, i) \o <<item>> \o SubSeq(v, i + 1, Len(v))
  <2> DEFINE j == i + 1
             k == j - 1
  <2>1. k = i
    OBVIOUS
  <2>2. Promise!InsertAt(v, j, item) = SubSeq(v, 1, k) \o <<item>> \o SubSeq(v, j, Len(v))
    <3> HIDE DEF j
    <3> QED BY Zenon DEF Promise!InsertAt
  <2> HIDE DEF k
  <2> QED BY ONLY <2>1, <2>2
<1>4. Promise!Answered(c) = <<>>
  BY DEF Promise!Answered
<1>5. c.on = o /\ c.op # "none" /\ c.op # "destruct"
  OBVIOUS
<1> HIDE DEF c
<1> QED BY ONLY <1>1, <1>2, <1>3, <1>4, <1>5 DEF Promises, c

LEMMA PromisesInsertAll ==
  ASSUME NEW o \in Objects, NEW p \in Objects, NEW i \in Nat, ~ (i = 0 /\ Val(store, p) = <<>>)
  PROVE  Promises([op |-> "insertAll", on |-> o, of |-> p, index |-> i], o,
                  SubSeq(Val(store, o), 1, i) \o Val(store, p)
                    \o SubSeq(Val(store, o), i + 1, Len(Val(store, o))), <<>>)
<1> DEFINE c == [op |-> "insertAll", on |-> o, of |-> p, index |-> i]
<1>1. ~ Promise!Endless(c)
  BY ValueIs DEF Promise!Endless
<1>2. Promise!Promised(c) = SubSeq(Val(store, o), 1, i) \o Val(store, p)
                             \o SubSeq(Val(store, o), i + 1, Len(Val(store, o)))
  BY ValueIs DEF Promise!Promised
<1>3. Promise!Answered(c) = <<>>
  BY DEF Promise!Answered
<1> QED BY <1>1, <1>2, <1>3 DEF Promises

LEMMA PromisesErase ==
  ASSUME NEW o \in Objects, NEW start, NEW end
  PROVE  Promises([op |-> "erase", on |-> o, start |-> start, end |-> end], o,
                  Erased(Val(store, o), start, end), <<>>)
<1> DEFINE c == [op |-> "erase", on |-> o, start |-> start, end |-> end]
<1>1. ~ Promise!Endless(c)
  BY DEF Promise!Endless
<1>2. Promise!Promised(c) = Erased(Val(store, o), start, end)
  BY ValueIs DEF Promise!Promised, Erased
<1>3. Promise!Answered(c) = <<>>
  BY DEF Promise!Answered
<1> QED BY <1>1, <1>2, <1>3 DEF Promises

LEMMA PromisesCharArr ==
  ASSUME NEW o \in Objects
  PROVE  Promises([op |-> "getCharArr", on |-> o], o, Val(store, o), <<Val(store, o)>>)
BY ValueIs DEF Promises, Promise!Endless, Promise!Promised, Promise!Answered

LEMMA PromisesEqual ==
  ASSUME NEW o \in Objects, NEW p \in Objects
  PROVE  Promises([op |-> "equal", on |-> o, of |-> p], o, Val(store, o), <<Val(store, o) = Val(store, p)>>)
BY ValueIs DEF Promises, Promise!Endless, Promise!Promised, Promise!Answered

LEMMA PromisesFind ==
  ASSUME NEW o \in Objects, NEW item
  PROVE  Promises([op |-> "find", on |-> o, item |-> item], o, Val(store, o),
                  <<Place(Val(store, o) \o <<item>>, item) - 1>>)
<1> DEFINE c == [op |-> "find", on |-> o, item |-> item]
           v == [x \in Objects |-> Value(x)]
<1>1. ~ Promise!Endless(c)
  BY DEF Promise!Endless
<1>2. Promise!Promised(c) = Val(store, o)
  BY ValueIs DEF Promise!Promised
<1>3. Promise!Answered(c) = <<Place(Val(store, o) \o <<item>>, item) - 1>>
  <2>1. Promise!Answered(c) = <<Promise!SelectInSeq(v[c.on] \o <<c.item>>, LAMBDA x : x = c.item) - 1>>
    BY DEF Promise!Answered
  <2>2. v[o] = Val(store, o)
    BY ValueIs
  <2> QED BY ONLY <2>1, <2>2 DEF Place, Promise!SelectInSeq, Promise!Min, Min
<1>4. c.on = o /\ c.op # "none" /\ c.op # "destruct"
  OBVIOUS
<1> HIDE DEF c, v
<1> QED BY ONLY <1>1, <1>2, <1>3, <1>4 DEF Promises, c

-----------------------------------------------------------------------------
(* A call that does what is promised of it.                                *)

Changed(o, v) ==
  /\ Good(store') /\ Kept(store, store', o) /\ DOMAIN store'.arrays = DOMAIN store.arrays \cup {o}
  /\ Val(store', o) = v

LEMMA CallKept ==
  ASSUME IInv, NEW o \in Names, NEW c, NEW v, NEW result, Changed(o, v), Promises(c, o, v, result),
         call' = c, answer' = result, ~ halted, halted' = halted
  PROVE  Promise!Call
<1> DEFINE S == [p \in Objects |-> Value(p)]
           T == [p \in Objects' |-> Value(p)']
           W == [p \in DOMAIN S \cup {call'.on} |-> IF p = call'.on THEN Promise!Promised(call') ELSE S[p]]
<1>1. /\ Good(store') /\ Kept(store, store', o) /\ DOMAIN store'.arrays = DOMAIN store.arrays \cup {o}
      /\ Val(store', o) = v
  BY ONLY Changed(o, v) DEF Changed
<1>2. /\ c.on = o /\ c.op # "none" /\ c.op # "destruct" /\ ~ Promise!Endless(c)
      /\ Promise!Promised(c) = v /\ Promise!Answered(c) = result
  BY ONLY Promises(c, o, v, result) DEF Promises
<1>3. Good(store)
  BY DEF IInv
<1>4. \A p : Value(p)' = Val(store', p)
  BY DEF Value, Val
<1>5. ASSUME NEW p \in DOMAIN store.arrays, p # o PROVE Val(store', p) = Val(store, p)
  BY ONLY <1>1, <1>3, <1>5, KeptValue
<1>6. T = [p \in DOMAIN store.arrays \cup {o} |-> IF p = o THEN v ELSE Val(store, p)]
  <2>1. T = [p \in DOMAIN store'.arrays |-> Val(store', p)]
    BY ONLY <1>4 DEF Objects
  <2> HIDE DEF T
  <2> QED BY ONLY <1>1, <1>5, <2>1
<1>7. W = [p \in DOMAIN store.arrays \cup {o} |-> IF p = o THEN v ELSE Val(store, p)]
  <2>1. S = [p \in DOMAIN store.arrays |-> Val(store, p)]
    BY ONLY ValueIs DEF Objects
  <2> HIDE DEF S
  <2> QED BY ONLY <1>2, <2>1, call' = c
<1>8. T = W
  <2> HIDE DEF T, W
  <2> QED BY ONLY <1>6, <1>7
<1>9. call'.op # "none" /\ ~ Promise!Endless(call') /\ call'.op # "destruct" /\ answer' = Promise!Answered(call')
  BY ONLY <1>2, call' = c, answer' = result
<1> HIDE DEF S
<1> QED BY ONLY <1>8, <1>9, ~ halted, halted' = halted DEF Promise!Call, S

-----------------------------------------------------------------------------
(* The actions.                                                            *)

Keeps == IInv' /\ Promise!ANext

LEMMA ReturnsKeeps ==
  ASSUME IInv, NEW o \in Names, NEW c, NEW new, NEW v, NEW result,
         Returns(c, new, result), overwritten' = overwritten, Yields(store, new, o, v),
         Promises(c, o, v, result)
  PROVE  Keeps
<1>1. ~ halted /\ call' = c /\ store' = new /\ answer' = result /\ halted' = halted
  BY ONLY Returns(c, new, result) DEF Returns
<1>2. Yields(store, store', o, v)
  BY ONLY <1>1, Yields(store, new, o, v)
<1>3. IInv'
  BY ONLY <1>2, IInv, overwritten' = overwritten, o \in Names, YieldsInv
<1>4. Changed(o, v)
  BY ONLY <1>2 DEF Yields, Changed
<1>5. Promise!Call
  BY ONLY <1>1, <1>4, IInv, o \in Names, Promises(c, o, v, result), CallKept
<1> QED BY ONLY <1>3, <1>5 DEF Keeps, Promise!ANext

LEMMA BirthKeeps ==
  ASSUME IInv, NEW o \in Names, Birth(o)
  PROVE  Keeps
<1>1. o \notin DOMAIN store.arrays /\ Good(store) /\ DOMAIN store.arrays \subseteq Names
  BY DEF Birth, IInv, Objects
<1>2. Free(store) >= 3
  <2> DEFINE n == 3
  <2>1. Room(n) /\ n \in Nat
    BY DEF Birth
  <2> HIDE DEF n
  <2>2. Free(store) >= n
    BY ONLY <2>1, RoomIs
  <2> QED BY ONLY <2>2 DEF n
<1>3. Free(store) >= 1 /\ Free(store) >= 2
  <2>1. Free(store) \in Nat
    BY ONLY FreeType
  <2> QED BY ONLY <1>2, <2>1
<1>4. overwritten' = overwritten
  BY DEF Birth
<1>5. ASSUME Returns([op |-> "construct", on |-> o], Construct(store, o), <<>>) PROVE Keeps
  <2>1. Yields(store, Construct(store, o), o, <<>>)
    <3>1. Takes(store, Construct(store, o), o, <<>>)
      BY ONLY <1>1, o \in Names, ConstructIs
    <3> QED BY ONLY <1>1, <3>1, TakesYields
  <2>2. Promises([op |-> "construct", on |-> o], o, <<>>, <<>>)
    BY ONLY PromisesConstruct
  <2> QED BY ONLY <1>4, <1>5, <2>1, <2>2, IInv, o \in Names, ReturnsKeeps
<1>6. ASSUME NEW text \in Texts,
             Returns([op |-> "text", on |-> o, items |-> text], FromText(store, o, text), <<>>)
      PROVE  Keeps
  <2>1. text \in Seq(Items)
    BY ContainersAssumption
  <2>2. Yields(store, FromText(store, o, text), o, text)
    BY ONLY <1>1, <1>3, <2>1, o \in Names, FromTextIs
  <2>3. Promises([op |-> "text", on |-> o, items |-> text], o, text, <<>>)
    BY ONLY PromisesText
  <2> QED BY ONLY <1>4, <1>6, <2>2, <2>3, IInv, o \in Names, ReturnsKeeps
<1>7. ASSUME NEW p \in Objects,
             Returns([op |-> "copy", on |-> o, of |-> p], Copy(store, o, p), <<>>)
      PROVE  Keeps
  <2>1. p \in DOMAIN store.arrays /\ o # p /\ o \in Names \cup {Parameter}
    BY <1>1 DEF Objects
  <2>2. Takes(store, Copy(store, o, p), o, Val(store, p))
    BY ONLY <1>1, <1>3, <2>1, CopyIs
  <2>3. Yields(store, Copy(store, o, p), o, Val(store, p))
    BY ONLY <1>1, <2>2, TakesYields
  <2>4. Promises([op |-> "copy", on |-> o, of |-> p], o, Val(store, p), <<>>)
    BY ONLY p \in Objects, PromisesCopy
  <2> QED BY ONLY <1>4, <1>7, <2>3, <2>4, IInv, o \in Names, ReturnsKeeps
<1>8. ASSUME NEW p \in Objects, NEW q \in Objects, Size(store, p) + Size(store, q) \in 1 .. MaxSize,
             Returns([op |-> "plus", on |-> o, of |-> p, and |-> q], Plus(store, o, p, q), <<>>)
      PROVE  Keeps
  <2>1. p \in DOMAIN store.arrays /\ q \in DOMAIN store.arrays
    BY DEF Objects
  <2>2. Yields(store, Plus(store, o, p, q), o, Val(store, p) \o Val(store, q))
    BY ONLY <1>1, <1>2, <2>1, o \in Names, PlusIs
  <2>3. ~ (Val(store, p) = <<>> /\ Val(store, q) = <<>>)
    <3> SUFFICES ASSUME Val(store, p) = <<>>, Val(store, q) = <<>> PROVE FALSE
      OBVIOUS
    <3>1. Len(Val(store, p)) = Size(store, p) /\ Len(Val(store, q)) = Size(store, q)
      BY ONLY <1>1, <2>1, ValLen
    <3>2. Size(store, p) = 0 /\ Size(store, q) = 0
      BY <3>1
    <3> QED BY ONLY <1>8, <3>2
  <2>4. Promises([op |-> "plus", on |-> o, of |-> p, and |-> q], o, Val(store, p) \o Val(store, q), <<>>)
    BY ONLY <2>3, p \in Objects, q \in Objects, PromisesPlus
  <2> QED BY ONLY <1>4, <1>8, <2>2, <2>4, IInv, o \in Names, ReturnsKeeps
<1> QED BY ONLY <1>5, <1>6, <1>7, <1>8, Birth(o) DEF Birth

LEMMA DeathKeeps ==
  ASSUME IInv, NEW o \in Objects, Death(o)
  PROVE  Keeps
<1> DEFINE c == [op |-> "destruct", on |-> o]
           S == [p \in Objects |-> Value(p)]
           T == [p \in Objects' |-> Value(p)']
<1>1. /\ ~ halted /\ call' = c /\ store' = Destruct(store, o) /\ answer' = <<>> /\ halted' = halted
      /\ overwritten' = overwritten
  BY DEF Death, Returns
<1>2. Good(store) /\ o \in DOMAIN store.arrays
  BY DEF IInv, Objects
<1>3. Leaves(store, store', o)
  <2>1. Leaves(store, Destruct(store, o), o)
    BY ONLY <1>2, DestructIs
  <2> QED BY ONLY <1>1, <2>1
<1>4. IInv'
  BY ONLY <1>1, <1>3, IInv, LeavesInv
<1>5. Good(store') /\ Kept(store, store', o) /\ DOMAIN store'.arrays = DOMAIN store.arrays \ {o}
  BY ONLY <1>3 DEF Leaves
<1>6. ASSUME NEW p \in DOMAIN store.arrays, p # o PROVE Val(store', p) = Val(store, p)
  BY ONLY <1>2, <1>5, <1>6, KeptValue
<1>7. \A p : Value(p)' = Val(store', p)
  BY DEF Value, Val
<1>8. T = [p \in DOMAIN S \ {o} |-> S[p]]
  <2>1. T = [p \in DOMAIN store'.arrays |-> Val(store', p)]
    BY ONLY <1>7 DEF Objects
  <2>2. S = [p \in DOMAIN store.arrays |-> Val(store, p)]
    BY ONLY ValueIs DEF Objects
  <2> HIDE DEF S, T
  <2> QED BY ONLY <1>5, <1>6, <2>1, <2>2
<1>9. /\ call'.op # "none" /\ ~ Promise!Endless(call') /\ call'.op = "destruct" /\ call'.on = o
      /\ Promise!Answered(call') = <<>>
  BY <1>1 DEF Promise!Endless, Promise!Answered
<1>10. Promise!Call
  BY ONLY <1>1, <1>8, <1>9 DEF Promise!Call
<1> QED BY ONLY <1>4, <1>10 DEF Keeps, Promise!ANext

LEMMA AssignKeeps ==
  ASSUME IInv, NEW o \in Objects, NEW p \in Objects, Assign(o, p)
  PROVE  Keeps
<1> DEFINE c == [op |-> "assign", on |-> o, of |-> p]
           v == Val(store, p)
<1>1. /\ ~ halted /\ call' = c /\ store' = Copy(store, o, p) /\ answer' = <<>> /\ halted' = halted
      /\ overwritten' = overwritten + (IF store.arrays[o].data = Null THEN 0 ELSE 1)
      /\ o # p /\ Room(3)
  BY DEF Assign, Returns
<1>2. Good(store) /\ o \in DOMAIN store.arrays /\ p \in DOMAIN store.arrays /\ o \in Names
  BY DEF IInv, Objects
<1>3. Free(store) >= 1
  <2> DEFINE n == 3
  <2>1. Room(n) /\ n \in Nat
    BY <1>1
  <2> HIDE DEF n
  <2>2. Free(store) >= n
    BY ONLY <2>1, RoomIs
  <2>3. Free(store) \in Nat
    BY ONLY FreeType
  <2> QED BY ONLY <2>2, <2>3 DEF n
<1>4. Takes(store, store', o, v)
  <2>1. o \in Names \cup {Parameter}
    BY <1>2
  <2>2. Takes(store, Copy(store, o, p), o, v)
    BY ONLY <1>1, <1>2, <1>3, <2>1, CopyIs
  <2> QED BY ONLY <1>1, <2>2
<1>5. IInv'
  BY ONLY <1>1, <1>4, IInv, o \in Objects, TakesInv
<1>6. Changed(o, v)
  BY ONLY <1>4 DEF Takes, Changed
<1>7. Promises(c, o, v, <<>>)
  BY ONLY p \in Objects, PromisesAssign
<1> HIDE DEF c, v
<1>8. Promise!Call
  BY ONLY <1>1, <1>2, <1>6, <1>7, IInv, CallKept
<1> QED BY ONLY <1>5, <1>8 DEF Keeps, Promise!ANext

LEMMA ExtendKeeps ==
  ASSUME IInv, NEW o \in Objects, Extend(o)
  PROVE  Keeps
<1> DEFINE v == Val(store, o)
<1>1. Good(store) /\ o \in DOMAIN store.arrays /\ DOMAIN store.arrays \subseteq Names /\ o \in Names
  BY DEF IInv, Objects
<1>2. Free(store) >= 2
  <2> DEFINE n == 2
  <2>1. Room(n) /\ n \in Nat
    BY DEF Extend
  <2> HIDE DEF n
  <2>2. Free(store) >= n
    BY ONLY <2>1, RoomIs
  <2> QED BY ONLY <2>2 DEF n
<1>3. Free(store) >= 1
  <2>1. Free(store) \in Nat
    BY ONLY FreeType
  <2> QED BY ONLY <1>2, <2>1
<1>4. overwritten' = overwritten
  BY DEF Extend
<1>5. v \in Seq(Items) /\ Len(v) = Size(store, o) /\ Size(store, o) \in Nat
  BY ONLY <1>1, ValIs, ValLen, SizeType
<1>6. ASSUME NEW item \in Items, NEW index \in Positions(o),
             Returns([op |-> "insert", on |-> o, item |-> item, index |-> index],
                     insertItem(store, o, item, index), <<>>)
      PROVE  Keeps
  <2>1. index \in 0 .. Size(store, o) /\ index \in Nat
    BY <1>5 DEF Positions
  <2>2. Becomes(store, insertItem(store, o, item, index), o, Spliced(v, <<item>>, index))
    BY ONLY <1>1, <1>3, <2>1, item \in Items, InsertItem
  <2>3. SubSeq(v, 1, index) \o <<item>> \o SubSeq(v, index + 1, Len(v)) = Spliced(v, <<item>>, index)
    <3>1. index \in 0 .. Len(v) /\ <<item>> \in Seq(Items)
      BY <1>5, <2>1
    <3> HIDE DEF v
    <3>2. ASSUME NEW w \in Seq(Items)
          PROVE  SubSeq(v, 1, index) \o w \o SubSeq(v, index + 1, Len(v)) = Spliced(v, w, index)
      BY ONLY <1>5, <3>1, w \in Seq(Items), SpliceIs
    <3> QED BY ONLY <3>1, <3>2
  <2>4. Yields(store, insertItem(store, o, item, index), o, Spliced(v, <<item>>, index))
    BY ONLY <2>2, BecomesYields
  <2>5. Promises([op |-> "insert", on |-> o, item |-> item, index |-> index], o,
                 SubSeq(v, 1, index) \o <<item>> \o SubSeq(v, index + 1, Len(v)), <<>>)
    BY ONLY <2>1, o \in Objects, PromisesInsert
  <2> HIDE DEF v
  <2>6. Promises([op |-> "insert", on |-> o, item |-> item, index |-> index], o, Spliced(v, <<item>>, index), <<>>)
    BY ONLY <2>3, <2>5
  <2> QED BY ONLY <1>1, <1>4, <1>6, <2>4, <2>6, IInv, ReturnsKeeps
<1>7. ASSUME NEW item \in Items,
             Returns([op |-> "push", on |-> o, item |-> item], push(store, o, item), <<>>)
      PROVE  Keeps
  <2>1. Becomes(store, push(store, o, item), o, Append(v, item))
    BY ONLY <1>1, <1>3, item \in Items, Push
  <2>2. Yields(store, push(store, o, item), o, Append(v, item))
    BY ONLY <2>1, BecomesYields
  <2>3. Promises([op |-> "push", on |-> o, item |-> item], o, Append(v, item), <<>>)
    BY ONLY o \in Objects, PromisesPush
  <2> HIDE DEF v
  <2> QED BY ONLY <1>1, <1>4, <1>7, <2>2, <2>3, IInv, ReturnsKeeps
<1>8. ASSUME NEW p \in Objects, NEW index \in Positions(o), ~ Endless(store, p, index),
             Returns([op |-> "insertAll", on |-> o, of |-> p, index |-> index],
                     insertAll(store, o, p, index), <<>>)
      PROVE  Keeps
  <2> DEFINE w == Val(store, p)
  <2>1. index \in 0 .. Size(store, o) /\ index \in Nat /\ p \in DOMAIN store.arrays
    BY <1>5 DEF Positions, Objects
  <2>2. w \in Seq(Items) /\ Len(w) = Size(store, p) /\ Size(store, p) \in Nat
    BY ONLY <1>1, <2>1, ValIs, ValLen, SizeType
  <2>3. ~ (index = 0 /\ w = <<>>)
    <3> SUFFICES ASSUME index = 0, w = <<>> PROVE FALSE
      OBVIOUS
    <3>1. Size(store, p) = 0
      BY <2>2
    <3>2. index + Size(store, p) = 0
      BY ONLY <3>1, index = 0
    <3> QED BY ONLY <1>8, <3>2 DEF Endless
  <2>4. Yields(store, insertAll(store, o, p, index), o, Spliced(v, w, index))
    BY ONLY <1>1, <1>2, <2>1, InsertAll
  <2>5. Promises([op |-> "insertAll", on |-> o, of |-> p, index |-> index], o,
                 SubSeq(v, 1, index) \o w \o SubSeq(v, index + 1, Len(v)), <<>>)
    BY ONLY <2>1, <2>3, o \in Objects, p \in Objects, PromisesInsertAll
  <2> HIDE DEF v, w
  <2>6. SubSeq(v, 1, index) \o w \o SubSeq(v, index + 1, Len(v)) = Spliced(v, w, index)
    <3>1. index \in 0 .. Len(v)
      BY ONLY <1>5, <2>1
    <3> QED BY ONLY <1>5, <2>2, <3>1, SpliceIs
  <2>7. Promises([op |-> "insertAll", on |-> o, of |-> p, index |-> index], o, Spliced(v, w, index), <<>>)
    BY ONLY <2>5, <2>6
  <2> QED BY ONLY <1>1, <1>4, <1>8, <2>4, <2>7, IInv, ReturnsKeeps
<1> QED BY ONLY <1>6, <1>7, <1>8, Extend(o) DEF Extend

LEMMA ShrinkKeeps ==
  ASSUME IInv, NEW o \in Objects, Shrink(o)
  PROVE  Keeps
<1> DEFINE n == Size(store, o)
<1>1. Good(store) /\ o \in DOMAIN store.arrays /\ o \in Names /\ overwritten' = overwritten
  BY DEF IInv, Objects, Shrink
<1>2. n \in Nat
  BY ONLY <1>1, SizeType
<1>3. ASSUME NEW start \in 0 .. n, NEW end \in start .. n,
             Returns([op |-> "erase", on |-> o, start |-> start, end |-> end],
                     erase(store, o, start, end), <<>>)
      PROVE  Keeps
  <2>1. Becomes(store, erase(store, o, start, end), o, Erased(Val(store, o), start, end))
    BY ONLY <1>1, start \in 0 .. n, end \in start .. n, Erase
  <2>2. Yields(store, erase(store, o, start, end), o, Erased(Val(store, o), start, end))
    BY ONLY <2>1, BecomesYields
  <2>3. Promises([op |-> "erase", on |-> o, start |-> start, end |-> end], o,
                 Erased(Val(store, o), start, end), <<>>)
    BY ONLY o \in Objects, PromisesErase
  <2> QED BY ONLY <1>1, <1>3, <2>2, <2>3, IInv, ReturnsKeeps
<1>4. ASSUME n > 0, Returns([op |-> "erase", on |-> o, start |-> n - 1, end |-> n], pop(store, o), <<>>)
      PROVE  Keeps
  <2> DEFINE start == n - 1
  <2>1. start \in 0 .. n /\ n \in start .. n
    BY ONLY <1>2, <1>4
  <2>2. Returns([op |-> "erase", on |-> o, start |-> start, end |-> n], erase(store, o, start, n), <<>>)
    BY ONLY <1>4 DEF pop
  <2> HIDE DEF start, n
  <2> QED BY ONLY <1>3, <2>1, <2>2
<1>5. ASSUME Returns([op |-> "erase", on |-> o, start |-> 0, end |-> n], clear(store, o), <<>>)
      PROVE  Keeps
  <2> DEFINE start == 0
  <2>1. start \in 0 .. n /\ n \in start .. n
    BY ONLY <1>2
  <2>2. Returns([op |-> "erase", on |-> o, start |-> start, end |-> n], erase(store, o, start, n), <<>>)
    BY ONLY <1>5 DEF clear
  <2> HIDE DEF start, n
  <2> QED BY ONLY <1>3, <2>1, <2>2
<1> QED BY ONLY <1>3, <1>4, <1>5, Shrink(o) DEF Shrink, Positions

LEMMA AskKeeps ==
  ASSUME IInv, NEW o \in Objects, Ask(o)
  PROVE  Keeps
<1> DEFINE v == Val(store, o)
<1>1. Good(store) /\ o \in DOMAIN store.arrays /\ o \in Names /\ overwritten' = overwritten
  BY DEF IInv, Objects, Ask
<1>2. Yields(store, store, o, v)
  <2>1. Turns(store, store, o, v)
    BY ONLY <1>1, StaysAsItIs
  <2>2. Kept(store, store, o)
    BY DEF Kept
  <2>3. DOMAIN store.arrays = DOMAIN store.arrays \cup {o}
    BY <1>1
  <2> QED BY ONLY <1>1, <2>2, <2>3 DEF Yields
<1>3. ASSUME Room(1),
             Returns([op |-> "getCharArr", on |-> o], getCharArr(store, o), <<CString(getCharArr(store, o), o)>>)
      PROVE  Keeps
  <2>1. Free(store) >= 1
    <3> DEFINE n == 1
    <3>1. Room(n) /\ n \in Nat
      BY <1>3
    <3> HIDE DEF n
    <3>2. Free(store) >= n
      BY ONLY <3>1, RoomIs
    <3> QED BY ONLY <3>2 DEF n
  <2>2. Shows(store, getCharArr(store, o), o)
    BY ONLY <1>1, <2>1, CharArr
  <2>3. Yields(store, getCharArr(store, o), o, v) /\ CString(getCharArr(store, o), o) = v
    BY ONLY <2>2 DEF Shows
  <2>4. Promises([op |-> "getCharArr", on |-> o], o, v, <<v>>)
    BY ONLY o \in Objects, PromisesCharArr
  <2> HIDE DEF v
  <2>5. Returns([op |-> "getCharArr", on |-> o], getCharArr(store, o), <<v>>)
    BY ONLY <1>3, <2>3
  <2> QED BY ONLY <1>1, <2>3, <2>4, <2>5, IInv, ReturnsKeeps
<1>4. ASSUME NEW item \in Items,
             Returns([op |-> "find", on |-> o, item |-> item], store, <<find(store, o, item)>>)
      PROVE  Keeps
  <2>1. find(store, o, item) = Place(v \o <<item>>, item) - 1
    BY ONLY <1>1, item \in Items, FindIs
  <2>2. Promises([op |-> "find", on |-> o, item |-> item], o, v, <<Place(v \o <<item>>, item) - 1>>)
    BY ONLY o \in Objects, PromisesFind
  <2> HIDE DEF v
  <2>3. Promises([op |-> "find", on |-> o, item |-> item], o, v, <<find(store, o, item)>>)
    BY ONLY <2>1, <2>2
  <2> QED BY ONLY <1>1, <1>2, <1>4, <2>3, IInv, ReturnsKeeps
<1>5. ASSUME NEW p \in Objects,
             Returns([op |-> "equal", on |-> o, of |-> p], store, <<Equal(store, o, p)>>)
      PROVE  Keeps
  <2>1. Equal(store, o, p) = (v = Val(store, p))
    <3>1. p \in DOMAIN store.arrays
      BY DEF Objects
    <3> QED BY ONLY <1>1, <3>1, EqualIs
  <2>2. Promises([op |-> "equal", on |-> o, of |-> p], o, v, <<v = Val(store, p)>>)
    BY ONLY o \in Objects, p \in Objects, PromisesEqual
  <2>3. Promises([op |-> "equal", on |-> o, of |-> p], o, v, <<Equal(store, o, p)>>)
    BY ONLY <2>1, <2>2, Zenon
  <2> HIDE DEF v
  <2> QED BY ONLY <1>1, <1>2, <1>5, <2>3, IInv, ReturnsKeeps
<1> QED BY ONLY <1>3, <1>4, <1>5, Ask(o) DEF Ask

LEMMA NothingKeeps ==
  ASSUME IInv, NEW o \in Objects, NEW p \in Objects, InsertNothing(o, p)
  PROVE  Keeps
<1>1. /\ Endless(store, p, 0) /\ call' = [op |-> "insertAll", on |-> o, of |-> p, index |-> 0]
      /\ halted' = TRUE /\ store' = store /\ overwritten' = overwritten
  BY DEF InsertNothing
<1>2. Val(store, p) = <<>>
  <2>1. Good(store) /\ p \in DOMAIN store.arrays
    BY DEF IInv, Objects
  <2>2. Size(store, p) = 0
    <3>1. Size(store, p) \in Nat
      BY ONLY <2>1, SizeType
    <3> QED BY ONLY <1>1, <3>1 DEF Endless
  <2>3. Val(store, p) \in Seq(Items) /\ Len(Val(store, p)) = 0
    BY ONLY <2>1, <2>2, ValIs, ValLen
  <2> QED BY <2>3
<1>3. Promise!Endless(call')
  BY <1>1, <1>2, ValueIs DEF Promise!Endless
<1>4. IInv'
  BY <1>1 DEF IInv, Objects
<1> QED BY ONLY <1>1, <1>3, <1>4 DEF Keeps, Promise!ANext, Promise!Halt

LEMMA NextKeeps ==
  ASSUME IInv, Next
  PROVE  Keeps
BY BirthKeeps, DeathKeeps, AssignKeeps, ExtendKeeps, ShrinkKeeps, AskKeeps, NothingKeeps, Zenon DEF Next

LEMMA StutterKeeps ==
  ASSUME IInv, UNCHANGED avars
  PROVE  IInv' /\ UNCHANGED <<[o \in Objects |-> Value(o)], call, answer, halted>>
<1>1. store' = store /\ overwritten' = overwritten /\ call' = call /\ answer' = answer /\ halted' = halted
  BY DEF avars
<1>2. IInv'
  BY <1>1 DEF IInv, Objects
<1>3. [o \in Objects |-> Value(o)]' = [o \in Objects |-> Value(o)]
  BY ONLY <1>1 DEF Objects, Value, Size, Get, Load, Inside
<1> QED BY <1>1, <1>2, <1>3

\* IInv is inductive: no call of the library leaves two live arrays on one
\* buffer, an array longer than the room it has, or reads or writes outside a
\* buffer, and a buffer is lost only by operator=, one each time.
THEOREM ContainersInvariant == Spec => []IInv
<1>1. Init => IInv
  BY InitInv
<1>2. IInv /\ [Next]_avars => IInv'
  BY NextKeeps, StutterKeeps DEF Keeps
<1> QED BY <1>1, <1>2, PTL DEF Spec

\* The buffers of the live objects are their own, and all the memory that is
\* out is theirs, but for one buffer for each assignment over a value: the
\* operator= of Array does not delete what it had.
THEOREM BuffersStayOwned == Spec => []BuffersOwned
<1>1. IInv => BuffersOwned
  BY Owned
<1> QED BY <1>1, ContainersInvariant, PTL

\* Array and String do to the sequences they stand for what ArraySpec promises
\* of each call, and answer it: growth, copies into a larger buffer and the
\* loops that move items up and down do not show.
THEOREM ArraysImplementSequences == Spec => ArraysAreSequences
<1>1. Init => Promise!AInit
  <2> SUFFICES ASSUME Init PROVE Promise!AInit
    OBVIOUS
  <2>1. DOMAIN store.arrays = {} /\ answer = <<>> /\ halted = FALSE
    BY DEF Init
  <2>2. [o \in Objects |-> Value(o)] = <<>>
    BY <2>1 DEF Objects
  <2> QED BY <2>1, <2>2 DEF Promise!AInit
<1>2. IInv /\ [Next]_avars => [Promise!ANext]_<<[o \in Objects |-> Value(o)], call, answer, halted>>
  BY NextKeeps, StutterKeeps DEF Keeps
<1> QED BY <1>1, <1>2, ContainersInvariant, PTL DEF Spec, ArraysAreSequences, Promise!ASpec

=============================================================================
