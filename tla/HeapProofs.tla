------------------------------ MODULE HeapProofs ------------------------------
(***************************************************************************)
(* Theorems about Heap, for every size of a page, every number of pages,   *)
(* every size asked for and everything that callers write.                 *)
(***************************************************************************)
EXTENDS Heap, WellFoundedInduction, TLAPS

-----------------------------------------------------------------------------
(* The list, as a set of headers: what Tiles says, of any memory m and end *)
(* e of the pages, and that every header but the first is the next one of  *)
(* some other.  That the recursive function Chain reaches just the headers *)
(* of this set is HeadsAre, below.                                         *)

BlockIn(m, e, H, h) ==
  LET after == h + HeadSize + m[h]
  IN  /\ m[h + 1] \in {HEAD_ALLOCATED, HEAD_FREE}
      /\ after <= e
      /\ \A g \in H : g > h => g >= after
      /\ m[h + 2] = Null => after = e /\ m[h] > 0
      /\ m[h + 2] # Null =>
           /\ m[h + 2] = after /\ after \in H
           /\ m[after + 3] = h \/ m[after + 3] \in h + HeadSize .. after - HeadSize

TilesIn(m, e, H) ==
  /\ Base \in H
  /\ \A h \in H : h \in Nat /\ Base <= h /\ h + HeadSize <= e
  /\ m[Base + 3] = Null
  /\ \A h \in H : BlockIn(m, e, H, h)
  /\ \A h \in H : h # Base => \E g \in H : m[g + 2] = h

Memory == [Address -> Nat]
Limit == Base + MaxPages * PageSize

LEMMA HeadWords ==
  ASSUME NEW e \in Nat, e <= Limit, NEW h \in Nat, Base <= h, h + HeadSize <= e
  PROVE  h \in Address /\ h + 1 \in Address /\ h + 2 \in Address /\ h + 3 \in Address
<1> DEFINE words == MaxPages * PageSize
<1>1. words \in Nat /\ Base \in Nat
  BY HeapAssumption
<1>2. Limit = Base + words /\ Address = Base .. Base + words - 1
  BY DEF Address, Limit
<1> HIDE DEF words
<1> QED BY <1>1, <1>2 DEF HeadSize

\* The headers of a list do not overlap.
LEMMA HeadsApart ==
  ASSUME NEW e \in Nat, e <= Limit, NEW m \in Memory, NEW H, TilesIn(m, e, H),
         NEW g \in H, NEW h \in H, g # h
  PROVE  /\ g + HeadSize <= h \/ h + HeadSize <= g
         /\ g < h => g + HeadSize + m[g] <= h
<1>1. g \in Nat /\ h \in Nat /\ m[g] \in Nat /\ m[h] \in Nat
  BY HeadWords DEF TilesIn, Memory
<1>2. (g < h => h >= g + HeadSize + m[g]) /\ (h < g => g >= h + HeadSize + m[h])
  BY DEF TilesIn, BlockIn
<1> QED BY <1>1, <1>2 DEF HeadSize

\* What is no size, next or prev of a header does not matter, and a tag is
\* one of two.
LEMMA SameLinks ==
  ASSUME NEW e \in Nat, NEW m, NEW m2, NEW H, TilesIn(m, e, H),
         \A h \in H : m2[h] = m[h] /\ m2[h + 2] = m[h + 2] /\ m2[h + 3] = m[h + 3],
         \A h \in H : m2[h + 1] \in {HEAD_ALLOCATED, HEAD_FREE}
  PROVE  TilesIn(m2, e, H)
<1>1. \A h \in H : BlockIn(m2, e, H, h)
  BY DEF TilesIn, BlockIn
<1> QED BY <1>1 DEF TilesIn

\* mergeBlocks of a block and its next.
LEMMA Merge ==
  ASSUME NEW e \in Nat, e <= Limit, NEW m \in Memory, NEW H, TilesIn(m, e, H),
         NEW h \in H, NEW n \in H, m[h + 2] = n
  PROVE  LET m2 == mergeBlocks(m, h, n)
         IN  /\ m2 \in Memory /\ TilesIn(m2, e, H \ {n})
             /\ m2[h] = m[h] + m[n] + HeadSize
             /\ n = h + HeadSize + m[h]
             /\ \A g \in H \ {n} : m2[g + 1] = m[g + 1] /\ m2[g + 3] = m[g + 3]
                                   /\ (g # h => m2[g] = m[g])
<1> DEFINE m2 == mergeBlocks(m, h, n)
<1> USE DEF HeadSize, Null
<1>1. \A g \in H : /\ g \in Nat /\ g \in Address /\ g + 1 \in Address
                   /\ g + 2 \in Address /\ g + 3 \in Address
                   /\ g >= Base /\ g + 4 <= e
  BY HeadWords DEF TilesIn
<1>2. Base \in Nat \ {0}
  BY HeapAssumption
<1>3. /\ n = h + 4 + m[h] /\ n > h
      /\ m[h] \in Nat /\ m[n] \in Nat /\ m[h + 2] \in Nat /\ m[n + 2] \in Nat
  <2>1. m[h] \in Nat /\ m[n] \in Nat /\ m[h + 2] \in Nat /\ m[n + 2] \in Nat
    BY <1>1 DEF Memory
  <2>2. n # 0
    BY <1>1, <1>2
  <2>3. n = h + 4 + m[h]
    BY <2>2 DEF TilesIn, BlockIn
  <2> QED BY <1>1, <2>1, <2>3
<1>4. \A a \in Address : m2[a] = IF a = h + 2 THEN m[n + 2]
                                 ELSE IF a = h THEN m[h] + m[n] + 4 ELSE m[a]
  BY <1>1 DEF mergeBlocks, Memory
<1>5. m2 \in Memory
  <2>1. m[h] + m[n] + 4 \in Nat
    BY <1>3
  <2> QED BY <1>1, <1>3, <2>1 DEF mergeBlocks, Memory
<1> HIDE DEF m2
<1>6. \A g \in H \ {h} : /\ m2[g] = m[g] /\ m2[g + 1] = m[g + 1]
                         /\ m2[g + 2] = m[g + 2] /\ m2[g + 3] = m[g + 3]
  <2> TAKE g \in H \ {h}
  <2>1. g + 4 <= h \/ h + 4 <= g
    BY HeadsApart
  <2>2. /\ g # h + 2 /\ g + 1 # h + 2 /\ g + 2 # h + 2 /\ g + 3 # h + 2
        /\ g # h /\ g + 1 # h /\ g + 2 # h /\ g + 3 # h
    BY <1>1, <2>1
  <2> QED BY <1>1, <1>4, <2>2
<1>7. m2[h] = m[h] + m[n] + 4 /\ m2[h + 1] = m[h + 1] /\ m2[h + 2] = m[n + 2] /\ m2[h + 3] = m[h + 3]
  BY <1>1, <1>4
<1>8. h + 4 + m2[h] = n + 4 + m[n]
  BY <1>1, <1>3, <1>7
<1> DEFINE H2 == H \ {n}
<1>9. Base \in H2 /\ m2[Base + 3] = 0
  <2>1. Base # n
    BY <1>1, <1>2, <1>3
  <2>2. m2[Base + 3] = m[Base + 3]
    BY <1>6, <1>7 DEF TilesIn
  <2> QED BY <2>1, <2>2 DEF TilesIn
<1>10. BlockIn(m, e, H, n) /\ BlockIn(m, e, H, h)
  BY DEF TilesIn
<1>11. BlockIn(m2, e, H2, h)
  <2> DEFINE after == n + 4 + m[n]
  <2>1. after <= e /\ after \in Nat /\ after > n /\ h + 4 + m2[h] = after
    BY <1>1, <1>3, <1>8, <1>10 DEF BlockIn
  <2>2. ASSUME NEW g \in H2, g > h PROVE g >= after
    <3>1. g >= n
      BY <1>10, <1>3, <2>2 DEF BlockIn
    <3>2. g > n
      BY <1>1, <3>1
    <3> QED BY <1>10, <3>2 DEF BlockIn
  <2>3. m[n + 2] = 0 => after = e
    BY <1>10 DEF BlockIn
  <2>4. m[n + 2] # 0 =>
          /\ m[n + 2] = after /\ after \in H
          /\ m[after + 3] = n \/ m[after + 3] \in n + 4 .. after - 4
    BY <1>10 DEF BlockIn
  <2> HIDE DEF after
  <2>5. ASSUME m[n + 2] # 0
        PROVE  after \in H2 /\ m2[after + 3] \in h + 4 .. after - 4
    <3>1. after # n /\ after # h /\ after \in H
      BY <1>1, <1>3, <2>1, <2>4, <2>5
    <3>2. m2[after + 3] = m[after + 3]
      BY <1>6, <3>1
    <3>3. m[after + 3] \in h + 4 .. after - 4
      <4>1. after >= n + 4
        BY <1>10, <2>4, <2>5, <3>1, HeadsApart, <2>1
      <4> QED BY <1>1, <1>3, <2>1, <2>4, <2>5, <4>1
    <3> QED BY <3>1, <3>2, <3>3
  <2>6. m2[h + 1] \in {HEAD_ALLOCATED, HEAD_FREE}
    BY <1>7, <1>10 DEF BlockIn
  <2>7. m2[h] > 0
    BY <1>3, <1>7
  <2> QED BY <1>7, <2>1, <2>2, <2>3, <2>4, <2>5, <2>6, <2>7 DEF BlockIn
<1>12. ASSUME NEW g \in H2, g # h PROVE BlockIn(m2, e, H2, g)
  <2> DEFINE after == g + 4 + m[g]
  <2>1. BlockIn(m, e, H, g) /\ m2[g] = m[g] /\ m2[g + 1] = m[g + 1] /\ m2[g + 2] = m[g + 2]
    BY <1>6, <1>12 DEF TilesIn
  <2>2. ASSUME m[g + 2] # 0 PROVE after \in H2 /\ m2[after + 3] = m[after + 3]
    <3>1. m[g + 2] = after /\ after \in H
      BY <2>1, <2>2 DEF BlockIn
    <3>2. m[g] \in Nat
      BY <1>1 DEF Memory
    <3>3. after # n
      <4> SUFFICES ASSUME after = n PROVE FALSE
        OBVIOUS
      <4>1. CASE g < h
        <5>1. h >= after
          BY <2>1, <4>1 DEF BlockIn
        <5> QED BY <1>1, <1>3, <5>1
      <4>2. CASE g > h
        <5>1. g >= n
          BY <1>3, <1>10, <4>2 DEF BlockIn
        <5> QED BY <1>1, <3>2, <5>1
      <4> QED BY <1>1, <1>12, <4>1, <4>2
    <3>4. m2[after + 3] = m[after + 3]
      BY <1>6, <1>7, <3>1
    <3> QED BY <3>1, <3>3, <3>4
  <2> QED BY <2>1, <2>2 DEF BlockIn
<1>13. ASSUME NEW g \in H2, g # Base PROVE \E f \in H2 : m2[f + 2] = g
  <2>1. PICK f \in H : m[f + 2] = g
    BY <1>13 DEF TilesIn
  <2>2. CASE f = n
    BY <1>1, <1>3, <1>7, <2>1, <2>2
  <2>3. CASE f # n
    <3>1. f # h
      BY <2>1
    <3> QED BY <1>6, <2>1, <2>3, <3>1
  <2> QED BY <2>2, <2>3
<1>14. TilesIn(m2, e, H2)
  BY <1>1, <1>9, <1>11, <1>12, <1>13 DEF TilesIn
<1> QED BY <1>3, <1>5, <1>6, <1>7, <1>14 DEF m2

\* What lies in a block is no word of a header.
LEMMA BodyApart ==
  ASSUME NEW e \in Nat, e <= Limit, NEW m \in Memory, NEW H, TilesIn(m, e, H),
         NEW h \in H, NEW a \in Nat, h + HeadSize <= a, a < h + HeadSize + m[h]
  PROVE  /\ a \in Address
         /\ \A g \in H : a # g /\ a # g + 1 /\ a # g + 2 /\ a # g + 3
<1>1. \A g \in H : g \in Nat /\ g \in Address /\ m[g] \in Nat
  BY HeadWords DEF TilesIn, Memory
<1>2. ASSUME NEW g \in H PROVE a # g /\ a # g + 1 /\ a # g + 2 /\ a # g + 3
  <2>1. CASE g = h
    BY <1>1, <2>1 DEF HeadSize
  <2>2. CASE g < h
    <3>1. g + HeadSize + m[g] <= h
      BY <1>1, <2>2, HeadsApart
    <3> QED BY <1>1, <3>1 DEF HeadSize
  <2>3. CASE g > h
    <3>1. h + HeadSize + m[h] <= g
      BY <1>1, <2>3, HeadsApart
    <3> QED BY <1>1, <3>1 DEF HeadSize
  <2> QED BY <1>1, <2>1, <2>2, <2>3
<1>3. a \in Address
  <2>1. h + HeadSize + m[h] <= e /\ h >= Base
    BY DEF TilesIn, BlockIn
  <2>2. Base \in Nat /\ MaxPages * PageSize \in Nat
    BY HeapAssumption
  <2> DEFINE words == MaxPages * PageSize
  <2>3. Limit = Base + words /\ Address = Base .. Base + words - 1 /\ words \in Nat
    BY <2>2 DEF Address, Limit
  <2> HIDE DEF words
  <2> QED BY <1>1, <2>1, <2>2, <2>3 DEF HeadSize
<1> QED BY <1>2, <1>3

\* A block cut in two, as Split does it.
CutIn(m, h, s) ==
  LET next_head == h + HeadSize + s
      next == m[h + 2]
      cut == Header(m, next_head, m[h] - s - HeadSize, HEAD_FREE, next, h)
      linked == IF next = Null THEN cut ELSE [cut EXCEPT ![next + 3] = next_head]
  IN  [linked EXCEPT ![h] = s, ![h + 2] = next_head]

LEMMA Cut ==
  ASSUME NEW e \in Nat, e <= Limit, NEW m \in Memory, NEW H, TilesIn(m, e, H),
         NEW h \in H, NEW s \in Nat, m[h] - s > HeadSize
  PROVE  /\ CutIn(m, h, s) \in Memory
         /\ TilesIn(CutIn(m, h, s), e, H \cup {h + HeadSize + s})
         /\ CutIn(m, h, s)[h] = s
         /\ CutIn(m, h, s)[h + HeadSize + s + 1] = HEAD_FREE
         /\ \A g \in H : /\ CutIn(m, h, s)[g + 1] = m[g + 1]
                         /\ g # h => CutIn(m, h, s)[g] = m[g]
<1> DEFINE m2 == CutIn(m, h, s)
           x == h + HeadSize + s
           n == m[h + 2]
           H2 == H \cup {x}
<1> USE DEF HeadSize, Null, HEAD_FREE, HEAD_ALLOCATED
<1>1. \A g \in H : /\ g \in Nat /\ Base <= g /\ g + 4 <= e /\ g # 0
                   /\ g \in Address /\ g + 1 \in Address /\ g + 2 \in Address /\ g + 3 \in Address
                   /\ m[g] \in Nat /\ m[g + 2] \in Nat
  <2>1. \A g \in H : g \in Nat /\ Base <= g /\ g + 4 <= e
    BY DEF TilesIn
  <2>2. \A g \in H : g \in Address /\ g + 1 \in Address /\ g + 2 \in Address /\ g + 3 \in Address
    BY <2>1, HeadWords
  <2> QED BY <2>1, <2>2, HeapAssumption DEF Memory
<1>2. BlockIn(m, e, H, h) /\ n \in Nat
  BY <1>1 DEF TilesIn
<1>3. /\ x = h + 4 + s /\ x \in Nat /\ h + 4 <= x /\ x + 4 < h + 4 + m[h] /\ x + 4 <= e /\ Base <= x
      /\ h + 4 + m[h] <= e /\ m[h] - s - 4 \in Nat /\ x + 4 + (m[h] - s - 4) = h + 4 + m[h]
  BY <1>1, <1>2, HeapAssumption DEF BlockIn
<1> HIDE DEF x
<1>4. x \in Address /\ x + 1 \in Address /\ x + 2 \in Address /\ x + 3 \in Address
  BY <1>3, HeadWords
<1>5. n # 0 => n \in H /\ n = h + 4 + m[h] /\ n \in Nat /\ n + 3 \in Address
  BY <1>1, <1>2 DEF BlockIn
<1>6. m2 = [(IF n = 0 THEN Header(m, x, m[h] - s - 4, 70, n, h)
             ELSE [Header(m, x, m[h] - s - 4, 70, n, h) EXCEPT ![n + 3] = x])
             EXCEPT ![h] = s, ![h + 2] = x]
  BY DEF CutIn, x
<1> HIDE DEF n, m2
<1>7. m2 \in Memory
  <2>1. h \in Nat /\ n \in Nat
    BY <1>1, <1>2
  <2>2. Header(m, x, m[h] - s - 4, 70, n, h) \in Memory
    BY <1>3, <2>1 DEF Memory, Header
  <2> QED BY <1>3, <1>6, <2>2 DEF Memory
<1>8. \A a \in Address :
        m2[a] = IF a = h + 2 THEN x ELSE IF a = h THEN s
                ELSE IF n # 0 /\ a = n + 3 THEN x
                ELSE IF a = x + 3 THEN h ELSE IF a = x + 2 THEN n
                ELSE IF a = x + 1 THEN 70 ELSE IF a = x THEN m[h] - s - 4 ELSE m[a]
  <2>1. \A a \in Address : Header(m, x, m[h] - s - 4, 70, n, h)[a] =
          IF a = x + 3 THEN h ELSE IF a = x + 2 THEN n
          ELSE IF a = x + 1 THEN 70 ELSE IF a = x THEN m[h] - s - 4 ELSE m[a]
    BY <1>3, <1>4 DEF Header, Memory
  <2>2. Header(m, x, m[h] - s - 4, 70, n, h) \in [Address -> Nat]
    <3>1. h \in Nat /\ n \in Nat
      BY <1>1, <1>2 DEF n
    <3> QED BY <1>3, <3>1 DEF Memory, Header
  <2> DEFINE c == Header(m, x, m[h] - s - 4, 70, n, h)
  <2> HIDE DEF c
  <2>3. c \in [Address -> Nat] /\ m2 = [(IF n = 0 THEN c ELSE [c EXCEPT ![n + 3] = x])
                                          EXCEPT ![h] = s, ![h + 2] = x]
    BY <1>6, <2>2 DEF c
  <2>4. \A a \in Address : m2[a] = IF a = h + 2 THEN x ELSE IF a = h THEN s
                                   ELSE IF n # 0 /\ a = n + 3 THEN x ELSE c[a]
    BY <1>1, <1>5, <2>3
  <2> QED BY <2>1, <2>4 DEF c
<1>9. \A g \in H : g # h => /\ g + 4 <= h \/ h + 4 + m[h] <= g
                            /\ n # 0 /\ g # n => g + 4 <= n \/ n + 4 <= g
  <2> TAKE g \in H
  <2> HAVE g # h
  <2>1. g + 4 <= h \/ h + 4 + m[h] <= g
    BY <1>1, HeadsApart
  <2>2. n # 0 /\ g # n => g + 4 <= n \/ n + 4 <= g
    BY <1>5, HeadsApart
  <2> QED BY <2>1, <2>2
<1>10. \A g \in H : g # h =>
         /\ m2[g] = m[g] /\ m2[g + 1] = m[g + 1] /\ m2[g + 2] = m[g + 2]
         /\ m2[g + 3] = IF n # 0 /\ g = n THEN x ELSE m[g + 3]
  <2> TAKE g \in H
  <2> HAVE g # h
  <2>1. g + 4 <= h \/ (x + 4 <= g /\ h + 4 <= g)
    BY <1>1, <1>3, <1>9
  <2>2. n # 0 /\ g # n => g + 4 <= n \/ n + 4 <= g
    BY <1>9
  <2>3. n # 0 => n \in Nat
    BY <1>5
  <2> QED BY <1>1, <1>3, <1>8, <2>1, <2>2, <2>3
<1>11. m2[h] = s /\ m2[h + 1] = m[h + 1] /\ m2[h + 2] = x /\ m2[h + 3] = m[h + 3]
  <2>1. n # 0 => h + 1 # n + 3 /\ h + 3 # n + 3
    BY <1>1, <1>5
  <2> QED BY <1>1, <1>3, <1>8, <2>1
<1>12. m2[x] = m[h] - s - 4 /\ m2[x + 1] = 70 /\ m2[x + 2] = n /\ m2[x + 3] = h
  <2>1. n # 0 => x + 3 < n
    BY <1>1, <1>3, <1>5
  <2>2. n \in Nat
    BY <1>2 DEF n
  <2> QED BY <1>1, <1>3, <1>4, <1>8, <2>1, <2>2
<1>13. BlockIn(m2, e, H2, h)
  <2>1. \A g \in H2 : g > h => g >= x
    BY <1>1, <1>2, <1>3 DEF BlockIn
  <2> QED BY <1>1, <1>2, <1>3, <1>11, <1>12, <2>1 DEF BlockIn
<1>14. BlockIn(m2, e, H2, x)
  <2>1. x + 4 + m2[x] = h + 4 + m[h]
    BY <1>3, <1>12
  <2>2. \A g \in H2 : g > x => g >= h + 4 + m[h]
    <3> SUFFICES ASSUME NEW g \in H2, g > x PROVE g >= h + 4 + m[h]
      OBVIOUS
    <3>1. g \in H /\ g > h
      BY <1>1, <1>3
    <3> QED BY <1>2, <3>1 DEF BlockIn
  <2>3. n = 0 => h + 4 + m[h] = e
    BY <1>2 DEF BlockIn, n
  <2>4. n # 0 => n = h + 4 + m[h] /\ n \in H2 /\ m2[n + 3] = x
    <3>1. n # 0 => n # h
      BY <1>1, <1>5
    <3> QED BY <1>5, <1>10, <3>1
  <2> QED BY <1>3, <1>12, <2>1, <2>2, <2>3, <2>4 DEF BlockIn
<1>15. ASSUME NEW g \in H, g # h PROVE BlockIn(m2, e, H2, g)
  <2> DEFINE after == g + 4 + m[g]
  <2>1. BlockIn(m, e, H, g) /\ m2[g] = m[g] /\ m2[g + 1] = m[g + 1] /\ m2[g + 2] = m[g + 2]
    BY <1>10, <1>15 DEF TilesIn
  <2>2. ASSUME m[g + 2] # 0 PROVE after \in H2 /\ m2[after + 3] = m[after + 3]
    <3>1. m[g + 2] = after /\ after \in H
      BY <2>1, <2>2 DEF BlockIn
    <3>2. n # 0 => after # n
      <4> SUFFICES ASSUME n # 0, after = n PROVE FALSE
        OBVIOUS
      <4>1. CASE g < h
        <5>1. h >= after
          BY <2>1, <4>1 DEF BlockIn
        <5> QED BY <1>1, <1>5, <4>1, <5>1
      <4>2. CASE g > h
        <5>1. g >= h + 4 + m[h]
          BY <1>2, <4>2 DEF BlockIn
        <5> QED BY <1>1, <1>5, <5>1
      <4> QED BY <1>1, <1>15, <4>1, <4>2
    <3>3. m2[after + 3] = m[after + 3]
      BY <1>10, <1>11, <3>1, <3>2
    <3> QED BY <3>1, <3>3
  <2>3. \A f \in H2 : f > g => f >= after
    <3> SUFFICES ASSUME x > g PROVE x >= after
      BY <2>1 DEF BlockIn
    <3>1. g < h
      BY <1>1, <1>3, <1>9, <1>15
    <3>2. h >= after
      BY <2>1, <3>1 DEF BlockIn
    <3> QED BY <1>1, <1>3, <3>2
  <2> QED BY <2>1, <2>2, <2>3 DEF BlockIn
<1>16. ASSUME NEW f \in H2, f # Base PROVE \E g \in H2 : m2[g + 2] = f
  <2>1. CASE f = x
    BY <1>11, <2>1
  <2>2. CASE f \in H
    <3>1. PICK g \in H : m[g + 2] = f
      BY <1>16, <2>2 DEF TilesIn
    <3>2. CASE g = h
      BY <1>12, <3>1, <3>2 DEF n
    <3>3. CASE g # h
      BY <1>10, <3>1, <3>3
    <3> QED BY <3>2, <3>3
  <2> QED BY <2>1, <2>2
<1>17. Base \in H2 /\ m2[Base + 3] = 0
  <2>1. Base \in H /\ m[Base + 3] = 0
    BY DEF TilesIn
  <2>2. n # 0 => Base # n
    BY <1>1, <1>5, <2>1
  <2> QED BY <1>10, <1>11, <2>1, <2>2
<1>18. TilesIn(m2, e, H2)
  <2>1. \A g \in H2 : g \in Nat /\ Base <= g /\ g + 4 <= e
    BY <1>1, <1>3
  <2>2. \A g \in H2 : BlockIn(m2, e, H2, g)
    BY <1>13, <1>14, <1>15
  <2> QED BY <1>16, <1>17, <2>1, <2>2 DEF TilesIn
<1> QED BY <1>7, <1>10, <1>11, <1>12, <1>18 DEF m2, x

\* The memory is changed from m to m2 and the list from H to H2 such that the
\* same blocks are allocated, none shorter.
SameHeld(e, m, H, m2, H2) ==
  /\ m2 \in Memory /\ TilesIn(m2, e, H2)
  /\ {g \in H2 : m2[g + 1] = HEAD_ALLOCATED} = {g \in H : m[g + 1] = HEAD_ALLOCATED}
  /\ \A g \in H : m[g + 1] = HEAD_ALLOCATED => m2[g] = m[g]

\* A free block is merged into the one that its prev names: that block, or a
\* header that the block before it has swallowed.
LEMMA MergeBack ==
  ASSUME NEW e \in Nat, e <= Limit, NEW m \in Memory, NEW H, TilesIn(m, e, H),
         NEW h \in H, m[h + 1] = HEAD_FREE,
         m[h + 3] # Null, m[m[h + 3] + 1] = HEAD_FREE
  PROVE  \E H2 : SameHeld(e, m, H, mergeBlocks(m, m[h + 3], h), H2)
<1> DEFINE p == m[h + 3]
           m2 == mergeBlocks(m, p, h)
<1> USE DEF HeadSize, Null, HEAD_FREE, HEAD_ALLOCATED
<1>1. \A g \in H : /\ g \in Nat /\ g # 0
                   /\ g \in Address /\ g + 1 \in Address /\ g + 2 \in Address /\ g + 3 \in Address
                   /\ m[g] \in Nat /\ m[g + 2] \in Nat /\ m[g + 3] \in Nat
  <2>1. \A g \in H : g \in Nat /\ Base <= g /\ g + 4 <= e
    BY DEF TilesIn
  <2>2. \A g \in H : g \in Address /\ g + 1 \in Address /\ g + 2 \in Address /\ g + 3 \in Address
    BY <2>1, HeadWords
  <2> QED BY <2>1, <2>2, HeapAssumption DEF Memory
<1>2. h # Base
  BY DEF TilesIn
<1>3. PICK g \in H : m[g + 2] = h
  BY <1>2 DEF TilesIn
<1>4. h = g + 4 + m[g] /\ (p = g \/ p \in g + 4 .. h - 4)
  <2>1. BlockIn(m, e, H, g) /\ m[g + 2] # 0
    BY <1>1, <1>3 DEF TilesIn
  <2> QED BY <1>3, <2>1 DEF BlockIn
<1>5. CASE p = g
  <2>1. /\ m2 \in Memory /\ TilesIn(m2, e, H \ {h})
        /\ \A f \in H \ {h} : m2[f + 1] = m[f + 1] /\ (f # g => m2[f] = m[f])
    BY <1>3, <1>5, Merge
  <2>2. m[g + 1] = HEAD_FREE
    BY <1>5
  <2> HIDE DEF m2, p
  <2>3. {f \in H \ {h} : m2[f + 1] = HEAD_ALLOCATED} = {f \in H : m[f + 1] = HEAD_ALLOCATED}
    BY <2>1
  <2>4. \A f \in H : m[f + 1] = HEAD_ALLOCATED => m2[f] = m[f]
    BY <2>1, <2>2
  <2>5. SameHeld(e, m, H, m2, H \ {h})
    BY <2>1, <2>3, <2>4 DEF SameHeld
  <2> QED BY <2>5 DEF m2, p
<1>6. CASE p \in g + 4 .. h - 4
  <2>1. /\ p \in Nat /\ p + 2 \in Nat /\ g + 4 <= p /\ p + 2 < g + 4 + m[g] /\ p < g + 4 + m[g]
        /\ g + 4 <= p + 2
    BY <1>1, <1>4, <1>6
  <2> HIDE DEF p
  <2>2. /\ p \in Address /\ p + 2 \in Address
        /\ \A f \in H : /\ p # f /\ p # f + 1 /\ p # f + 2 /\ p # f + 3
                        /\ p + 2 # f /\ p + 2 # f + 1 /\ p + 2 # f + 2 /\ p + 2 # f + 3
    BY <2>1, BodyApart
  <2>3. m2 \in Memory
    <3>1. m[p] \in Nat /\ m[h] \in Nat /\ m[h + 2] \in Nat
      BY <1>1, <2>2 DEF Memory
    <3>2. m[p] + m[h] + 4 \in Nat
      BY <3>1
    <3>3. m2 = [m EXCEPT ![p] = m[p] + m[h] + 4, ![p + 2] = m[h + 2]]
      BY DEF mergeBlocks
    <3> QED BY <3>1, <3>2, <3>3 DEF Memory
  <2>4. \A a \in Address : a # p /\ a # p + 2 => m2[a] = m[a]
    BY DEF mergeBlocks, Memory
  <2> HIDE DEF m2
  <2>5. \A f \in H : /\ m2[f] = m[f] /\ m2[f + 1] = m[f + 1]
                     /\ m2[f + 2] = m[f + 2] /\ m2[f + 3] = m[f + 3]
    BY <1>1, <2>2, <2>4
  <2>6. TilesIn(m2, e, H)
    <3>1. \A f \in H : m2[f + 1] \in {HEAD_ALLOCATED, HEAD_FREE}
      BY <2>5 DEF TilesIn, BlockIn
    <3> QED BY <2>5, <3>1, SameLinks
  <2>7. SameHeld(e, m, H, m2, H)
    BY <2>3, <2>5, <2>6 DEF SameHeld
  <2> QED BY <2>7 DEF m2, p
<1> QED BY <1>4, <1>5, <1>6

-----------------------------------------------------------------------------
(* The inductive invariant: some set of headers tiles the pages, the       *)
(* allocated ones are what the callers hold, and alloc is at one of them.  *)

HeapIn(H) ==
  /\ TilesIn(mem, End, H)
  /\ DOMAIN blocks = {h + HeadSize : h \in {g \in H : Tag(g) = HEAD_ALLOCATED}}
  /\ \A b \in DOMAIN blocks : blocks[b] <= SizeOf(b - HeadSize)
  /\ pc \in {"search", "grow"} => head \in H
  /\ pc = "grow" => NextOf(head) = Null

HeapInv == TypeOK /\ NeverCorrupted /\ \E H : HeapIn(H)

LEMMA Product ==
  ASSUME NEW f \in Nat, NEW g \in Nat, f <= g, NEW p \in Nat
  PROVE  f * p \in Nat /\ g * p \in Nat /\ f * p <= g * p /\ (f + 1) * p = f * p + p
<1>1. PICK d \in Nat : g = f + d
  <2>1. g - f \in Nat /\ g = f + (g - f)
    OBVIOUS
  <2> QED BY <2>1
<1>2. g * p = f * p + d * p /\ d * p \in Nat
  BY <1>1
<1> QED BY <1>2

LEMMA EndBounds ==
  ASSUME TypeOK
  PROVE  /\ End \in Nat /\ End <= Limit /\ Base \in Nat \ {0} /\ PageSize \in Nat /\ PageSize > HeadSize
         /\ frames < MaxPages => Base + (frames + 1) * PageSize = End + PageSize
                                 /\ End + PageSize <= Limit
<1>1. /\ frames \in Nat /\ MaxPages \in Nat /\ frames <= MaxPages
      /\ PageSize \in Nat /\ PageSize > HeadSize /\ Base \in Nat \ {0}
  BY HeapAssumption DEF TypeOK
<1>2. frames * PageSize \in Nat /\ MaxPages * PageSize \in Nat
      /\ frames * PageSize <= MaxPages * PageSize
      /\ (frames + 1) * PageSize = frames * PageSize + PageSize
  BY <1>1, Product
<1>3. frames < MaxPages => (frames + 1) * PageSize <= MaxPages * PageSize
  <2> SUFFICES ASSUME frames < MaxPages PROVE (frames + 1) * PageSize <= MaxPages * PageSize
    OBVIOUS
  <2>1. frames + 1 \in Nat /\ frames + 1 <= MaxPages
    BY <1>1
  <2> QED BY <1>1, <2>1, Product
<1> DEFINE given == frames * PageSize
           words == MaxPages * PageSize
           more == (frames + 1) * PageSize
<1>4. End = Base + given /\ Limit = Base + words
  BY DEF End, Limit
<1>5. given \in Nat /\ words \in Nat /\ given <= words /\ more = given + PageSize
      /\ (frames < MaxPages => more <= words)
  BY <1>2, <1>3
<1> HIDE DEF given, words, more
<1>6. frames < MaxPages => Base + more = End + PageSize /\ End + PageSize <= Limit
  BY <1>1, <1>4, <1>5
<1> QED BY <1>1, <1>4, <1>5, <1>6 DEF more

\* What is known of a header of the list.
LEMMA Header_ ==
  ASSUME TypeOK, NEW H, HeapIn(H), NEW h \in H
  PROVE  /\ h \in Nat /\ h >= Base /\ h # Null /\ h + HeadSize <= End
         /\ h \in Address /\ h + 1 \in Address /\ h + 2 \in Address /\ h + 3 \in Address
         /\ mem[h] \in Nat /\ mem[h + 1] \in Nat /\ mem[h + 2] \in Nat /\ mem[h + 3] \in Nat
         /\ Tagged(h) /\ h + HeadSize + mem[h] <= End
         /\ NextOf(h) # Null => NextOf(h) \in H /\ NextOf(h) = h + HeadSize + mem[h]
         /\ NextOf(h) = Null => h + HeadSize + mem[h] = End
<1>1. End \in Nat /\ End <= Limit /\ Base \in Nat \ {0}
  BY EndBounds
<1>2. h \in Nat /\ h >= Base /\ h + HeadSize <= End /\ BlockIn(mem, End, H, h)
  BY DEF HeapIn, TilesIn
<1>3. h \in Address /\ h + 1 \in Address /\ h + 2 \in Address /\ h + 3 \in Address
  BY <1>1, <1>2, HeadWords
<1>4. mem[h] \in Nat /\ mem[h + 1] \in Nat /\ mem[h + 2] \in Nat /\ mem[h + 3] \in Nat
  BY <1>3 DEF TypeOK
<1>5. h # Null
  BY <1>1, <1>2 DEF Null
<1> QED BY <1>2, <1>3, <1>4, <1>5 DEF BlockIn, Tagged, Tag, NextOf

\* A block that a caller holds.
LEMMA HeldBlock ==
  ASSUME TypeOK, NEW H, HeapIn(H), NEW b \in DOMAIN blocks
  PROVE  /\ b - HeadSize \in H /\ b = (b - HeadSize) + HeadSize
         /\ Tag(b - HeadSize) = HEAD_ALLOCATED
         /\ blocks[b] \in Nat /\ blocks[b] <= mem[b - HeadSize]
<1>1. PICK h \in H : Tag(h) = HEAD_ALLOCATED /\ b = h + HeadSize
  BY DEF HeapIn
<1>2. h \in Nat
  BY Header_
<1>3. b - HeadSize = h
  BY <1>1, <1>2 DEF HeadSize
<1> QED BY <1>1, <1>3 DEF HeapIn, SizeOf, TypeOK

LEMMA HeapInit == Init => HeapInv
<1> SUFFICES ASSUME Init PROVE HeapInv
  OBVIOUS
<1> USE DEF HeadSize, Null, HEAD_FREE, HEAD_ALLOCATED
<1> DEFINE zero == [a \in Address |-> 0]
<1>1. /\ Base \in Nat \ {0} /\ PageSize \in Nat /\ PageSize > 4 /\ MaxPages \in Nat \ {0}
  BY HeapAssumption
<1>2. Base + PageSize <= Limit /\ Base + PageSize \in Nat /\ Base + 1 * PageSize = Base + PageSize
  <2>1. 1 * PageSize <= MaxPages * PageSize /\ MaxPages * PageSize \in Nat /\ 1 * PageSize = PageSize
    BY <1>1, Product
  <2> DEFINE words == MaxPages * PageSize
  <2>2. Limit = Base + words /\ words \in Nat /\ PageSize <= words
    BY <2>1 DEF Limit
  <2> HIDE DEF words
  <2> QED BY <1>1, <2>1, <2>2
<1>3. End = Base + PageSize /\ End \in Nat /\ End <= Limit
  BY <1>2 DEF Init, End
<1>4. Base \in Address /\ Base + 1 \in Address /\ Base + 2 \in Address /\ Base + 3 \in Address
  BY <1>1, <1>3, HeadWords
<1>5. /\ mem \in Memory /\ mem[Base] = PageSize - 4 /\ mem[Base + 1] = 70
      /\ mem[Base + 2] = 0 /\ mem[Base + 3] = 0
  <2>1. mem = Header(zero, Base, PageSize - 4, 70, 0, 0)
    BY DEF Init
  <2>2. zero \in Memory
    BY DEF Memory
  <2>3. PageSize - 4 \in Nat
    BY <1>1
  <2> HIDE DEF zero
  <2>4. mem = [zero EXCEPT ![Base] = PageSize - 4, ![Base + 1] = 70, ![Base + 2] = 0, ![Base + 3] = 0]
    BY <2>1 DEF Header
  <2> QED BY <1>1, <1>4, <2>2, <2>3, <2>4 DEF Memory
<1>6. TypeOK
  <2>1. DOMAIN blocks = {}
    BY DEF Init
  <2>2. frames \in 1 .. MaxPages
    BY <1>1 DEF Init
  <2>3. pc = "caller" /\ head = Base /\ size = 0 /\ i = 0 /\ written = Nothing /\ trap = "none"
    BY DEF Init
  <2> QED BY <1>4, <1>5, <2>1, <2>2, <2>3 DEF TypeOK, Memory
<1>7. HeapIn({Base})
  <2>1. BlockIn(mem, End, {Base}, Base)
    BY <1>1, <1>3, <1>5 DEF BlockIn
  <2>2. TilesIn(mem, End, {Base})
    BY <1>1, <1>3, <1>5, <2>1 DEF TilesIn
  <2>3. DOMAIN blocks = {}
    BY DEF Init
  <2>4. {h + 4 : h \in {g \in {Base} : Tag(g) = 65}} = {}
    BY <1>5 DEF Tag
  <2> QED BY <2>2, <2>3, <2>4 DEF HeapIn, Init
<1> QED BY <1>6, <1>7 DEF HeapInv, NeverCorrupted, Init

-----------------------------------------------------------------------------
(* The actions.                                                            *)

LEMMA CallAllocInv ==
  ASSUME HeapInv, CallAlloc
  PROVE  HeapInv'
<1>1. PICK H : HeapIn(H)
  BY DEF HeapInv
<1>2. UNCHANGED <<mem, frames, i, blocks, written, trap>>
      /\ pc' = "search" /\ head' = Base /\ size' \in Sizes
  BY DEF CallAlloc
<1>3. TypeOK /\ Base \in H
  BY <1>1 DEF HeapInv, HeapIn, TilesIn
<1>4. Base \in Address
  BY <1>1, <1>3, Header_
<1>5. TypeOK'
  BY <1>2, <1>3, <1>4, HeapAssumption DEF TypeOK
<1>6. HeapIn(H)'
  BY <1>1, <1>2, <1>3 DEF HeapIn, Tag, SizeOf, NextOf, End, Null
<1> QED BY <1>2, <1>5, <1>6 DEF HeapInv, NeverCorrupted

LEMMA WalkInv ==
  ASSUME HeapInv, Walk
  PROVE  HeapInv'
<1>1. PICK H : HeapIn(H)
  BY DEF HeapInv
<1>2. TypeOK /\ pc = "search" /\ head \in H
  BY <1>1 DEF HeapInv, HeapIn, Walk
<1>3. Tagged(head) /\ (NextOf(head) # Null => NextOf(head) \in H)
  BY <1>1, <1>2, Header_
<1>4. /\ UNCHANGED <<mem, frames, size, blocks, written, trap>>
      /\ \/ NextOf(head) = Null /\ pc' = "grow" /\ i' = 0 /\ head' = head
         \/ NextOf(head) # Null /\ pc' = pc /\ i' = i /\ head' = NextOf(head)
  BY <1>3 DEF Walk
<1>5. head' \in H /\ head' \in Address
  BY <1>1, <1>2, <1>3, <1>4, Header_
<1>6. TypeOK'
  BY <1>2, <1>4, <1>5 DEF TypeOK
<1>7. HeapIn(H)'
  BY <1>1, <1>2, <1>4, <1>5 DEF HeapIn, Tag, SizeOf, NextOf, End, Null
<1> QED BY <1>4, <1>6, <1>7 DEF HeapInv, NeverCorrupted

\* The set of headers is the same, and so is which are allocated.
LEMMA SameHeads ==
  ASSUME NEW H, HeapIn(H), TilesIn(mem', End', H),
         \A h \in H : Tag(h)' = Tag(h) /\ SizeOf(h)' >= SizeOf(h),
         \A h \in H : h \in Nat /\ SizeOf(h) \in Nat /\ SizeOf(h)' \in Nat,
         \A b \in DOMAIN blocks : b - HeadSize \in H /\ blocks[b] \in Nat,
         UNCHANGED blocks,
         pc' \in {"search", "grow"} => head' \in H,
         pc' = "grow" => NextOf(head)' = Null
  PROVE  HeapIn(H)'
<1>1. {g \in H : Tag(g)' = HEAD_ALLOCATED} = {g \in H : Tag(g) = HEAD_ALLOCATED}
  OBVIOUS
<1>2. DOMAIN blocks' = {h + HeadSize : h \in {g \in H : Tag(g)' = HEAD_ALLOCATED}}
  BY <1>1 DEF HeapIn
<1>3. \A b \in DOMAIN blocks' : blocks'[b] <= SizeOf(b - HeadSize)'
  <2> TAKE b \in DOMAIN blocks'
  <2>1. b \in DOMAIN blocks /\ blocks'[b] = blocks[b] /\ b - HeadSize \in H
    OBVIOUS
  <2> DEFINE h == b - HeadSize
  <2>2. blocks[b] <= SizeOf(h) /\ SizeOf(h)' >= SizeOf(h) /\ h \in H
    BY <2>1 DEF HeapIn
  <2> HIDE DEF h
  <2>3. blocks[b] <= SizeOf(h)'
    BY <2>1, <2>2
  <2> QED BY <2>1, <2>3 DEF h
<1> QED BY <1>2, <1>3 DEF HeapIn

LEMMA GrowInv ==
  ASSUME HeapInv, Grow
  PROVE  HeapInv'
<1> USE DEF HeadSize, Null, HEAD_FREE, HEAD_ALLOCATED
<1>1. PICK H : HeapIn(H)
  BY DEF HeapInv
<1>2. /\ TypeOK /\ pc = "grow" /\ head \in H /\ NextOf(head) = 0 /\ frames < MaxPages
      /\ frames' = frames + 1 /\ i' = i + PageSize
      /\ UNCHANGED <<pc, size, blocks, written, trap>>
  BY <1>1 DEF HeapInv, HeapIn, Grow
<1>3. /\ End \in Nat /\ End <= Limit /\ Base \in Nat \ {0} /\ PageSize \in Nat /\ PageSize > 4
      /\ End' = End + PageSize /\ End' <= Limit /\ End' \in Nat
  <2>1. Base + (frames + 1) * PageSize = End + PageSize
    BY <1>2, EndBounds
  <2>2. End' = Base + (frames + 1) * PageSize
    BY <1>2 DEF End
  <2>3. /\ End \in Nat /\ End <= Limit /\ Base \in Nat \ {0} /\ PageSize \in Nat /\ PageSize > 4
        /\ End + PageSize <= Limit
    BY <1>2, EndBounds
  <2> HIDE DEF HeadSize
  <2> QED BY <2>1, <2>2, <2>3
<1>4. \A h \in H : /\ h \in Nat /\ h >= Base /\ h # 0 /\ h + 4 <= End
                   /\ h \in Address /\ h + 1 \in Address /\ h + 2 \in Address /\ h + 3 \in Address
                   /\ mem[h] \in Nat /\ mem[h + 1] \in {65, 70} /\ mem[h + 2] \in Nat
                   /\ mem[h + 3] \in Nat
  BY <1>1, <1>2, Header_ DEF Tagged, Tag
<1>5. head + 4 + mem[head] = End /\ mem[head + 2] = 0
  BY <1>1, <1>2, Header_ DEF NextOf
<1>6. TilesIn(mem, End, H) /\ mem \in Memory
  BY <1>1, <1>2 DEF HeapIn, TypeOK, Memory
\* The last block is the one without a next.
<1>7. \A g \in H : g # head => g < head /\ g + 4 + mem[g] <= head /\ mem[g + 2] # 0
  <2> TAKE g \in H
  <2> HAVE g # head
  <2>1. g < head
    <3>1. g + 4 + mem[g] <= End /\ (g > head => head + 4 + mem[head] <= g)
      BY <1>2, <1>3, <1>6, HeadsApart DEF TilesIn, BlockIn
    <3> QED BY <1>2, <1>4, <1>5, <3>1
  <2>2. g + 4 + mem[g] <= head
    BY <1>2, <1>3, <1>6, <2>1, HeadsApart
  <2>3. mem[g + 2] = 0 => g + 4 + mem[g] = End
    BY <1>6 DEF TilesIn, BlockIn
  <2> QED BY <1>2, <1>3, <1>4, <2>1, <2>2, <2>3
<1>8. frames' \in 1 .. MaxPages /\ i' \in Nat
  BY <1>2, <1>3, HeapAssumption DEF TypeOK
<1>9. \A b \in DOMAIN blocks : b - 4 \in H /\ blocks[b] \in Nat
  BY <1>1, <1>2, HeldBlock
<1>10. CASE Tag(head) = HEAD_FREE
  <2>1. mem' = [mem EXCEPT ![head] = mem[head] + PageSize] /\ head' = head
    BY <1>10 DEF Grow
  <2>2. \A a \in Address : mem'[a] = IF a = head THEN mem[head] + PageSize ELSE mem[a]
    BY <1>6, <2>1 DEF Memory
  <2>3. mem' \in Memory
    <3>1. mem[head] + PageSize \in Nat
      BY <1>2, <1>3, <1>4
    <3> QED BY <1>6, <2>1, <3>1 DEF Memory
  <2>4. \A h \in H : /\ mem'[h + 1] = mem[h + 1] /\ mem'[h + 2] = mem[h + 2] /\ mem'[h + 3] = mem[h + 3]
                     /\ mem'[h] = IF h = head THEN mem[head] + PageSize ELSE mem[h]
    <3> TAKE h \in H
    <3>1. h + 1 # head /\ h + 2 # head /\ h + 3 # head
      <4>1. h = head \/ h + 4 <= head
        BY <1>2, <1>4, <1>7
      <4> QED BY <1>2, <1>4, <4>1
    <3> QED BY <1>4, <2>2, <3>1
  <2>5. TilesIn(mem', End', H)
    <3>1. ASSUME NEW h \in H PROVE BlockIn(mem', End', H, h)
      <4>1. CASE h = head
        <5>1. head + 4 + mem'[head] = End'
          BY <1>2, <1>3, <1>4, <1>5, <2>4
        <5>2. \A g \in H : ~(g > head)
          BY <1>2, <1>4, <1>7
        <5> QED BY <1>2, <1>3, <1>4, <1>5, <2>4, <4>1, <5>1, <5>2 DEF BlockIn
      <4>2. CASE h # head
        <5>1. BlockIn(mem, End, H, h) /\ mem[h + 2] # 0
          BY <1>6, <1>7, <4>2 DEF TilesIn
        <5>2. mem'[h] = mem[h] /\ mem'[h + 1] = mem[h + 1] /\ mem'[h + 2] = mem[h + 2]
          BY <2>4, <4>2
        <5>3. h + 4 + mem[h] <= End'
          BY <1>3, <1>4, <5>1 DEF BlockIn
        <5>4. h + 4 + mem[h] \in H /\ mem'[h + 4 + mem[h] + 3] = mem[h + 4 + mem[h] + 3]
          BY <2>4, <5>1 DEF BlockIn
        <5> QED BY <5>1, <5>2, <5>3, <5>4 DEF BlockIn
      <4> QED BY <4>1, <4>2
    <3>2. \A h \in H : h \in Nat /\ Base <= h /\ h + 4 <= End'
      BY <1>3, <1>4
    <3>3. mem'[Base + 3] = 0
      BY <1>6, <2>4 DEF TilesIn
    <3>4. \A h \in H : h # Base => \E g \in H : mem'[g + 2] = h
      BY <1>6, <2>4 DEF TilesIn
    <3> QED BY <1>6, <3>1, <3>2, <3>3, <3>4 DEF TilesIn
  <2>6. HeapIn(H)'
    <3>1. \A h \in H : /\ Tag(h)' = Tag(h) /\ SizeOf(h)' >= SizeOf(h)
                       /\ h \in Nat /\ SizeOf(h) \in Nat /\ SizeOf(h)' \in Nat
      BY <1>2, <1>3, <1>4, <2>4 DEF Tag, SizeOf
    <3>2. NextOf(head)' = 0
      BY <1>2, <2>1, <2>4 DEF NextOf
    <3> QED BY <1>1, <1>2, <1>9, <2>1, <2>5, <3>1, <3>2, SameHeads
  <2>7. TypeOK'
    BY <1>2, <1>8, <2>1, <2>3 DEF TypeOK, Memory
  <2> QED BY <1>2, <2>6, <2>7 DEF HeapInv, NeverCorrupted
<1>11. CASE Tag(head) # HEAD_FREE
  <2>0. PICK H2 : H2 = H \cup {End}
    OBVIOUS
  <2>1. After(head) = End
    BY <1>5 DEF After, SizeOf
  <2>2. /\ mem' = [Header(mem, End, PageSize - 4, 70, 0, head) EXCEPT ![head + 2] = End]
        /\ head' = End
    BY <1>11, <2>1 DEF Grow
  <2>3. End \in Address /\ End + 1 \in Address /\ End + 2 \in Address /\ End + 3 \in Address
    <3>1. Base <= End
      BY <1>2, <1>3, <1>4
    <3> QED BY <1>3, <3>1, HeadWords
  <2>4. \A a \in Address :
          mem'[a] = IF a = head + 2 THEN End ELSE IF a = End + 3 THEN head
                    ELSE IF a = End + 2 THEN 0 ELSE IF a = End + 1 THEN 70
                    ELSE IF a = End THEN PageSize - 4 ELSE mem[a]
    BY <1>2, <1>4, <1>6, <2>2, <2>3 DEF Memory, Header
  <2>5. mem' \in Memory
    <3>1. PageSize - 4 \in Nat /\ head \in Nat /\ End \in Nat
      BY <1>2, <1>3, <1>4
    <3>2. mem' = [mem EXCEPT ![End] = PageSize - 4, ![End + 1] = 70, ![End + 2] = 0,
                             ![End + 3] = head, ![head + 2] = End]
      BY <2>2 DEF Header
    <3> QED BY <1>6, <3>1, <3>2 DEF Memory
  <2>6. \A h \in H : /\ mem'[h] = mem[h] /\ mem'[h + 1] = mem[h + 1] /\ mem'[h + 3] = mem[h + 3]
                     /\ mem'[h + 2] = IF h = head THEN End ELSE mem[h + 2]
    <3> TAKE h \in H
    <3>1. h = head \/ h + 4 <= head
      BY <1>2, <1>4, <1>7
    <3>2. h + 4 <= End /\ head + 4 <= End
      BY <1>2, <1>4
    <3> QED BY <1>2, <1>3, <1>4, <2>4, <3>1, <3>2
  <2>7. mem'[End] = PageSize - 4 /\ mem'[End + 1] = 70 /\ mem'[End + 2] = 0 /\ mem'[End + 3] = head
    <3>1. head + 2 < End
      BY <1>2, <1>3, <1>4
    <3> QED BY <1>2, <1>3, <1>4, <2>3, <2>4, <3>1
  <2>8. TilesIn(mem', End', H2)
    <3>1. BlockIn(mem', End', H2, End)
      <4>1. End + 4 + mem'[End] = End'
        BY <1>3, <2>7
      <4>2. \A g \in H2 : ~(g > End)
        BY <1>3, <1>4, <2>0
      <4> QED BY <1>3, <2>7, <4>1, <4>2 DEF BlockIn
    <3>2. BlockIn(mem', End', H2, head)
      <4>1. mem'[head] = mem[head] /\ mem'[head + 1] = mem[head + 1] /\ mem'[head + 2] = End
        BY <1>2, <2>6
      <4>2. \A g \in H2 : g > head => g >= End
        BY <1>2, <1>3, <1>4, <1>7, <2>0
      <4>3. End \in H2 /\ End # 0 /\ End <= End'
        BY <1>2, <1>3, <1>4, <2>0
      <4> QED BY <1>2, <1>4, <1>5, <2>7, <4>1, <4>2, <4>3 DEF BlockIn
    <3>3. ASSUME NEW h \in H, h # head PROVE BlockIn(mem', End', H2, h)
      <4>1. BlockIn(mem, End, H, h) /\ mem[h + 2] # 0
        BY <1>6, <1>7, <3>3 DEF TilesIn
      <4>2. mem'[h] = mem[h] /\ mem'[h + 1] = mem[h + 1] /\ mem'[h + 2] = mem[h + 2]
        BY <2>6, <3>3
      <4>3. h + 4 + mem[h] <= End' /\ h + 4 + mem[h] <= End
        BY <1>3, <1>4, <4>1 DEF BlockIn
      <4>4. h + 4 + mem[h] \in H /\ mem'[h + 4 + mem[h] + 3] = mem[h + 4 + mem[h] + 3]
        BY <2>0, <2>6, <4>1 DEF BlockIn
      <4>5. \A g \in H2 : g > h => g >= h + 4 + mem[h]
        BY <2>0, <4>1, <4>3 DEF BlockIn
      <4> QED BY <2>0, <4>1, <4>2, <4>3, <4>4, <4>5 DEF BlockIn
    <3>4. \A h \in H2 : h \in Nat /\ Base <= h /\ h + 4 <= End'
      BY <1>2, <1>3, <1>4, <2>0
    <3>5. Base \in H /\ mem'[Base + 3] = 0
      BY <1>6, <2>6 DEF TilesIn
    <3>6. \A h \in H2 : h # Base => \E g \in H2 : mem'[g + 2] = h
      <4> SUFFICES ASSUME NEW h \in H2, h # Base PROVE \E g \in H2 : mem'[g + 2] = h
        OBVIOUS
      <4>1. CASE h = End
        BY <1>2, <2>0, <2>6, <4>1
      <4>2. CASE h \in H
        <5>1. PICK g \in H : mem[g + 2] = h
          BY <1>6, <4>2 DEF TilesIn
        <5>2. g # head
          BY <1>4, <1>5, <4>2, <5>1
        <5> QED BY <2>0, <2>6, <5>1, <5>2
      <4> QED BY <2>0, <4>1, <4>2
    <3> QED BY <2>0, <3>1, <3>2, <3>3, <3>4, <3>5, <3>6 DEF TilesIn
  <2>9. HeapIn(H2)'
    <3>1. {h + 4 : h \in {g \in H2 : Tag(g)' = 65}} = {h + 4 : h \in {g \in H : Tag(g) = 65}}
      <4>1. \A h \in H : Tag(h)' = Tag(h)
        BY <2>6 DEF Tag
      <4>2. mem'[End + 1] # 65
        BY <2>7
      <4>3. {g \in H2 : Tag(g)' = 65} = {g \in H : Tag(g) = 65}
        BY <2>0, <4>1, <4>2 DEF Tag
      <4> QED BY <4>3
    <3>2. DOMAIN blocks' = {h + 4 : h \in {g \in H2 : Tag(g)' = 65}}
      BY <1>1, <1>2, <3>1 DEF HeapIn
    <3>3. \A b \in DOMAIN blocks' : blocks'[b] <= SizeOf(b - 4)'
      <4> TAKE b \in DOMAIN blocks'
      <4>1. b \in DOMAIN blocks /\ blocks'[b] = blocks[b] /\ b - 4 \in H
        BY <1>2, <1>9
      <4>2. blocks[b] <= mem[b - 4] /\ mem'[b - 4] = mem[b - 4]
        BY <1>1, <2>6, <4>1 DEF HeapIn, SizeOf
      <4> QED BY <4>1, <4>2 DEF SizeOf
    <3>4. head' \in H2 /\ NextOf(head)' = 0
      BY <2>0, <2>2, <2>7 DEF NextOf
    <3> QED BY <2>8, <3>2, <3>3, <3>4 DEF HeapIn
  <2>10. TypeOK'
    BY <1>2, <1>8, <2>2, <2>3, <2>5 DEF TypeOK, Memory
  <2> QED BY <1>2, <2>9, <2>10 DEF HeapInv, NeverCorrupted
<1> QED BY <1>10, <1>11

LEMMA AllocAgainInv ==
  ASSUME HeapInv, AllocAgain
  PROVE  HeapInv'
<1>1. PICK H : HeapIn(H)
  BY DEF HeapInv
<1>2. UNCHANGED <<mem, frames, size, i, blocks, written, trap>> /\ pc' = "search" /\ head' = Base
  BY DEF AllocAgain
<1>3. TypeOK /\ Base \in H
  BY <1>1 DEF HeapInv, HeapIn, TilesIn
<1>4. Base \in Address
  BY <1>1, <1>3, Header_
<1>5. TypeOK'
  BY <1>2, <1>3, <1>4 DEF TypeOK
<1>6. HeapIn(H)'
  BY <1>1, <1>2, <1>3 DEF HeapIn, Tag, SizeOf, NextOf, End
<1> QED BY <1>2, <1>5, <1>6 DEF HeapInv, NeverCorrupted

LEMMA OutOfFramesInv ==
  ASSUME HeapInv, OutOfFrames
  PROVE  HeapInv'
<1>1. PICK H : HeapIn(H)
  BY DEF HeapInv
<1>2. UNCHANGED <<mem, frames, head, size, i, blocks, written>> /\ pc' = "stopped" /\ trap' = "0x18"
  BY DEF OutOfFrames, Stop, locals
<1>3. TypeOK'
  BY <1>2 DEF HeapInv, TypeOK
<1>4. HeapIn(H)'
  BY <1>1, <1>2 DEF HeapIn, Tag, SizeOf, NextOf, End
<1> QED BY <1>2, <1>3, <1>4 DEF HeapInv, NeverCorrupted

LEMMA WriteInv ==
  ASSUME HeapInv, NEW b \in DOMAIN blocks, NEW a \in Held(b), NEW v \in Data, Write(a, v)
  PROVE  HeapInv'
<1>1. PICK H : HeapIn(H)
  BY DEF HeapInv
<1>2. /\ TypeOK /\ mem' = [mem EXCEPT ![a] = v] /\ written' = <<a, v>> /\ pc' = pc /\ pc = "caller"
      /\ UNCHANGED <<frames, head, size, i, blocks, trap>>
  BY DEF HeapInv, Write, locals
<1> DEFINE h == b - HeadSize
<1>3. h \in H /\ b = h + HeadSize /\ blocks[b] \in Nat /\ blocks[b] <= mem[h]
  BY <1>1, <1>2, HeldBlock
<1> HIDE DEF h
<1>4. h \in Nat /\ mem[h] \in Nat /\ End \in Nat /\ End <= Limit /\ mem \in Memory
  BY <1>1, <1>2, <1>3, Header_, EndBounds DEF TypeOK, Memory
<1>5. a \in Nat /\ h + HeadSize <= a /\ a < h + HeadSize + mem[h]
  BY <1>3, <1>4 DEF Held, HeadSize
<1>6. a \in Address /\ \A g \in H : a # g /\ a # g + 1 /\ a # g + 2 /\ a # g + 3
  BY <1>1, <1>3, <1>4, <1>5, BodyApart DEF HeapIn
<1>7. mem' \in Memory /\ v \in Nat
  BY <1>2, <1>4, HeapAssumption DEF Memory
<1>8. \A g \in H : /\ mem'[g] = mem[g] /\ mem'[g + 1] = mem[g + 1]
                   /\ mem'[g + 2] = mem[g + 2] /\ mem'[g + 3] = mem[g + 3]
  BY <1>1, <1>2, <1>4, <1>6, Header_ DEF Memory
<1>9. End' = End
  BY <1>2 DEF End
<1>10. TilesIn(mem', End', H)
  <2>1. \A g \in H : mem'[g + 1] \in {HEAD_ALLOCATED, HEAD_FREE}
    BY <1>1, <1>2, <1>8, Header_ DEF Tagged, Tag
  <2> QED BY <1>1, <1>4, <1>8, <1>9, <2>1, SameLinks DEF HeapIn
<1>11. HeapIn(H)'
  <2>1. \A g \in H : /\ Tag(g)' = Tag(g) /\ SizeOf(g)' >= SizeOf(g)
                     /\ g \in Nat /\ SizeOf(g) \in Nat /\ SizeOf(g)' \in Nat
    BY <1>1, <1>2, <1>8, Header_ DEF Tag, SizeOf
  <2>2. \A c \in DOMAIN blocks : c - HeadSize \in H /\ blocks[c] \in Nat
    BY <1>1, <1>2, HeldBlock
  <2>3. pc' \notin {"search", "grow"} /\ pc' # "grow"
    BY <1>2
  <2> QED BY <1>1, <1>2, <1>10, <2>1, <2>2, <2>3, SameHeads
<1>12. TypeOK'
  BY <1>2, <1>6, <1>7 DEF TypeOK, Memory
<1> QED BY <1>2, <1>11, <1>12 DEF HeapInv, NeverCorrupted

LEMMA TakeInv ==
  ASSUME HeapInv, Take
  PROVE  HeapInv'
<1> USE DEF HeadSize, Null, HEAD_FREE, HEAD_ALLOCATED
<1>1. PICK H : HeapIn(H)
  BY DEF HeapInv
<1>2. /\ TypeOK /\ head \in H /\ Tag(head) = 70 /\ mem[head] >= size /\ size \in Nat
      /\ mem' = [(IF mem[head] - size > 4 THEN Split(head) ELSE mem) EXCEPT ![head + 1] = 65]
      /\ blocks' = [a \in DOMAIN blocks \cup {head + 4} |-> IF a = head + 4 THEN size ELSE blocks[a]]
      /\ pc' = "caller" /\ UNCHANGED <<frames, head, size, i, written, trap>>
  BY <1>1 DEF HeapInv, HeapIn, Take, Fits, TypeOK, SizeOf, locals
<1>3. \A h \in H : /\ h \in Nat /\ h \in Address /\ h + 1 \in Address /\ h + 4 <= End
                   /\ mem[h] \in Nat /\ mem[h + 1] \in {65, 70}
  BY <1>1, <1>2, Header_ DEF Tagged, Tag
<1>4. /\ mem \in Memory /\ End \in Nat /\ End <= Limit /\ End' = End /\ TilesIn(mem, End, H)
  BY <1>1, <1>2, EndBounds DEF TypeOK, Memory, HeapIn, End
<1>5. \A b \in DOMAIN blocks : b - 4 \in H /\ b = (b - 4) + 4 /\ blocks[b] \in Nat /\ blocks[b] <= mem[b - 4]
                               /\ mem[(b - 4) + 1] = 65
  BY <1>1, <1>2, HeldBlock DEF Tag
<1> DEFINE m1 == IF mem[head] - size > 4 THEN Split(head) ELSE mem
\* Before the tag is written: the list may have one block more, a free one.
<1>6. \E H2 : /\ m1 \in Memory /\ TilesIn(m1, End, H2) /\ H \subseteq H2
              /\ m1[head] >= size
              /\ \A g \in H : m1[g + 1] = mem[g + 1] /\ (g # head => m1[g] = mem[g])
              /\ \A g \in H2 \ H : m1[g + 1] = 70
  <2>1. CASE mem[head] - size > 4
    <3>1. m1 = CutIn(mem, head, size)
      BY <2>1 DEF Split, CutIn, SizeOf, NextOf
    <3> DEFINE x == head + 4 + size
    <3>2. /\ m1 \in Memory /\ TilesIn(m1, End, H \cup {x})
          /\ m1[head] = size /\ m1[x + 1] = 70
          /\ \A g \in H : m1[g + 1] = mem[g + 1] /\ (g # head => m1[g] = mem[g])
      <4>1. /\ head \in H /\ size \in Nat /\ mem[head] - size > HeadSize
            /\ head \in Nat /\ mem[head] \in Nat
        BY <1>2, <1>3, <2>1
      <4> HIDE DEF m1
      <4>2. /\ CutIn(mem, head, size) \in Memory
            /\ TilesIn(CutIn(mem, head, size), End, H \cup {x})
            /\ CutIn(mem, head, size)[head] = size
            /\ CutIn(mem, head, size)[x + 1] = 70
            /\ \A g \in H : /\ CutIn(mem, head, size)[g + 1] = mem[g + 1]
                            /\ g # head => CutIn(mem, head, size)[g] = mem[g]
        BY <1>4, <4>1, Cut
      <4> HIDE DEF x
      <4> QED BY <3>1, <4>2
    <3> HIDE DEF x, m1
    <3> QED BY <1>2, <3>2
  <2>2. CASE ~(mem[head] - size > 4)
    <3>1. m1 = mem
      BY <2>2
    <3> QED BY <1>2, <1>4, <3>1
  <2> QED BY <2>1, <2>2
<1>7. mem' = [m1 EXCEPT ![head + 1] = 65]
  BY <1>2
<1> HIDE DEF m1
<1>8. PICK H2 : /\ m1 \in Memory /\ TilesIn(m1, End, H2) /\ H \subseteq H2
                /\ m1[head] >= size
                /\ \A g \in H : m1[g + 1] = mem[g + 1] /\ (g # head => m1[g] = mem[g])
                /\ \A g \in H2 \ H : m1[g + 1] = 70
  BY <1>6
<1>9. \A g \in H2 : /\ g \in Nat /\ g \in Address /\ g + 1 \in Address /\ g + 2 \in Address /\ g + 3 \in Address
                    /\ m1[g + 1] \in {65, 70}
  <2>1. \A g \in H2 : g \in Nat /\ Base <= g /\ g + 4 <= End /\ m1[g + 1] \in {65, 70}
    BY <1>8 DEF TilesIn, BlockIn
  <2> QED BY <1>4, <2>1, HeadWords
<1>10. \A g \in H2 : /\ mem'[g] = m1[g] /\ mem'[g + 2] = m1[g + 2] /\ mem'[g + 3] = m1[g + 3]
                     /\ mem'[g + 1] = IF g = head THEN 65 ELSE m1[g + 1]
  <2> TAKE g \in H2
  <2>1. g = head \/ g + 4 <= head \/ head + 4 <= g
    <3>1. head \in H2
      BY <1>2, <1>8
    <3> QED BY <1>4, <1>8, <3>1, HeadsApart
  <2>2. \A a \in Address : mem'[a] = IF a = head + 1 THEN 65 ELSE m1[a]
    BY <1>7, <1>8 DEF Memory
  <2> QED BY <1>2, <1>3, <1>9, <2>1, <2>2
<1>11. mem' \in Memory
  BY <1>7, <1>8 DEF Memory
<1>12. TilesIn(mem', End', H2)
  <2>1. \A g \in H2 : mem'[g + 1] \in {65, 70}
    BY <1>9, <1>10
  <2> QED BY <1>4, <1>8, <1>10, <2>1, SameLinks
<1>13. {g \in H2 : mem'[g + 1] = 65} = {g \in H : mem[g + 1] = 65} \cup {head}
  BY <1>2, <1>8, <1>10
<1>14. DOMAIN blocks' = {h + 4 : h \in {g \in H2 : mem'[g + 1] = 65}}
  <2>1. DOMAIN blocks = {h + 4 : h \in {g \in H : mem[g + 1] = 65}}
    BY <1>1 DEF HeapIn, Tag
  <2>2. DOMAIN blocks' = DOMAIN blocks \cup {head + 4}
    BY <1>2
  <2>3. {h + 4 : h \in ({g \in H : mem[g + 1] = 65} \cup {head})}
          = {h + 4 : h \in {g \in H : mem[g + 1] = 65}} \cup {head + 4}
    OBVIOUS
  <2> QED BY <1>13, <2>1, <2>2, <2>3
<1>15. ASSUME NEW b \in DOMAIN blocks' PROVE blocks'[b] \in Nat /\ blocks'[b] <= mem'[b - 4] /\ b \in Address
  <2>1. CASE b = head + 4
    <3>1. blocks'[b] = size
      BY <1>2, <2>1
    <3>2. b - 4 = head /\ head \in H2
      BY <1>2, <1>3, <1>8, <2>1
    <3>3. m1[head] \in Nat /\ mem'[head] = m1[head]
      BY <1>8, <1>9, <1>10, <3>2 DEF Memory
    <3>4. head + 4 \in Address
      <4>1. head \in H2 /\ BlockIn(mem, End, H, head) /\ m1[head] \in Nat
        BY <1>2, <1>4, <3>2, <3>3 DEF TilesIn
      <4>2. CASE mem[head + 2] = 0
        <5>1. mem[head] \in Nat /\ mem[head] > 0
          BY <1>2, <1>3, <4>1, <4>2 DEF BlockIn
        <5> QED BY <1>2, <1>3, <1>4, <5>1, BodyApart
      <4>3. CASE mem[head + 2] # 0
        <5>1. head + 4 + mem[head] \in H /\ mem[head] \in Nat
          BY <1>2, <1>3, <4>1, <4>3 DEF BlockIn
        <5>2. head + 4 >= Base /\ (head + 4) + 4 <= End
          BY <1>2, <1>3, <1>4, <5>1, HeapAssumption DEF TilesIn
        <5> QED BY <1>2, <1>3, <1>4, <5>2, HeadWords
      <4> QED BY <4>2, <4>3
    <3> QED BY <1>2, <1>8, <2>1, <3>1, <3>2, <3>3, <3>4
  <2>2. CASE b # head + 4
    <3>1. b \in DOMAIN blocks /\ blocks'[b] = blocks[b]
      BY <1>2, <2>2
    <3>2. b - 4 \in H /\ b - 4 # head
      BY <1>2, <1>3, <1>5, <2>2, <3>1
    <3>3. mem'[b - 4] = mem[b - 4]
      BY <1>8, <1>10, <3>2
    <3>4. b \in Address
      BY <1>2, <3>1 DEF TypeOK
    <3> QED BY <1>5, <3>1, <3>3, <3>4
  <2> QED BY <2>1, <2>2
<1>16. TypeOK'
  BY <1>2, <1>11, <1>15 DEF TypeOK, Memory
<1>17. HeapIn(H2)'
  BY <1>2, <1>12, <1>14, <1>15 DEF HeapIn, Tag, SizeOf
<1> QED BY <1>2, <1>16, <1>17 DEF HeapInv, NeverCorrupted

\* Of memories with the same blocks allocated, first by one change, then by
\* another.
LEMMA SameHeldTwice ==
  ASSUME NEW e, NEW m, NEW H, NEW m1, NEW H1, NEW m2, NEW H2,
         SameHeld(e, m, H, m1, H1), SameHeld(e, m1, H1, m2, H2)
  PROVE  SameHeld(e, m, H, m2, H2)
BY DEF SameHeld

\* What free does after it has written the tag.
LEMMA MergedHeld ==
  ASSUME TypeOK, NEW H, HeapIn(H), NEW h \in H
  PROVE  LET freed == [mem EXCEPT ![h + 1] = HEAD_FREE]
         IN  /\ \A g \in H : freed[g] = mem[g]
                             /\ freed[g + 1] = IF g = h THEN HEAD_FREE ELSE mem[g + 1]
             /\ \E H2 : SameHeld(End, freed, H, Merged(h), H2)
<1> USE DEF HeadSize, Null, HEAD_FREE, HEAD_ALLOCATED
<1> DEFINE freed == [mem EXCEPT ![h + 1] = HEAD_FREE]
           next == freed[h + 2]
           forward == IF next # Null /\ freed[next + 1] = HEAD_FREE
                        THEN mergeBlocks(freed, h, next) ELSE freed
           prev == forward[h + 3]
<1>1. \A g \in H : /\ g \in Nat /\ g # 0 /\ mem[g + 1] \in {65, 70}
                   /\ g \in Address /\ g + 1 \in Address /\ g + 2 \in Address /\ g + 3 \in Address
                   /\ (mem[g + 2] # 0 => mem[g + 2] \in H)
  BY Header_ DEF Tagged, Tag, NextOf
<1>2. mem \in Memory /\ End \in Nat /\ End <= Limit /\ TilesIn(mem, End, H)
  BY EndBounds DEF TypeOK, Memory, HeapIn
<1>3. freed \in Memory
  BY <1>2 DEF Memory
<1>4. \A g \in H : /\ freed[g] = mem[g] /\ freed[g + 2] = mem[g + 2] /\ freed[g + 3] = mem[g + 3]
                   /\ freed[g + 1] = IF g = h THEN 70 ELSE mem[g + 1]
  <2> TAKE g \in H
  <2>1. g = h \/ g + 4 <= h \/ h + 4 <= g
    BY <1>2, HeadsApart
  <2>2. \A a \in Address : freed[a] = IF a = h + 1 THEN 70 ELSE mem[a]
    BY <1>2 DEF Memory
  <2> HIDE DEF freed
  <2> QED BY <1>1, <2>1, <2>2
<1>5. TilesIn(freed, End, H)
  <2>1. \A g \in H : freed[g + 1] \in {65, 70}
    BY <1>1, <1>4
  <2> HIDE DEF freed
  <2> QED BY <1>2, <1>4, <2>1, SameLinks
<1>6. Merged(h) = IF prev # 0 /\ forward[prev + 1] = 70 THEN mergeBlocks(forward, prev, h) ELSE forward
  BY DEF Merged
<1> HIDE DEF freed
<1>7. \E H1 : SameHeld(End, freed, H, forward, H1) /\ h \in H1 /\ forward[h + 1] = 70
  <2>1. CASE next # 0 /\ freed[next + 1] = 70
    <3>1. next \in H /\ forward = mergeBlocks(freed, h, next)
      BY <1>1, <1>4, <2>1
    <3> DEFINE n == next
    <3>2. /\ n \in H /\ freed[h + 2] = n /\ freed[n + 1] = 70 /\ n # 0
          /\ forward = mergeBlocks(freed, h, n)
      BY <2>1, <3>1
    <3> HIDE DEF n, forward
    <3>3. /\ forward \in Memory /\ TilesIn(forward, End, H \ {n})
          /\ n = h + 4 + freed[h]
          /\ \A g \in H \ {n} : forward[g + 1] = freed[g + 1] /\ (g # h => forward[g] = freed[g])
      BY <1>2, <1>3, <1>5, <3>2, Merge
    <3>4. freed[h + 1] = 70 /\ h # n
      BY <1>1, <1>3, <1>4, <3>3 DEF Memory
    <3>5. {g \in H \ {n} : forward[g + 1] = 65} = {g \in H : freed[g + 1] = 65}
      <4>1. \A g \in H \ {n} : forward[g + 1] = freed[g + 1]
        BY <3>3
      <4>2. freed[n + 1] # 65
        BY <3>2
      <4> QED BY <4>1, <4>2
    <3>6. \A g \in H : freed[g + 1] = 65 => forward[g] = freed[g]
      BY <3>2, <3>3, <3>4
    <3> QED BY <3>3, <3>4, <3>5, <3>6 DEF SameHeld
  <2>2. CASE ~(next # 0 /\ freed[next + 1] = 70)
    <3>1. forward = freed
      BY <2>2
    <3> QED BY <1>3, <1>4, <1>5, <3>1 DEF SameHeld
  <2> QED BY <2>1, <2>2
<1> HIDE DEF forward
<1>8. PICK H1 : SameHeld(End, freed, H, forward, H1) /\ h \in H1 /\ forward[h + 1] = 70
  BY <1>7
<1>9. \E H2 : SameHeld(End, forward, H1, Merged(h), H2)
  <2>0. forward \in Memory /\ TilesIn(forward, End, H1)
    BY <1>8 DEF SameHeld
  <2>1. CASE prev # 0 /\ forward[prev + 1] = 70
    <3>1. Merged(h) = mergeBlocks(forward, forward[h + 3], h)
      BY <1>6, <2>1
    <3> QED BY <1>2, <1>8, <2>0, <2>1, <3>1, MergeBack
  <2>2. CASE ~(prev # 0 /\ forward[prev + 1] = 70)
    <3>1. Merged(h) = forward
      BY <1>6, <2>2
    <3> QED BY <2>0, <3>1 DEF SameHeld
  <2> QED BY <2>1, <2>2
<1>10. \E H2 : SameHeld(End, freed, H, Merged(h), H2)
  BY <1>8, <1>9, SameHeldTwice
<1> QED BY <1>4, <1>10 DEF freed

LEMMA FreeBlockInv ==
  ASSUME HeapInv, NEW b \in DOMAIN blocks, FreeBlock(b)
  PROVE  HeapInv'
<1> USE DEF HeadSize, Null, HEAD_FREE, HEAD_ALLOCATED
<1>1. PICK H : HeapIn(H)
  BY DEF HeapInv
<1> DEFINE h == b - 4
<1>2. TypeOK /\ h \in H /\ b = h + 4 /\ Tag(h) = 65
  BY <1>1, HeldBlock DEF HeapInv
<1>3. /\ mem' = Merged(h)
      /\ blocks' = [a \in DOMAIN blocks \ {b} |-> blocks[a]]
      /\ written' = Nothing \/ written' = written
      /\ pc' = pc /\ pc = "caller" /\ UNCHANGED <<frames, head, size, i, trap>>
  BY <1>2 DEF FreeBlock, locals
<1> HIDE DEF h
<1> DEFINE freed == [mem EXCEPT ![h + 1] = 70]
<1>4. /\ \A g \in H : freed[g] = mem[g] /\ freed[g + 1] = IF g = h THEN 70 ELSE mem[g + 1]
      /\ \E H2 : SameHeld(End, freed, H, Merged(h), H2)
  BY <1>1, <1>2, MergedHeld
<1> HIDE DEF freed
<1>5. PICK H2 : SameHeld(End, freed, H, mem', H2)
  BY <1>3, <1>4
<1>6. mem' \in Memory /\ TilesIn(mem', End', H2)
  BY <1>3, <1>5 DEF SameHeld, End
<1>7. {g \in H2 : mem'[g + 1] = 65} = {g \in H : mem[g + 1] = 65} \ {h}
  BY <1>4, <1>5 DEF SameHeld
<1>8. \A g \in H : g \in Nat
  BY <1>1, <1>2, Header_
<1>9. DOMAIN blocks' = {f + 4 : f \in {g \in H2 : mem'[g + 1] = 65}}
  <2>1. DOMAIN blocks = {f + 4 : f \in {g \in H : mem[g + 1] = 65}}
    BY <1>1 DEF HeapIn, Tag
  <2> DEFINE A == {g \in H : mem[g + 1] = 65}
  <2>2. \A f \in A : f \in Nat
    BY <1>8
  <2> HIDE DEF A
  <2>3. {f + 4 : f \in A \ {h}} = {f + 4 : f \in A} \ {h + 4}
    <3>1. \A f \in A : f # h => f + 4 # h + 4
      BY <1>2, <1>8, <2>2
    <3> QED BY <3>1
  <2> QED BY <1>2, <1>3, <1>7, <2>1, <2>3 DEF A
<1>10. \A c \in DOMAIN blocks' : blocks'[c] \in Nat /\ blocks'[c] <= mem'[c - 4] /\ c \in Address
  <2> TAKE c \in DOMAIN blocks'
  <2>1. c \in DOMAIN blocks /\ blocks'[c] = blocks[c] /\ c # b
    BY <1>3
  <2>2. c - 4 \in H /\ c = (c - 4) + 4 /\ Tag(c - 4) = 65 /\ blocks[c] \in Nat /\ blocks[c] <= mem[c - 4]
    BY <1>1, <1>2, <2>1, HeldBlock
  <2> DEFINE f == c - 4
  <2>3. f \in H /\ f # h /\ mem[f + 1] = 65
    BY <1>2, <2>1, <2>2 DEF Tag
  <2> HIDE DEF f
  <2>4. mem'[f] = mem[f]
    BY <1>4, <1>5, <2>3 DEF SameHeld
  <2>5. c \in Address
    BY <1>2, <2>1 DEF TypeOK
  <2> QED BY <2>1, <2>2, <2>4, <2>5 DEF f
<1>11. TypeOK'
  BY <1>2, <1>3, <1>6, <1>10 DEF TypeOK, Memory
<1>12. HeapIn(H2)'
  BY <1>3, <1>6, <1>9, <1>10 DEF HeapIn, Tag, SizeOf
<1> QED BY <1>3, <1>11, <1>12 DEF HeapInv, NeverCorrupted

LEMMA HeapInductive == HeapInv /\ [Next]_vars => HeapInv'
<1> SUFFICES ASSUME HeapInv, [Next]_vars PROVE HeapInv'
  OBVIOUS
<1>1. CASE CallAlloc
  BY <1>1, CallAllocInv
<1>2. CASE Alloc
  <2>1. CASE Walk
    BY <2>1, WalkInv
  <2>2. CASE Grow
    BY <2>2, GrowInv
  <2>3. CASE OutOfFrames
    BY <2>3, OutOfFramesInv
  <2>4. CASE AllocAgain
    BY <2>4, AllocAgainInv
  <2>5. CASE Take
    BY <2>5, TakeInv
  <2> QED BY <1>2, <2>1, <2>2, <2>3, <2>4, <2>5 DEF Alloc
<1>3. CASE \E b \in DOMAIN blocks : FreeBlock(b)
  BY <1>3, FreeBlockInv
<1>4. CASE \E b \in DOMAIN blocks : \E a \in Held(b), v \in Data : Write(a, v)
  BY <1>4, WriteInv
<1>5. CASE UNCHANGED vars
  <2>1. UNCHANGED <<mem, frames, pc, head, size, i, blocks, written, trap>>
    BY <1>5 DEF vars, locals
  <2>2. PICK H : HeapIn(H)
    BY DEF HeapInv
  <2>3. HeapIn(H)'
    BY <2>1, <2>2 DEF HeapIn, Tag, SizeOf, NextOf, End
  <2>4. TypeOK'
    BY <2>1 DEF HeapInv, TypeOK
  <2> QED BY <2>1, <2>3, <2>4 DEF HeapInv, NeverCorrupted
<1> QED BY <1>1, <1>2, <1>3, <1>4, <1>5 DEF Next

-----------------------------------------------------------------------------
(* The set of the invariant and the list.  Chain is a recursive function   *)
(* over the memory: that it has a value, and what it reaches, goes by the  *)
(* least number for which it would fail.                                   *)

LEMMA LeastNatural ==
  ASSUME NEW S \in SUBSET Nat, S # {}
  PROVE  \E m \in S : \A k \in S : m <= k
<1>1. PICK m \in S : \A k \in S : ~ (<<k, m>> \in OpToRel(<, Nat))
  BY NatLessThanWellFounded, WFMin, Zenon
<1>2. \A k \in S : ~ (k < m)
  <2>1. \A x, y \in Nat : x < y => <<x, y>> \in OpToRel(<, Nat)
    BY Zenon DEF OpToRel
  <2> QED BY <1>1, <2>1, Zenon
<1> QED BY <1>2

\* Induction over a set of numbers.
LEMMA UpTo ==
  ASSUME NEW N \in Nat, NEW P, 0 \in P, \A n \in 0 .. N - 1 : n \in P => n + 1 \in P
  PROVE  \A n \in 0 .. N : n \in P
<1> SUFFICES ASSUME {n \in 0 .. N : n \notin P} # {} PROVE FALSE
  OBVIOUS
<1> DEFINE S == {n \in 0 .. N : n \notin P}
<1>1. S \in SUBSET Nat
  OBVIOUS
<1> HIDE DEF S
<1>2. PICK m \in S : \A k \in S : m <= k
  BY <1>1, LeastNatural DEF S
<1>3. m \in 0 .. N /\ m \notin P /\ m # 0
  BY <1>2 DEF S
<1>4. m - 1 \in 0 .. N - 1 /\ m - 1 \in 0 .. N /\ (m - 1) + 1 = m
  BY <1>3
<1>5. m - 1 \notin S
  BY <1>2, <1>3
<1> QED BY <1>3, <1>4, <1>5 DEF S

\* The definition of Chain has a solution, built one header at a time.
LEMMA ChainIs ==
  ASSUME MaxHeads \in Nat
  PROVE  /\ Chain[0] = Base
         /\ \A n \in 0 .. MaxHeads - 1 :
              Chain[n + 1] = IF Chain[n] = Null THEN Null ELSE NextOf(Chain[n])
<1> DEFINE Step(h) == IF h = Null THEN Null ELSE NextOf(h)
           IsChain(f, n) == /\ DOMAIN f = 0 .. n /\ f[0] = Base
                            /\ \A k \in 0 .. n - 1 : f[k + 1] = Step(f[k])
           Solves(f) == f = [n \in 0 .. MaxHeads |->
                               IF n = 0 THEN Base
                               ELSE LET h == f[n - 1] IN IF h = Null THEN Null ELSE NextOf(h)]
           P == {n \in 0 .. MaxHeads : \E f : IsChain(f, n)}
<1>1. 0 \in P
  <2>1. IsChain([k \in 0 .. 0 |-> Base], 0)
    OBVIOUS
  <2>2. 0 \in 0 .. MaxHeads
    OBVIOUS
  <2> HIDE DEF IsChain
  <2> QED BY <2>1, <2>2
<1>2. ASSUME NEW n \in 0 .. MaxHeads - 1, n \in P PROVE n + 1 \in P
  <2>1. PICK f : IsChain(f, n)
    BY <1>2
  <2> DEFINE g == [k \in 0 .. n + 1 |-> IF k <= n THEN f[k] ELSE Step(f[n])]
  <2>2. g[0] = Base /\ DOMAIN g = 0 .. n + 1
    BY <2>1
  <2>3. ASSUME NEW k \in 0 .. n PROVE g[k + 1] = Step(g[k])
    <3> HIDE DEF Step
    <3>1. CASE k = n
      BY <3>1
    <3>2. CASE k # n
      <4>1. k \in 0 .. n - 1
        BY <3>2
      <4> QED BY <2>1, <4>1
    <3> QED BY <3>1, <3>2
  <2> HIDE DEF g, Step
  <2>4. (n + 1) - 1 = n
    OBVIOUS
  <2>5. IsChain(g, n + 1)
    BY <2>2, <2>3, <2>4
  <2> QED BY <2>5
<1> HIDE DEF P, Step
<1>3. MaxHeads \in P
  BY <1>1, <1>2, UpTo
<1>4. PICK f : IsChain(f, MaxHeads)
  BY <1>3 DEF P
<1>5. Solves([n \in 0 .. MaxHeads |-> f[n]])
  <2> DEFINE g == [n \in 0 .. MaxHeads |-> f[n]]
  <2>1. \A n \in 0 .. MaxHeads : g[n] = IF n = 0 THEN Base
                                       ELSE LET h == g[n - 1] IN IF h = Null THEN Null ELSE NextOf(h)
    <3> TAKE n \in 0 .. MaxHeads
    <3>1. CASE n = 0
      BY <1>4, <3>1
    <3>2. CASE n # 0
      <4>1. n - 1 \in 0 .. MaxHeads - 1 /\ n - 1 \in 0 .. MaxHeads /\ (n - 1) + 1 = n
        BY <3>2
      <4>2. f[n] = Step(f[n - 1])
        BY <1>4, <4>1
      <4> QED BY <3>2, <4>1, <4>2 DEF Step
    <3> QED BY <3>1, <3>2
  <2>2. DOMAIN g = 0 .. MaxHeads
    OBVIOUS
  <2> HIDE DEF g
  <2>3. g = [n \in 0 .. MaxHeads |-> g[n]]
    BY DEF g
  <2>4. Solves(g)
    BY <2>1, <2>3
  <2> QED BY <2>4 DEF g
<1>6. Chain = CHOOSE c : Solves(c)
  BY DEF Chain
<1>7. Solves(Chain)
  <2> HIDE DEF Solves
  <2> QED BY <1>5, <1>6
<1>8. 0 \in 0 .. MaxHeads
  OBVIOUS
<1>9. Chain[0] = Base
  BY <1>7, <1>8
<1>10. ASSUME NEW n \in 0 .. MaxHeads - 1 PROVE Chain[n + 1] = Step(Chain[n])
  <2>1. n + 1 \in 0 .. MaxHeads /\ n + 1 # 0 /\ (n + 1) - 1 = n
    OBVIOUS
  <2>2. Chain[n + 1] = IF n + 1 = 0 THEN Base
                       ELSE LET h == Chain[(n + 1) - 1] IN IF h = Null THEN Null ELSE NextOf(h)
    BY <1>7, <2>1
  <2> QED BY <2>1, <2>2 DEF Step
<1> QED BY <1>9, <1>10 DEF Step

\* The headers of the invariant are those that the list from heap_base reaches.
LEMMA HeadsAre ==
  ASSUME TypeOK, NEW H, HeapIn(H)
  PROVE  Heads = H
<1> USE DEF HeadSize, Null
<1> DEFINE words == MaxPages * PageSize
<1>1. words \in Nat /\ MaxHeads = words \div 4 /\ Limit = Base + words
  BY HeapAssumption DEF MaxHeads, Limit
<1> HIDE DEF words
<1>2. MaxHeads \in Nat /\ \A n \in Nat : 4 * n <= words => n <= MaxHeads
  BY <1>1
<1>3. /\ Chain[0] = Base
      /\ \A n \in 0 .. MaxHeads - 1 :
           Chain[n + 1] = IF Chain[n] = 0 THEN 0 ELSE NextOf(Chain[n])
  BY <1>2, ChainIs
<1>4. End \in Nat /\ End <= Limit /\ Base \in Nat \ {0}
  BY EndBounds
<1>5. \A h \in H : /\ h \in Nat \ {0} /\ h >= Base /\ h + 4 <= End
                   /\ mem[h] \in Nat
                   /\ NextOf(h) # 0 => NextOf(h) \in H /\ NextOf(h) = h + 4 + mem[h]
  BY Header_
<1>6. Base \in H /\ \A h \in H : h # Base => \E g \in H : NextOf(g) = h
  BY DEF HeapIn, TilesIn, NextOf
\* Every pointer of the chain is a header or null, and they grow.
<1>7. \A n \in 0 .. MaxHeads :
        /\ Chain[n] \in H \cup {0}
        /\ Chain[n] # 0 => Chain[n] >= Base + 4 * n
  <2> DEFINE P == {n \in 0 .. MaxHeads :
                     /\ Chain[n] \in H \cup {0}
                     /\ Chain[n] # 0 => Chain[n] >= Base + 4 * n}
  <2>1. 0 \in P
    BY <1>2, <1>3, <1>4, <1>6
  <2>2. ASSUME NEW n \in 0 .. MaxHeads - 1, n \in P PROVE n + 1 \in P
    <3>1. n + 1 \in 0 .. MaxHeads /\ n \in Nat
      BY <1>2
    <3>2. CASE Chain[n] = 0
      BY <1>3, <2>2, <3>1, <3>2
    <3>3. CASE Chain[n] # 0
      <4>1. Chain[n] \in H /\ Chain[n] >= Base + 4 * n /\ Chain[n + 1] = NextOf(Chain[n])
        BY <1>3, <2>2, <3>3
      <4>2. Chain[n + 1] # 0 => Chain[n + 1] \in H /\ Chain[n + 1] >= Base + 4 * (n + 1)
        BY <1>4, <1>5, <3>1, <4>1
      <4> QED BY <3>1, <4>2
    <3> QED BY <3>2, <3>3
  <2> HIDE DEF P
  <2>3. \A n \in 0 .. MaxHeads : n \in P
    BY <1>2, <2>1, <2>2, UpTo
  <2> QED BY <2>3 DEF P
<1>8. Heads \subseteq H
  BY <1>7 DEF Heads
\* The first header that the chain would miss is the next of one it has.
<1>9. H \subseteq Heads
  <2> SUFFICES ASSUME H \ Heads # {} PROVE FALSE
    OBVIOUS
  <2>1. PICK h \in H \ Heads : \A k \in H \ Heads : h <= k
    <3> DEFINE S == H \ Heads
    <3>1. S \in SUBSET Nat /\ S # {}
      BY <1>5
    <3> HIDE DEF S
    <3>2. \E m \in S : \A k \in S : m <= k
      BY <3>1, LeastNatural
    <3> QED BY <3>2 DEF S
  <2>2. h # Base
    <3>1. Chain[0] \in Heads
      BY <1>2, <1>3, <1>4 DEF Heads
    <3> QED BY <1>3, <2>1, <3>1
  <2>3. PICK g \in H : NextOf(g) = h
    BY <1>6, <2>1, <2>2
  <2>4. g < h /\ g \in Heads
    <3>1. g < h
      BY <1>5, <2>1, <2>3
    <3> QED BY <1>5, <2>1, <3>1
  <2>5. PICK n \in 0 .. MaxHeads : Chain[n] = g
    BY <2>4 DEF Heads
  <2>6. n \in 0 .. MaxHeads - 1
    <3>1. h >= Base + 4 * n + 4 /\ h + 4 <= Base + words
      BY <1>1, <1>2, <1>4, <1>5, <1>7, <2>1, <2>3, <2>5
    <3>2. n + 1 \in Nat /\ 4 * (n + 1) <= words
      BY <1>1, <1>2, <1>4, <1>5, <2>1, <3>1
    <3>3. n + 1 <= MaxHeads
      BY <1>2, <3>2
    <3> QED BY <1>2, <3>3
  <2>7. Chain[n + 1] = h /\ n + 1 \in 0 .. MaxHeads /\ h # 0
    BY <1>2, <1>3, <1>5, <2>1, <2>3, <2>5, <2>6
  <2>8. h \in Heads
    BY <2>7 DEF Heads
  <2> QED BY <2>1, <2>8
<1> QED BY <1>8, <1>9

-----------------------------------------------------------------------------
(* The theorems.                                                           *)

\* Neither "Heap Corruption" nor "Freeing Freed Memory" is ever raised for
\* callers that free what they hold and write where they may: whatever calls
\* of alloc and free in whatever order, the tag that alloc and free assert is
\* one of the two, and a block that is held is marked allocated.
THEOREM NoCorruption == Spec => []NeverCorrupted
<1>1. HeapInv => NeverCorrupted
  BY DEF HeapInv
<1> QED BY <1>1, HeapInit, HeapInductive, PTL DEF Spec

\* The pointers of alloc stay in the pages of the heap and the words are
\* numbers: no size underflows, although free also writes through a prev that
\* names a header long swallowed.
THEOREM HeapTyped == Spec => []TypeOK
<1>1. HeapInv => TypeOK
  BY DEF HeapInv
<1> QED BY <1>1, HeapInit, HeapInductive, PTL DEF Spec

\* After any calls of alloc and free in any order, whatever the callers write
\* and whatever free writes through a prev that is stale, the blocks of the
\* list from heap_base cover the pages without a gap and without overlap.
THEOREM ListAlwaysTiles == Spec => []ListTiles
<1>1. ASSUME HeapInv PROVE ListTiles
  <2>1. PICK H : HeapIn(H)
    BY <1>1 DEF HeapInv
  <2>2. TypeOK /\ Heads = H
    BY <1>1, <2>1, HeadsAre DEF HeapInv
  <2>3. \A h \in H : /\ h \in Nat /\ h >= Base /\ h + HeadSize <= End /\ Tagged(h)
                     /\ h + HeadSize + mem[h] <= End
                     /\ NextOf(h) = Null => h + HeadSize + mem[h] = End
                     /\ BlockIn(mem, End, H, h)
    BY <2>1, <2>2, Header_ DEF HeapIn, TilesIn
  <2>4. Base \in H /\ PrevOf(Base) = Null
    BY <2>1 DEF HeapIn, TilesIn, PrevOf
  <2>5. H \subseteq Base .. End - HeadSize
    BY <2>2, <2>3, EndBounds DEF HeadSize
  <2>6. \A h \in H : Linked(H, h)
    BY <2>3 DEF Linked, BlockIn, After, SizeOf, NextOf, PrevOf
  <2> QED BY <2>2, <2>4, <2>5, <2>6 DEF ListTiles, Tiles
<1> QED BY <1>1, HeapInit, HeapInductive, PTL DEF Spec

\* A block of the list is marked allocated exactly when a caller holds it, and
\* it is as long as the caller asked: none is lost, none given away twice.
THEOREM HeldStaysAllocated == Spec => []HeldIsAllocated
<1>1. ASSUME HeapInv PROVE HeldIsAllocated
  <2>1. PICK H : HeapIn(H)
    BY <1>1 DEF HeapInv
  <2>2. Heads = H
    BY <1>1, <2>1, HeadsAre DEF HeapInv
  <2>3. \A b \in DOMAIN blocks : SizeOf(b - HeadSize) >= blocks[b]
    BY <1>1, <2>1, HeldBlock DEF HeapInv, SizeOf
  <2> QED BY <2>1, <2>2, <2>3 DEF HeapIn, HeldIsAllocated
<1> QED BY <1>1, HeapInit, HeapInductive, PTL DEF Spec

\* What two callers hold has no word in common and lies in the pages of the
\* heap, whatever was allocated, freed, cut and merged before.
HeldApart ==
  \A b \in DOMAIN blocks :
    /\ Held(b) \subseteq Base .. End - 1
    /\ \A c \in DOMAIN blocks : b # c => Held(b) \cap Held(c) = {}
THEOREM CallersApart == Spec => []HeldApart
<1>1. ASSUME HeapInv PROVE HeldApart
  <2>1. PICK H : HeapIn(H)
    BY <1>1 DEF HeapInv
  <2>2. TypeOK /\ TilesIn(mem, End, H) /\ mem \in Memory /\ End \in Nat /\ End <= Limit
    BY <1>1, <2>1, EndBounds DEF HeapInv, HeapIn, TypeOK, Memory
  <2>3. ASSUME NEW b \in DOMAIN blocks
        PROVE  /\ b - HeadSize \in H /\ b = (b - HeadSize) + HeadSize
               /\ b - HeadSize \in Nat /\ b - HeadSize >= Base /\ Base \in Nat
               /\ mem[b - HeadSize] \in Nat /\ b + mem[b - HeadSize] <= End
               /\ blocks[b] \in Nat /\ blocks[b] <= mem[b - HeadSize]
    <3>1. /\ b - HeadSize \in H /\ b = (b - HeadSize) + HeadSize
          /\ blocks[b] \in Nat /\ blocks[b] <= mem[b - HeadSize]
      BY <2>1, <2>2, HeldBlock
    <3> DEFINE h == b - HeadSize
    <3>2. h \in Nat /\ h >= Base /\ mem[h] \in Nat /\ h + HeadSize + mem[h] <= End
      BY <2>1, <2>2, <3>1, Header_
    <3> QED BY <3>1, <3>2, HeapAssumption
  <2>4. ASSUME NEW b \in DOMAIN blocks PROVE Held(b) \subseteq Base .. End - 1
    <3> DEFINE h == b - HeadSize
    <3>1. b = h + HeadSize /\ h \in Nat /\ h >= Base /\ Base \in Nat /\ mem[h] \in Nat
          /\ b + mem[h] <= End /\ blocks[b] \in Nat /\ blocks[b] <= mem[h]
      BY <2>3
    <3> HIDE DEF h
    <3>2. \A a \in b .. b + blocks[b] - 1 : a \in Base .. End - 1
      BY <2>2, <3>1 DEF HeadSize
    <3> QED BY <3>2 DEF Held
  <2>5. ASSUME NEW b \in DOMAIN blocks, NEW c \in DOMAIN blocks, b # c
        PROVE  Held(b) \cap Held(c) = {}
    <3> DEFINE h == b - HeadSize
               g == c - HeadSize
    <3>1. /\ h \in H /\ b = h + HeadSize /\ h \in Nat /\ mem[h] \in Nat
          /\ blocks[b] \in Nat /\ blocks[b] <= mem[h]
      BY <2>3
    <3>2. /\ g \in H /\ c = g + HeadSize /\ g \in Nat /\ mem[g] \in Nat
          /\ blocks[c] \in Nat /\ blocks[c] <= mem[g]
      BY <2>3
    <3> HIDE DEF h, g
    <3>3. h # g
      BY <2>5, <3>1, <3>2
    <3>4. (h < g => b + mem[h] <= g) /\ (g < h => c + mem[g] <= h)
      BY <2>2, <3>1, <3>2, <3>3, HeadsApart
    <3>5. b + blocks[b] <= c \/ c + blocks[c] <= b
      BY <3>1, <3>2, <3>3, <3>4 DEF HeadSize
    <3>6. \A a \in b .. b + blocks[b] - 1 : ~(a \in c .. c + blocks[c] - 1)
      BY <3>1, <3>2, <3>5 DEF HeadSize
    <3> QED BY <3>6 DEF Held
  <2> QED BY <2>4, <2>5 DEF HeldApart
<1> QED BY <1>1, HeapInit, HeapInductive, PTL DEF Spec
=============================================================================
