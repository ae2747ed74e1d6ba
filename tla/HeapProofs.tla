----------------------------- MODULE HeapProofs -----------------------------
(***************************************************************************)
(* Proofs about the heap, for every page size, every set of usable frames, *)
(* every sequence of requests whose sizes do not wrap, and any number of   *)
(* allocations alive at the same time.                                     *)
(***************************************************************************)
EXTENDS Heap, SequenceTheorems, FiniteSetTheorems, WellFoundedInduction, TLAPS

-----------------------------------------------------------------------------
(* Numbers.                                                                *)

\* A set of numbers that is not empty has a least element.
LEMMA Least ==
    ASSUME NEW S, S \subseteq Nat, S # {}
    PROVE  \E x \in S : \A y \in S : x <= y
  <1>1. PICK x \in S : \A y \in S : ~(<<y, x>> \in OpToRel(<, Nat))
    BY WFMin, NatLessThanWellFounded
  <1>2. ASSUME NEW y \in S PROVE x <= y
    <2>1. x \in Nat /\ y \in Nat
      OBVIOUS
    <2>2. ~(<<y, x>> \in OpToRel(<, Nat))
      BY <1>1
    <2>3. ~(y < x)
      BY <2>1, <2>2 DEF OpToRel
    <2> QED BY <2>1, <2>3
  <1> QED BY <1>2

\* Induction, with a set in the place of the predicate.
LEMMA Reaches ==
    ASSUME NEW S, 0 \in S, \A n \in Nat : n \in S => n + 1 \in S
    PROVE  \A n \in Nat : n \in S
  <1> DEFINE Rest == {n \in Nat : n \notin S}
  <1> SUFFICES ASSUME Rest # {} PROVE FALSE
    OBVIOUS
  <1>1. PICK x \in Rest : \A y \in Rest : x <= y
    <2>1. Rest \subseteq Nat
      OBVIOUS
    <2> HIDE DEF Rest
    <2> QED BY <2>1, Least
  <1>2. x \in Nat /\ x # 0 /\ x \notin S
    OBVIOUS
  <1>3. PICK y \in Nat : x = y + 1
    BY <1>2
  <1>4. y \in S
    BY <1>1, <1>3
  <1> QED BY <1>2, <1>3, <1>4

\* The types of the constants.
LEMMA SpaceIs ==
    /\ Word \in Nat /\ Word > 0 /\ FrameLimit \in Nat /\ PageSize \in Nat /\ PageSize >= 64
    /\ PageSize % 16 = 0 /\ FrameLimit * PageSize <= Word
  BY SpaceAssumption

\* Rounding up to a multiple of 16 where the sum does not wrap.
LEMMA AlignIs ==
    ASSUME NEW n \in Nat, n + 15 < Word
    PROVE  /\ align_up(n) \in Nat /\ n <= align_up(n) /\ align_up(n) <= n + 15
           /\ align_up(n) % 16 = 0
           /\ n % 16 = 0 => align_up(n) = n
           /\ n % 16 = 8 => align_up(n) = n + 8
  <1>1. PICK v \in Nat : v = n + 15
    OBVIOUS
  <1>2. Word \in Nat /\ v < Word
    BY <1>1, SpaceAssumption
  <1>3. v % Word = v
    BY <1>2
  <1>4. (n + HEAP_ALIGNMENT - 1) % Word = v
    BY <1>1, <1>3 DEF HEAP_ALIGNMENT
  <1>5. align_up(n) = v - (v % 16)
    BY <1>4 DEF align_up, HEAP_ALIGNMENT
  <1> HIDE DEF align_up
  <1> QED BY <1>1, <1>5
-----------------------------------------------------------------------------
(* The walk of heap_coalesce.                                              *)

\* The function that the walk computes, of the places up to n.
Walks(f, l, base, n) ==
    f = [k \in 0 .. n |-> IF k = 0 THEN base ELSE merge_next(f[k - 1], l[k])]

LEMMA WalkExists ==
    ASSUME NEW l, NEW base
    PROVE  \A n \in Nat : \E f : Walks(f, l, base, n)
  <1> DEFINE S == {n \in Nat : \E f : Walks(f, l, base, n)}
  <1>1. 0 \in S
    <2>1. Walks([k \in 0 .. 0 |-> base], l, base, 0)
      BY DEF Walks
    <2> QED BY <2>1
  <1>2. ASSUME NEW n \in Nat, n \in S PROVE n + 1 \in S
    <2>1. PICK f : Walks(f, l, base, n)
      BY <1>2
    <2> DEFINE g == [k \in 0 .. n + 1 |-> IF k <= n THEN f[k] ELSE merge_next(f[n], l[n + 1])]
    <2>2. \A k \in 0 .. n : g[k] = f[k]
      OBVIOUS
    <2>3. ASSUME NEW k \in 0 .. n + 1
          PROVE  g[k] = IF k = 0 THEN base ELSE merge_next(g[k - 1], l[k])
      <3>1. CASE k = 0
        BY <2>1, <2>2, <3>1 DEF Walks
      <3>2. CASE k # 0 /\ k <= n
        <4>1. f[k] = merge_next(f[k - 1], l[k])
          BY <2>1, <3>2 DEF Walks
        <4>2. g[k] = f[k] /\ g[k - 1] = f[k - 1]
          BY <2>2, <3>2
        <4> QED BY <3>2, <4>1, <4>2
      <3>3. CASE k = n + 1
        <4>1. g[k] = merge_next(f[n], l[k]) /\ g[k - 1] = f[n]
          BY <2>2, <3>3
        <4> QED BY <3>3, <4>1
      <3> QED BY <3>1, <3>2, <3>3
    <2>4. Walks(g, l, base, n + 1)
      <3> DEFINE w == [k \in 0 .. n + 1 |-> IF k = 0 THEN base ELSE merge_next(g[k - 1], l[k])]
      <3>1. g = w
        BY <2>3
      <3> QED BY <3>1 DEF Walks
    <2> QED BY <2>4
  <1> HIDE DEF S
  <1>3. \A n \in Nat : n \in S
    BY <1>1, <1>2, Reaches
  <1> QED BY <1>3 DEF S

\* heap_coalesce is the last value of that function.
LEMMA CoalesceIs ==
    ASSUME NEW m, Len(m.list) \in Nat
    PROVE  \E f : /\ Walks(f, m.list, Mem(<<>>, m.hdr), Len(m.list))
                  /\ heap_coalesce(m) = f[Len(m.list)]
  <1> DEFINE walk == CHOOSE f : Walks(f, m.list, Mem(<<>>, m.hdr), Len(m.list))
  <1>1. Walks(walk, m.list, Mem(<<>>, m.hdr), Len(m.list))
    BY WalkExists
  <1>2. heap_coalesce(m) = walk[Len(m.list)]
    BY DEF heap_coalesce, Walks
  <1> QED BY <1>1, <1>2
-----------------------------------------------------------------------------
(* What a walk leaves of the list.                                         *)

Header == [size : Nat, free : BOOLEAN]

\* A list of headers in the order of their addresses, none inside another's
\* block.
Sound(l, h) ==
    /\ l \in Seq(Nat)
    /\ h \in [DOMAIN h -> Header]
    /\ \A i \in 1 .. Len(l) : l[i] \in DOMAIN h
    /\ \A i, j \in 1 .. Len(l) : i < j => End(h, l[i]) <= l[j]

\* Byte x lies in one of the first n blocks.
Covered(l, h, n, x) == \E i \in 1 .. n : l[i] <= x /\ x < End(h, l[i])

\* Blocks that nearly touch touch, and none ends beyond the last address.
Snug(l, h) ==
    /\ \A i, j \in 1 .. Len(l) : i < j /\ l[j] <= End(h, l[i]) + 15 => End(h, l[i]) = l[j]
    /\ \A i \in 1 .. Len(l) : End(h, l[i]) <= Word

\* What is left of the first k blocks when the walk has come to block k.
Walked(l, h, k, al, ah) ==
    /\ Sound(al, ah) /\ DOMAIN ah = DOMAIN h
    /\ k = 0 <=> al = <<>>
    /\ k > 0 => End(ah, al[Len(al)]) = End(h, l[k])
    /\ \A i \in 1 .. Len(al) : \E j \in 1 .. k : al[i] = l[j]
    /\ \A j \in k + 1 .. Len(l) : ah[l[j]] = h[l[j]]
    /\ \A x \in Nat : Covered(al, ah, Len(al), x) <=> Covered(l, h, k, x)
    /\ \A i \in 1 .. Len(al) : ~ah[al[i]].free => ah[al[i]] = h[al[i]]
    /\ \A j \in 1 .. k : ~h[l[j]].free => \E i \in 1 .. Len(al) : al[i] = l[j] /\ ah[l[j]] = h[l[j]]
    /\ \A j \in 1 .. k : \/ \E i \in 1 .. Len(al) : al[i] = l[j]
                         \/ \E i \in 1 .. j - 1 : End(h, l[i]) = l[j]

\* A header and its block.
LEMMA BlockIs ==
    ASSUME NEW l, NEW h, Sound(l, h), NEW i \in 1 .. Len(l)
    PROVE  /\ Len(l) \in Nat /\ l[i] \in Nat /\ l[i] \in DOMAIN h
           /\ h[l[i]] \in Header /\ h[l[i]].size \in Nat /\ h[l[i]].free \in BOOLEAN
           /\ End(h, l[i]) \in Nat /\ End(h, l[i]) = l[i] + 24 + h[l[i]].size
  <1>1. Len(l) \in Nat /\ l[i] \in Nat /\ l[i] \in DOMAIN h /\ h[l[i]] \in Header
    BY DEF Sound
  <1>2. h[l[i]].size \in Nat /\ h[l[i]].free \in BOOLEAN
    BY <1>1 DEF Header
  <1> QED BY <1>1, <1>2 DEF End, HeaderSize

\* Headers g are the headers h but for the one at b.
Written(g, h, b, n, f) ==
    /\ g \in [DOMAIN g -> Header] /\ DOMAIN g = DOMAIN h \cup {b}
    /\ g[b] = [size |-> n, free |-> f] /\ End(g, b) = b + 24 + n
    /\ \A c \in DOMAIN h : c # b => g[c] = h[c] /\ End(g, c) = End(h, c)

LEMMA WithIs ==
    ASSUME NEW h, h \in [DOMAIN h -> Header], NEW b, NEW n \in Nat, NEW f \in BOOLEAN
    PROVE  Written(With(h, b, n, f), h, b, n, f)
  <1>1. [size |-> n, free |-> f] \in Header
    BY DEF Header
  <1>2. With(h, b, n, f) \in [DOMAIN h \cup {b} -> Header]
    BY <1>1 DEF With
  <1>3. With(h, b, n, f)[b] = [size |-> n, free |-> f]
    BY DEF With
  <1>4. \A c \in DOMAIN h : c # b => With(h, b, n, f)[c] = h[c]
    BY DEF With
  <1>5. End(With(h, b, n, f), b) = b + 24 + n
    BY <1>3 DEF End, HeaderSize
  <1>6. \A c \in DOMAIN h : c # b => End(With(h, b, n, f), c) = End(h, c)
    BY <1>4 DEF End
  <1> QED BY <1>2, <1>3, <1>4, <1>5, <1>6 DEF Written

\* Different places of the list hold different addresses.
LEMMA Distinct ==
    ASSUME NEW l, NEW h, Sound(l, h), NEW i \in 1 .. Len(l), NEW j \in 1 .. Len(l), i # j
    PROVE  l[i] # l[j] /\ (i < j <=> l[i] < l[j])
  <1>1. /\ l[i] \in Nat /\ End(h, l[i]) \in Nat /\ l[i] < End(h, l[i])
        /\ l[j] \in Nat /\ End(h, l[j]) \in Nat /\ l[j] < End(h, l[j])
    <2>1. \A x \in Nat, y \in Nat : x + 24 + y \in Nat /\ x < x + 24 + y
      OBVIOUS
    <2>2. l[i] \in Nat /\ h[l[i]].size \in Nat /\ End(h, l[i]) = l[i] + 24 + h[l[i]].size
      BY BlockIs
    <2>3. l[j] \in Nat /\ h[l[j]].size \in Nat /\ End(h, l[j]) = l[j] + 24 + h[l[j]].size
      BY BlockIs
    <2>4. End(h, l[i]) \in Nat /\ l[i] < End(h, l[i])
      BY <2>1, <2>2
    <2>5. End(h, l[j]) \in Nat /\ l[j] < End(h, l[j])
      BY <2>1, <2>3
    <2> QED BY <2>2, <2>3, <2>4, <2>5
  <1>2. i < j => End(h, l[i]) <= l[j]
    BY DEF Sound
  <1>3. j < i => End(h, l[j]) <= l[i]
    BY DEF Sound
  <1> QED BY <1>1, <1>2, <1>3

\* The blocks that are left end before the next one begins.
LEMMA WalkAhead ==
    ASSUME NEW l, NEW h, Sound(l, h), NEW k \in Nat, k < Len(l),
           NEW al, NEW ah, Walked(l, h, k, al, ah)
    PROVE  /\ Len(al) \in Nat /\ k + 1 \in 1 .. Len(l)
           /\ l[k + 1] \in Nat /\ ah[l[k + 1]] = h[l[k + 1]]
           /\ End(ah, l[k + 1]) = End(h, l[k + 1])
           /\ \A i \in 1 .. Len(al) :
                /\ al[i] \in Nat /\ End(ah, al[i]) \in Nat /\ al[i] < End(ah, al[i])
                /\ End(ah, al[i]) <= l[k + 1]
  <1>1. /\ Len(al) \in Nat /\ Sound(al, ah) /\ Len(l) \in Nat
    BY DEF Walked, Sound
  <1>2. PICK n \in Nat, p \in 1 .. Len(l), c \in Nat : n = Len(al) /\ p = k + 1 /\ c = l[p]
    <2>1. k + 1 \in 1 .. Len(l)
      BY <1>1
    <2>2. l[k + 1] \in Nat
      BY <2>1, BlockIs
    <2> QED BY <1>1, <2>1, <2>2
  <1>3. p \in 1 .. Len(l) /\ p \in k + 1 .. Len(l)
    BY <1>1, <1>2
  <1>4. c \in Nat /\ ah[c] = h[c]
    <2>1. c \in Nat
      BY <1>2, <1>3, BlockIs
    <2>2. ah[c] = h[c]
      BY <1>2, <1>3 DEF Walked
    <2> QED BY <2>1, <2>2
  <1>5. End(ah, c) = End(h, c)
    BY <1>4 DEF End
  <1>6. ASSUME NEW i \in 1 .. n
        PROVE  /\ al[i] \in Nat /\ End(ah, al[i]) \in Nat /\ al[i] < End(ah, al[i])
               /\ End(ah, al[i]) <= c
    <2>1. /\ al[i] \in Nat /\ End(ah, al[i]) \in Nat /\ ah[al[i]].size \in Nat
          /\ End(ah, al[i]) = al[i] + 24 + ah[al[i]].size
      BY <1>1, <1>2, BlockIs
    <2>2. /\ al[n] \in Nat /\ End(ah, al[n]) \in Nat /\ ah[al[n]].size \in Nat
          /\ End(ah, al[n]) = al[n] + 24 + ah[al[n]].size
      <3>1. n \in 1 .. Len(al)
        BY <1>2
      <3> QED BY <1>1, <3>1, BlockIs
    <2>3. k > 0
      <3>1. al # <<>>
        BY <1>2
      <3> QED BY <3>1 DEF Walked
    <2>4. End(ah, al[n]) = End(h, l[k])
      BY <1>2, <2>3 DEF Walked
    <2>5. End(h, l[k]) <= c
      <3>1. k \in 1 .. Len(l) /\ p \in 1 .. Len(l) /\ k < p
        BY <1>1, <1>2, <1>3, <2>3
      <3> QED BY <1>2, <3>1 DEF Sound
    <2>6. i # n => End(ah, al[i]) <= al[n]
      <3>1. i # n => i \in 1 .. Len(al) /\ n \in 1 .. Len(al) /\ i < n
        BY <1>2
      <3> QED BY <1>1, <3>1 DEF Sound
    <2>7. al[i] < End(ah, al[i])
      BY <2>1
    <2>8. CASE i = n
      BY <1>4, <2>1, <2>2, <2>4, <2>5, <2>7, <2>8
    <2>9. CASE i # n
      <3>1. End(ah, al[i]) <= al[n] /\ al[n] < End(ah, al[n]) /\ End(ah, al[n]) <= c
        BY <2>2, <2>4, <2>5, <2>6, <2>9
      <3> QED BY <1>4, <2>1, <2>2, <2>7, <3>1
    <2> QED BY <2>8, <2>9
  <1> QED BY <1>1, <1>2, <1>3, <1>4, <1>5, <1>6

\* One block more.
LEMMA CoveredMore ==
    ASSUME NEW l, NEW h, NEW k \in Nat, NEW x
    PROVE  Covered(l, h, k + 1, x)
             <=> Covered(l, h, k, x) \/ (l[k + 1] <= x /\ x < End(h, l[k + 1]))
  <1>1. 1 .. k + 1 = (1 .. k) \cup {k + 1}
    OBVIOUS
  <1> QED BY <1>1 DEF Covered

\* The next block stays a block of its own.
LEMMA WalkOn ==
    ASSUME NEW l, NEW h, Sound(l, h), NEW k \in Nat, k < Len(l),
           NEW al, NEW ah, Walked(l, h, k, al, ah)
    PROVE  Walked(l, h, k + 1, Append(al, l[k + 1]), ah)
  <1>1. PICK n \in Nat, p \in 1 .. Len(l), c \in Nat, bl \in Seq(Nat) :
          n = Len(al) /\ p = k + 1 /\ c = l[p] /\ bl = Append(al, c)
    <2>1. al \in Seq(Nat)
      BY DEF Walked, Sound
    <2>2. Append(al, l[k + 1]) \in Seq(Nat)
      BY <2>1, WalkAhead, AppendProperties
    <2> QED BY <2>2, WalkAhead
  <1>2. /\ Len(bl) = n + 1 /\ bl[n + 1] = c /\ \A i \in 1 .. n : bl[i] = al[i]
    <2>1. al \in Seq(Nat)
      BY DEF Walked, Sound
    <2> QED BY <1>1, <2>1, AppendProperties
  <1>3. /\ ah[c] = h[c] /\ End(ah, c) = End(h, c) /\ c \in DOMAIN ah
        /\ \A i \in 1 .. n : /\ al[i] \in Nat /\ End(ah, al[i]) \in Nat
                             /\ End(ah, al[i]) <= c
    <2>1. c \in DOMAIN ah
      BY <1>1 DEF Walked, Sound
    <2> QED BY <1>1, <2>1, WalkAhead
  <1>4. \A i \in 1 .. n + 1 : i = n + 1 \/ i \in 1 .. n
    OBVIOUS
  <1>5. Sound(bl, ah)
    <2>1. ah \in [DOMAIN ah -> Header] /\ \A i \in 1 .. n : al[i] \in DOMAIN ah
      BY <1>1 DEF Walked, Sound
    <2>2. \A i \in 1 .. Len(bl) : bl[i] \in DOMAIN ah
      BY <1>2, <1>3, <1>4, <2>1
    <2>3. ASSUME NEW i \in 1 .. Len(bl), NEW j \in 1 .. Len(bl), i < j
          PROVE  End(ah, bl[i]) <= bl[j]
      <3>1. i \in 1 .. n
        BY <1>2, <2>3
      <3>2. CASE j = n + 1
        BY <1>2, <1>3, <3>1, <3>2
      <3>3. CASE j \in 1 .. n
        <4>1. End(ah, al[i]) <= al[j]
          BY <1>1, <2>3, <3>1, <3>3 DEF Walked, Sound
        <4> QED BY <1>2, <3>1, <3>3, <4>1
      <3> QED BY <1>2, <1>4, <3>2, <3>3
    <2> QED BY <1>1, <2>1, <2>2, <2>3 DEF Sound
  <1>6. DOMAIN ah = DOMAIN h /\ bl # <<>> /\ End(ah, bl[Len(bl)]) = End(h, l[k + 1])
    <2>1. DOMAIN ah = DOMAIN h
      BY DEF Walked
    <2>2. bl # <<>>
      BY <1>1, <1>2
    <2> QED BY <1>1, <1>2, <1>3, <2>1, <2>2
  <1>7. \A i \in 1 .. Len(bl) : \E j \in 1 .. k + 1 : bl[i] = l[j]
    <2>1. \A i \in 1 .. n : \E j \in 1 .. k : al[i] = l[j]
      BY <1>1 DEF Walked
    <2>2. \A i \in 1 .. n : \E j \in 1 .. k + 1 : bl[i] = l[j]
      BY <1>2, <2>1
    <2> QED BY <1>1, <1>2, <1>4, <2>2
  <1>8. \A j \in k + 2 .. Len(l) : ah[l[j]] = h[l[j]]
    BY DEF Walked
  <1>9. ASSUME NEW x \in Nat
        PROVE  Covered(bl, ah, Len(bl), x) <=> Covered(l, h, k + 1, x)
    <2>1. Covered(bl, ah, n + 1, x) <=> Covered(bl, ah, n, x) \/ (c <= x /\ x < End(ah, c))
      BY <1>2, CoveredMore
    <2>2. Covered(bl, ah, n, x) <=> Covered(al, ah, n, x)
      BY <1>2 DEF Covered
    <2>3. Covered(al, ah, n, x) <=> Covered(l, h, k, x)
      BY <1>1 DEF Walked
    <2>4. Covered(l, h, k + 1, x) <=> Covered(l, h, k, x) \/ (c <= x /\ x < End(h, c))
      BY <1>1, CoveredMore
    <2> QED BY <1>2, <1>3, <2>1, <2>2, <2>3, <2>4
  <1>10. \A i \in 1 .. Len(bl) : ~ah[bl[i]].free => ah[bl[i]] = h[bl[i]]
    <2>1. \A i \in 1 .. n : ~ah[al[i]].free => ah[al[i]] = h[al[i]]
      BY <1>1 DEF Walked
    <2> QED BY <1>2, <1>3, <1>4, <2>1
  <1>11. ASSUME NEW j \in 1 .. k + 1, ~h[l[j]].free
         PROVE  \E i \in 1 .. Len(bl) : bl[i] = l[j] /\ ah[l[j]] = h[l[j]]
    <2>1. CASE j = k + 1
      BY <1>1, <1>2, <1>3, <2>1
    <2>2. CASE j \in 1 .. k
      <3>1. PICK i \in 1 .. n : al[i] = l[j] /\ ah[l[j]] = h[l[j]]
        BY <1>1, <1>11, <2>2 DEF Walked
      <3>2. i \in 1 .. Len(bl) /\ bl[i] = l[j]
        BY <1>2, <3>1
      <3> QED BY <3>1, <3>2
    <2> QED BY <2>1, <2>2
  <1>12. ASSUME NEW j \in 1 .. k + 1
         PROVE  \/ \E i \in 1 .. Len(bl) : bl[i] = l[j]
                \/ \E i \in 1 .. j - 1 : End(h, l[i]) = l[j]
    <2>1. CASE j = k + 1
      BY <1>1, <1>2, <2>1
    <2>2. CASE j \in 1 .. k
      <3>1. \/ \E i \in 1 .. n : al[i] = l[j]
            \/ \E i \in 1 .. j - 1 : End(h, l[i]) = l[j]
        BY <1>1, <2>2 DEF Walked
      <3>2. \A i \in 1 .. n : i \in 1 .. Len(bl) /\ bl[i] = al[i]
        BY <1>2
      <3> QED BY <3>1, <3>2
    <2> QED BY <2>1, <2>2
  <1>13. /\ k + 1 > 0 /\ k + 1 # 0 /\ (k + 1) + 1 = k + 2
    OBVIOUS
  <1>14. Walked(l, h, k + 1, bl, ah)
    BY <1>5, <1>6, <1>7, <1>8, <1>9, <1>10, <1>11, <1>12, <1>13 DEF Walked
  <1> QED BY <1>1, <1>14

\* Blocks are merged only where they touch.
LEMMA MergeTouches ==
    ASSUME NEW l, NEW h, Sound(l, h), Snug(l, h), NEW k \in Nat, k < Len(l),
           NEW al, NEW ah, Walked(l, h, k, al, ah), al # <<>>,
           Mergeable(ah, al[Len(al)], l[k + 1])
    PROVE  /\ k > 0 /\ Len(al) \in 1 .. Len(al)
           /\ End(h, l[k]) = l[k + 1] /\ End(ah, al[Len(al)]) = l[k + 1]
           /\ ah[al[Len(al)]].free /\ h[l[k + 1]].free
  <1>1. PICK n \in Nat, p \in 1 .. Len(l), c \in Nat :
          n = Len(al) /\ p = k + 1 /\ c = l[p] /\ n > 0
    <2>1. al \in Seq(Nat)
      BY DEF Walked, Sound
    <2> QED BY <2>1, WalkAhead, EmptySeq
  <1>2. k > 0 /\ n \in 1 .. n /\ Sound(al, ah) /\ k \in 1 .. Len(l)
    <2>1. k # 0
      BY DEF Walked
    <2> QED BY <1>1, <2>1 DEF Walked
  <1>3. PICK b \in Nat, s \in Nat : b = al[n] /\ s = ah[b].size /\ End(ah, b) = b + 24 + s
    <2>1. n \in 1 .. Len(al)
      BY <1>1, <1>2
    <2>2. al[n] \in Nat /\ ah[al[n]].size \in Nat /\ End(ah, al[n]) = al[n] + 24 + ah[al[n]].size
      BY <1>2, <2>1, BlockIs
    <2> QED BY <2>2
  <1>4. End(h, l[k]) = b + 24 + s /\ b + 24 + s <= Word
    <2>1. End(ah, b) = End(h, l[k])
      BY <1>1, <1>2, <1>3 DEF Walked
    <2>2. End(h, l[k]) <= Word
      BY <1>2 DEF Snug
    <2> QED BY <1>3, <2>1, <2>2
  <1>5. s + 15 < Word
    <2>1. b + 24 + s <= Word /\ Word \in Nat
      BY <1>4, SpaceIs
    <2> QED BY <2>1
  <1>6. align_up(s) \in Nat /\ align_up(s) <= s + 15
    BY <1>5, AlignIs
  <1>7. ah[b].free /\ ah[c].free /\ b + 24 + align_up(s) = c
    BY <1>1, <1>3 DEF Mergeable, HeaderSize
  <1>8. c <= End(h, l[k]) + 15
    <2>1. PICK a \in Nat : a = align_up(s) /\ a <= s + 15 /\ b + 24 + a = c
      BY <1>6, <1>7
    <2>2. c <= (b + 24 + s) + 15
      BY <2>1
    <2> QED BY <1>4, <2>2
  <1>9. End(h, l[k]) = c
    <2>1. k < p
      BY <1>1
    <2> QED BY <1>1, <1>2, <1>8, <2>1 DEF Snug
  <1>10. h[c].free
    BY <1>1, <1>7, WalkAhead
  <1> QED BY <1>1, <1>2, <1>3, <1>4, <1>7, <1>9, <1>10

\* The next block becomes part of the last one.
LEMMA WalkMerge ==
    ASSUME NEW l, NEW h, Sound(l, h), Snug(l, h), NEW k \in Nat, k < Len(l),
           NEW al, NEW ah, Walked(l, h, k, al, ah), al # <<>>,
           Mergeable(ah, al[Len(al)], l[k + 1])
    PROVE  Walked(l, h, k + 1, al,
                  With(ah, al[Len(al)], Merged(ah, al[Len(al)], l[k + 1]), TRUE))
  <1>1. PICK n \in Nat, p \in 1 .. Len(l), c \in Nat :
          n = Len(al) /\ p = k + 1 /\ c = l[p] /\ n \in 1 .. n
    BY MergeTouches, WalkAhead
  <1>2. /\ Sound(al, ah) /\ DOMAIN ah = DOMAIN h /\ k > 0 /\ n > 0
        /\ ah \in [DOMAIN ah -> Header] /\ \A i \in 1 .. n : al[i] \in DOMAIN ah
    BY <1>1, MergeTouches DEF Walked, Sound
  <1>3. PICK b \in Nat, s \in Nat : b = al[n] /\ s = ah[b].size /\ End(ah, b) = b + 24 + s
    <2>1. n \in 1 .. Len(al)
      BY <1>1, <1>2
    <2>2. al[n] \in Nat /\ ah[al[n]].size \in Nat /\ End(ah, al[n]) = al[n] + 24 + ah[al[n]].size
      BY <1>2, <2>1, BlockIs
    <2> QED BY <2>2
  <1>4. /\ End(h, l[k]) = c /\ End(ah, b) = c /\ ah[b].free /\ h[c].free
        /\ ah[c] = h[c] /\ End(ah, c) = End(h, c)
    <2>1. /\ End(h, l[k]) = l[k + 1] /\ End(ah, al[Len(al)]) = l[k + 1]
          /\ ah[al[Len(al)]].free /\ h[l[k + 1]].free
      BY MergeTouches
    <2>2. ah[l[k + 1]] = h[l[k + 1]] /\ End(ah, l[k + 1]) = End(h, l[k + 1])
      BY WalkAhead
    <2> QED BY <1>1, <1>3, <2>1, <2>2
  <1>5. PICK t \in Nat : t = h[c].size /\ End(h, c) = c + 24 + t
    BY <1>1, BlockIs
  <1>6. PICK size \in Nat : size = Merged(ah, b, c) /\ size = s + 24 + t
    <2>1. Merged(ah, b, c) = s + 24 + t
      BY <1>3, <1>4, <1>5 DEF Merged, HeaderSize
    <2> QED BY <2>1
  <1>7. PICK bh : bh = With(ah, b, size, TRUE)
    OBVIOUS
  <1>8. /\ bh \in [DOMAIN ah -> Header] /\ DOMAIN bh = DOMAIN ah
        /\ bh[b].free /\ End(bh, b) = b + 24 + size
        /\ \A d \in DOMAIN ah : d # b => bh[d] = ah[d] /\ End(bh, d) = End(ah, d)
    <2>1. DOMAIN ah \cup {b} = DOMAIN ah
      BY <1>1, <1>2, <1>3
    <2>2. Written(bh, ah, b, size, TRUE)
      <3>1. TRUE \in BOOLEAN /\ ah \in [DOMAIN ah -> Header]
        BY <1>2
      <3> QED BY <1>7, <3>1, WithIs, Zenon
    <2>3. bh[b].free
      BY <2>2 DEF Written
    <2> QED BY <2>1, <2>2, <2>3 DEF Written
  <1>9. End(bh, b) = End(h, c) /\ End(bh, b) = c + 24 + t
    <2>1. c = b + 24 + s
      BY <1>3, <1>4
    <2>2. b + 24 + size = c + 24 + t
      BY <1>6, <2>1
    <2> QED BY <1>5, <1>8, <2>2
  <1>10. \A i \in 1 .. n : i # n => /\ al[i] # b /\ i < n
                                    /\ bh[al[i]] = ah[al[i]] /\ End(bh, al[i]) = End(ah, al[i])
    <2>1. \A i \in 1 .. n : i # n => al[i] # b
      BY <1>1, <1>2, <1>3, Distinct
    <2> QED BY <1>1, <1>2, <1>8, <2>1
  <1>11. Sound(al, bh)
    <2>1. al \in Seq(Nat) /\ \A i \in 1 .. Len(al) : al[i] \in DOMAIN bh
      BY <1>1, <1>2, <1>8 DEF Sound
    <2>2. ASSUME NEW i \in 1 .. n, NEW j \in 1 .. n, i < j PROVE End(bh, al[i]) <= al[j]
      <3>1. i # n
        BY <2>2
      <3>2. End(ah, al[i]) <= al[j]
        BY <1>1, <1>2, <2>2 DEF Sound
      <3> QED BY <1>10, <3>1, <3>2
    <2>3. bh \in [DOMAIN bh -> Header]
      BY <1>8
    <2> QED BY <1>1, <2>1, <2>2, <2>3 DEF Sound
  <1>12. \A i \in 1 .. n : \E j \in 1 .. k + 1 : al[i] = l[j]
    <2>1. \A i \in 1 .. n : \E j \in 1 .. k : al[i] = l[j]
      BY <1>1 DEF Walked
    <2>2. \A j \in 1 .. k : j \in 1 .. k + 1
      OBVIOUS
    <2> QED BY <2>1, <2>2
  <1>13. ASSUME NEW j \in k + 2 .. Len(l) PROVE bh[l[j]] = h[l[j]]
    <2>1. j \in 1 .. Len(l) /\ j # p /\ p < j /\ j \in k + 1 .. Len(l)
      BY <1>1
    <2>2. c < l[j] /\ l[j] \in DOMAIN ah /\ l[j] \in Nat
      BY <1>1, <1>2, <2>1, Distinct, BlockIs
    <2>3. b < c
      <3>1. c = b + 24 + s
        BY <1>3, <1>4
      <3>2. \A y \in Nat, z \in Nat : y < y + 24 + z
        OBVIOUS
      <3> QED BY <1>3, <3>1, <3>2
    <2>4. l[j] # b
      BY <1>1, <1>3, <2>2, <2>3
    <2>5. ah[l[j]] = h[l[j]]
      BY <2>1 DEF Walked
    <2> QED BY <1>8, <2>2, <2>4, <2>5
  <1>14. ASSUME NEW x \in Nat
         PROVE  Covered(al, bh, n, x) <=> Covered(l, h, k + 1, x)
    <2>1. PICK q \in Nat : n = q + 1
      BY <1>1
    <2>2. Covered(al, bh, n, x) <=> Covered(al, bh, q, x) \/ (b <= x /\ x < End(bh, b))
      BY <1>3, <2>1, CoveredMore
    <2>3. Covered(al, ah, n, x) <=> Covered(al, ah, q, x) \/ (b <= x /\ x < End(ah, b))
      BY <1>3, <2>1, CoveredMore
    <2>4. Covered(al, bh, q, x) <=> Covered(al, ah, q, x)
      <3>1. \A i \in 1 .. q : i \in 1 .. n /\ i # n
        BY <2>1
      <3> QED BY <1>10, <3>1 DEF Covered
    <2>5. Covered(al, ah, n, x) <=> Covered(l, h, k, x)
      BY <1>1 DEF Walked
    <2>6. Covered(l, h, k + 1, x) <=> Covered(l, h, k, x) \/ (c <= x /\ x < End(h, c))
      BY <1>1, CoveredMore
    <2>7. (b <= x /\ x < End(bh, b)) <=> (b <= x /\ x < End(ah, b)) \/ (c <= x /\ x < End(h, c))
      <3>1. c = b + 24 + s
        BY <1>3, <1>4
      <3>2. (b <= x /\ x < c + 24 + t) <=> (b <= x /\ x < c) \/ (c <= x /\ x < c + 24 + t)
        BY <3>1
      <3> QED BY <1>4, <1>5, <1>9, <3>2
    <2> QED BY <2>2, <2>3, <2>4, <2>5, <2>6, <2>7
  <1>15. ASSUME NEW i \in 1 .. n, ~bh[al[i]].free PROVE bh[al[i]] = h[al[i]]
    <2>1. i # n
      BY <1>3, <1>8, <1>15
    <2>2. bh[al[i]] = ah[al[i]]
      BY <1>10, <2>1
    <2>3. ~ah[al[i]].free => ah[al[i]] = h[al[i]]
      BY <1>1 DEF Walked
    <2> QED BY <1>15, <2>2, <2>3
  <1>16. ASSUME NEW j \in 1 .. k + 1, ~h[l[j]].free
         PROVE  \E i \in 1 .. n : al[i] = l[j] /\ bh[l[j]] = h[l[j]]
    <2>1. j # p
      BY <1>1, <1>4, <1>16
    <2>2. j \in 1 .. k
      BY <1>1, <2>1
    <2>3. PICK i \in 1 .. n : al[i] = l[j] /\ ah[l[j]] = h[l[j]]
      BY <1>1, <1>16, <2>2 DEF Walked
    <2>4. i # n
      BY <1>3, <1>4, <1>16, <2>3
    <2> QED BY <1>10, <2>3, <2>4
  <1>17. ASSUME NEW j \in 1 .. k + 1
         PROVE  \/ \E i \in 1 .. n : al[i] = l[j]
                \/ \E i \in 1 .. j - 1 : End(h, l[i]) = l[j]
    <2>1. CASE j = k + 1
      <3>1. k \in 1 .. j - 1 /\ End(h, l[k]) = l[j]
        BY <1>1, <1>2, <1>4, <2>1
      <3> QED BY <3>1
    <2>2. CASE j \in 1 .. k
      BY <1>1, <2>2 DEF Walked
    <2> QED BY <2>1, <2>2
  <1>18. /\ k + 1 > 0 /\ k + 1 # 0 /\ (k + 1) + 1 = k + 2
    OBVIOUS
  <1>19. Walked(l, h, k + 1, al, bh)
    <2>1. End(bh, al[n]) = End(h, l[k + 1])
      BY <1>1, <1>3, <1>9
    <2>2. DOMAIN bh = DOMAIN h
      BY <1>2, <1>8
    <2> QED BY <1>1, <1>11, <1>12, <1>13, <1>14, <1>15, <1>16, <1>17, <1>18, <2>1, <2>2 DEF Walked
  <1> QED BY <1>1, <1>3, <1>6, <1>7, <1>19

\* A step of the walk.
LEMMA WalkStep ==
    ASSUME NEW l, NEW h, Sound(l, h), Snug(l, h), NEW k \in Nat, k < Len(l),
           NEW acc, acc = Mem(acc.list, acc.hdr), Walked(l, h, k, acc.list, acc.hdr),
           NEW next, next = merge_next(acc, l[k + 1])
    PROVE  next = Mem(next.list, next.hdr) /\ Walked(l, h, k + 1, next.list, next.hdr)
  <1>1. CASE acc.list # <<>> /\ Mergeable(acc.hdr, Last(acc.list), l[k + 1])
    <2>1. next = Mem(acc.list, With(acc.hdr, Last(acc.list),
                                    Merged(acc.hdr, Last(acc.list), l[k + 1]), TRUE))
      BY <1>1 DEF merge_next
    <2>2. Last(acc.list) = acc.list[Len(acc.list)]
      BY DEF Last
    <2>3. Walked(l, h, k + 1, acc.list, With(acc.hdr, Last(acc.list),
                                             Merged(acc.hdr, Last(acc.list), l[k + 1]), TRUE))
      BY <1>1, <2>2, WalkMerge
    <2>4. PICK nh : nh = With(acc.hdr, Last(acc.list), Merged(acc.hdr, Last(acc.list), l[k + 1]), TRUE)
      OBVIOUS
    <2>5. next = Mem(acc.list, nh) /\ Walked(l, h, k + 1, acc.list, nh)
      BY <2>1, <2>3, <2>4
    <2> QED BY <2>5 DEF Mem
  <1>2. CASE ~(acc.list # <<>> /\ Mergeable(acc.hdr, Last(acc.list), l[k + 1]))
    <2>1. next = Mem(Append(acc.list, l[k + 1]), acc.hdr)
      BY <1>2 DEF merge_next
    <2> QED BY <2>1, WalkOn DEF Mem
  <1> QED BY <1>1, <1>2

\* The walk, step by step.
LEMMA WalkedOn ==
    ASSUME NEW l, NEW h, NEW n \in Nat, NEW f, Walks(f, l, Mem(<<>>, h), n)
    PROVE  f[0] = Mem(<<>>, h) /\ \A k \in 0 .. n : k < n => f[k + 1] = merge_next(f[k], l[k + 1])
  <1>1. f = [k \in 0 .. n |-> IF k = 0 THEN Mem(<<>>, h) ELSE merge_next(f[k - 1], l[k])]
    BY DEF Walks
  <1>2. f[0] = Mem(<<>>, h)
    BY <1>1
  <1>3. ASSUME NEW k \in 0 .. n, k < n PROVE f[k + 1] = merge_next(f[k], l[k + 1])
    <2>1. PICK j \in 0 .. n : j = k + 1 /\ j # 0 /\ j - 1 = k
      BY <1>3
    <2>2. f[j] = merge_next(f[j - 1], l[j])
      BY <1>1, <2>1
    <2> QED BY <2>1, <2>2
  <1> QED BY <1>2, <1>3

\* What heap_coalesce leaves of a list.
LEMMA Coalesced ==
    ASSUME NEW m, m = Mem(m.list, m.hdr), Sound(m.list, m.hdr), Snug(m.list, m.hdr)
    PROVE  /\ Walked(m.list, m.hdr, Len(m.list), heap_coalesce(m).list, heap_coalesce(m).hdr)
           /\ heap_coalesce(m) = Mem(heap_coalesce(m).list, heap_coalesce(m).hdr)
  <1>1. PICK l, h, n : l = m.list /\ h = m.hdr /\ n = Len(l) /\ n \in Nat
    BY DEF Sound
  <1>2. PICK f : Walks(f, l, Mem(<<>>, h), n) /\ heap_coalesce(m) = f[n]
    BY <1>1, CoalesceIs
  <1>3. f[0] = Mem(<<>>, h) /\ \A k \in 0 .. n : k < n => f[k + 1] = merge_next(f[k], l[k + 1])
    BY <1>1, <1>2, WalkedOn
  <1> DEFINE Good(k) == f[k] = Mem(f[k].list, f[k].hdr) /\ Walked(l, h, k, f[k].list, f[k].hdr)
             S == {k \in Nat : k <= n => Good(k)}
  <1>4. 0 \in S
    <2>1. Sound(<<>>, h) /\ Len(<<>>) = 0
      BY <1>1, EmptySeq DEF Sound
    <2>2. Walked(l, h, 0, <<>>, h)
      BY <2>1 DEF Walked, Covered
    <2> QED BY <1>3, <2>2 DEF Mem
  <1>5. ASSUME NEW k \in Nat, k \in S PROVE k + 1 \in S
    <2> SUFFICES ASSUME k + 1 <= n PROVE Good(k + 1)
      OBVIOUS
    <2>1. k < n /\ k \in 0 .. n
      BY <1>1
    <2>2. Good(k)
      BY <1>5, <2>1
    <2>3. f[k + 1] = merge_next(f[k], l[k + 1])
      BY <1>3, <2>1
    <2> QED BY <1>1, <2>1, <2>2, <2>3, WalkStep
  <1> HIDE DEF S
  <1>6. n \in S
    BY <1>1, <1>4, <1>5, Reaches
  <1>7. Good(n)
    <2>1. n <= n
      BY <1>1
    <2> QED BY <1>6, <2>1 DEF S
  <1> QED BY <1>1, <1>2, <1>7
-----------------------------------------------------------------------------
(* Frames.                                                                 *)

\* Address x lies in one of the frames fs.
Owned(fs, x) == \E f \in fs : f * PageSize <= x /\ x < (f + 1) * PageSize

\* The blocks of the list fill the frames fs exactly.
Tiles(l, h, fs) ==
    /\ Sound(l, h)
    /\ \A x \in Nat : Covered(l, h, Len(l), x) <=> Owned(fs, x)

LEMMA PageIs ==
    ASSUME NEW a \in Nat
    PROVE  a * PageSize \in Nat /\ (a + 1) * PageSize = a * PageSize + PageSize
  <1>1. PageSize \in Nat
    BY SpaceIs
  <1> QED BY <1>1

LEMMA PagesUp ==
    ASSUME NEW a \in Nat, NEW b \in Nat, a < b
    PROVE  a * PageSize + PageSize <= b * PageSize
  <1>1. PageSize \in Nat
    BY SpaceIs
  <1>2. PICK d \in Nat : b = a + 1 + d
    BY SMT
  <1>3. b * PageSize = a * PageSize + PageSize + d * PageSize
    BY <1>1, <1>2
  <1>4. d * PageSize \in Nat /\ a * PageSize \in Nat
    BY <1>1
  <1> QED BY <1>1, <1>3, <1>4

\* An address lies in one frame only.
LEMMA OneFrame ==
    ASSUME NEW a \in Nat, NEW b \in Nat, NEW x \in Nat,
           a * PageSize <= x, x < (a + 1) * PageSize,
           b * PageSize <= x, x < (b + 1) * PageSize
    PROVE  a = b
  <1>1. /\ a * PageSize \in Nat /\ (a + 1) * PageSize = a * PageSize + PageSize
        /\ b * PageSize \in Nat /\ (b + 1) * PageSize = b * PageSize + PageSize
        /\ PageSize \in Nat
    BY PageIs, SpaceIs
  <1>2. ~(a < b)
    <2> SUFFICES ASSUME a < b PROVE FALSE
      OBVIOUS
    <2>1. a * PageSize + PageSize <= b * PageSize
      BY PagesUp
    <2> QED BY <1>1, <2>1
  <1>3. ~(b < a)
    <2> SUFFICES ASSUME b < a PROVE FALSE
      OBVIOUS
    <2>1. b * PageSize + PageSize <= a * PageSize
      BY PagesUp
    <2> QED BY <1>1, <2>1
  <1> QED BY <1>2, <1>3

\* No frame of the pool reaches beyond the last address.
LEMMA FrameEnds ==
    ASSUME NEW f \in 1 .. FrameLimit - 1
    PROVE  /\ f \in Nat /\ f * PageSize \in Nat /\ (f + 1) * PageSize = f * PageSize + PageSize
           /\ PageSize <= f * PageSize /\ f * PageSize + PageSize <= Word
  <1>1. f \in Nat /\ 0 < f /\ f < FrameLimit /\ FrameLimit \in Nat
    BY SpaceIs
  <1>2. f * PageSize + PageSize <= FrameLimit * PageSize
    BY <1>1, PagesUp
  <1>3. 0 * PageSize + PageSize <= f * PageSize
    BY <1>1, PagesUp
  <1>4. 0 * PageSize = 0 /\ PageSize \in Nat /\ Word \in Nat /\ FrameLimit * PageSize <= Word
    BY SpaceIs
  <1>5. f * PageSize \in Nat /\ (f + 1) * PageSize = f * PageSize + PageSize /\ FrameLimit * PageSize \in Nat
    BY <1>1, PageIs
  <1> QED BY <1>1, <1>2, <1>3, <1>4, <1>5

\* The first and the last byte of a block belong to frames.
LEMMA BlockOwned ==
    ASSUME NEW l, NEW h, NEW fs, Tiles(l, h, fs), NEW i \in 1 .. Len(l)
    PROVE  /\ l[i] \in Nat /\ End(h, l[i]) \in Nat /\ l[i] + 24 <= End(h, l[i])
           /\ End(h, l[i]) - 1 \in Nat
           /\ Owned(fs, l[i]) /\ Owned(fs, End(h, l[i]) - 1)
           /\ \A x \in Nat : l[i] <= x /\ x < End(h, l[i]) => Owned(fs, x)
  <1>1. Sound(l, h)
    BY DEF Tiles
  <1>2. PICK b \in Nat, s \in Nat, e \in Nat :
          b = l[i] /\ e = End(h, l[i]) /\ s = h[l[i]].size /\ e = b + 24 + s
    BY <1>1, BlockIs
  <1>3. \A x \in Nat : b <= x /\ x < e => Covered(l, h, Len(l), x)
    BY <1>2 DEF Covered
  <1>4. \A x \in Nat : b <= x /\ x < e => Owned(fs, x)
    BY <1>3 DEF Tiles
  <1>5. b <= b /\ b < e /\ e - 1 \in Nat /\ b <= e - 1 /\ e - 1 < e /\ b + 24 <= e
    <2>1. \A y \in Nat, z \in Nat : /\ y <= y /\ y < y + 24 + z /\ y + 24 + z - 1 \in Nat
                                  /\ y <= y + 24 + z - 1 /\ y + 24 + z - 1 < y + 24 + z
                                  /\ y + 24 <= y + 24 + z
      OBVIOUS
    <2>2. e = b + 24 + s
      BY <1>2
    <2> QED BY <2>1, <2>2
  <1> QED BY <1>2, <1>4, <1>5

\* An owned byte lies in a block, and where that block is in the list.
LEMMA OwnedBlock ==
    ASSUME NEW l, NEW h, NEW fs, Tiles(l, h, fs), NEW x \in Nat, Owned(fs, x)
    PROVE  \E i \in 1 .. Len(l) : l[i] <= x /\ x < End(h, l[i])
  BY DEF Tiles, Covered

\* What lies between two blocks begins and ends where frames do.
LEMMA GapIsFrames ==
    ASSUME NEW l, NEW h, NEW fs, fs \subseteq 1 .. FrameLimit - 1, Tiles(l, h, fs),
           NEW i \in 1 .. Len(l), NEW j \in 1 .. Len(l), i < j, l[j] <= End(h, l[i]) + 15
    PROVE  End(h, l[i]) = l[j]
  <1>1. PICK b \in Nat, e \in Nat, c \in Nat, g \in Nat :
          b = l[i] /\ e = End(h, l[i]) /\ c = l[j] /\ g = End(h, l[j])
          /\ b + 24 <= e /\ c + 24 <= g
    BY BlockOwned
  <1>2. e <= c /\ c <= e + 15
    BY <1>1 DEF Tiles, Sound
  <1> SUFFICES ASSUME e < c PROVE FALSE
    BY <1>1, <1>2
  <1>3. ASSUME NEW u \in Nat, NEW w \in Nat, w <= b \/ g <= u
        PROVE  ~(u <= e /\ e < w) /\ ~(u <= c - 1 /\ c - 1 < w)
    <2>1. b + 24 <= e /\ c + 24 <= g
      BY <1>1
    <2>2. CASE w <= b
      BY <2>1, <2>2
    <2>3. CASE g <= u
      BY <2>1, <2>3
    <2> QED BY <1>3, <2>2, <2>3
  \* No block lies between the two.
  <1>4. \A k \in 1 .. Len(l) : /\ l[k] \in Nat /\ End(h, l[k]) \in Nat /\ l[k] + 24 <= End(h, l[k])
                               /\ k = i \/ End(h, l[k]) <= b \/ k = j \/ g <= l[k]
    <2> TAKE k \in 1 .. Len(l)
    <2>1. l[k] \in Nat /\ End(h, l[k]) \in Nat /\ l[k] + 24 <= End(h, l[k])
      BY BlockOwned
    <2>2. k < i => End(h, l[k]) <= b
      BY <1>1 DEF Tiles, Sound
    <2>3. j < k => g <= l[k]
      BY <1>1 DEF Tiles, Sound
    <2>4. i < k /\ k < j => e <= l[k] /\ End(h, l[k]) <= c
      BY <1>1 DEF Tiles, Sound
    <2>5. ~(i < k /\ k < j)
      BY <1>2, <2>1, <2>4
    <2> QED BY <2>1, <2>2, <2>3, <2>5
  <1>5. PICK f \in fs : f * PageSize <= e - 1 /\ e - 1 < (f + 1) * PageSize
    <2>1. Owned(fs, e - 1)
      BY <1>1, BlockOwned
    <2> QED BY <2>1 DEF Owned
  <1>6. PICK t \in fs : t * PageSize <= c /\ c < (t + 1) * PageSize
    <2>1. Owned(fs, c)
      BY <1>1, BlockOwned
    <2> QED BY <2>1 DEF Owned
  <1>7. /\ f \in Nat /\ f * PageSize \in Nat /\ (f + 1) * PageSize = f * PageSize + PageSize
        /\ t \in Nat /\ t * PageSize \in Nat /\ PageSize \in Nat /\ PageSize >= 64
    BY FrameEnds, SpaceIs
  <1>8. e = (f + 1) * PageSize
    <2>0. e <= (f + 1) * PageSize
      <3>1. PICK y \in Nat : y = (f + 1) * PageSize
        BY <1>7
      <3>2. e - 1 < y
        BY <1>5, <3>1
      <3>3. e <= y
        BY <3>2
      <3> QED BY <3>1, <3>3
    <2> SUFFICES ASSUME e < (f + 1) * PageSize PROVE FALSE
      <3>1. (f + 1) * PageSize \in Nat
        BY <1>7
      <3> QED BY <2>0, <3>1
    <2>1. f * PageSize <= e
      BY <1>1, <1>5, <1>7
    <2>2. Owned(fs, e)
      BY <2>1 DEF Owned
    <2>3. PICK k \in 1 .. Len(l) : l[k] <= e /\ e < End(h, l[k])
      BY <2>2, OwnedBlock
    <2>4. k # i /\ k # j
      <3>1. k = i => e < e
        BY <1>1, <2>3
      <3>2. k = j => c <= e
        BY <1>1, <2>3
      <3>3. ~(e < e) /\ ~(c <= e)
        OBVIOUS
      <3> QED BY <3>1, <3>2, <3>3
    <2>5. End(h, l[k]) <= b \/ g <= l[k]
      BY <1>4, <2>4
    <2>6. PICK u \in Nat, w \in Nat : u = l[k] /\ w = End(h, l[k]) /\ u + 24 <= w
      BY <1>4
    <2>7. u <= e /\ e < w /\ (w <= b \/ g <= u)
      BY <2>3, <2>5, <2>6
    <2> QED BY <1>3, <2>7
  <1>9. c = t * PageSize
    <2>0. PICK lo \in Nat : lo = t * PageSize /\ lo <= c /\ c < (t + 1) * PageSize
      BY <1>6, <1>7
    <2> SUFFICES ASSUME lo < c PROVE FALSE
      <3>1. ~(lo < c) => lo = c
        BY <1>1, <2>0
      <3> QED BY <2>0, <3>1
    <2>1. c - 1 \in Nat /\ t * PageSize <= c - 1 /\ c - 1 < (t + 1) * PageSize
      <3>1. PICK hi \in Nat : hi = (t + 1) * PageSize
        <4>1. t + 1 \in Nat
          BY <1>7
        <4> QED BY <4>1, PageIs
      <3>2. PICK y \in Nat : y = c - 1 /\ c = y + 1
        <4>1. c \in Nat /\ c # 0
          BY <1>1, <2>0
        <4> QED BY <4>1
      <3>3. lo <= y /\ (y + 1 < hi => y < hi)
        BY <3>1, <3>2
      <3> QED BY <2>0, <3>1, <3>2, <3>3
    <2>2. Owned(fs, c - 1)
      BY <2>1 DEF Owned
    <2>3. PICK k \in 1 .. Len(l) : l[k] <= c - 1 /\ c - 1 < End(h, l[k])
      BY <2>1, <2>2, OwnedBlock
    <2>4. k # j
      BY <1>1, <2>3
    <2>5. k = i \/ End(h, l[k]) <= b \/ g <= l[k]
      BY <1>4, <2>4
    <2>6. k # i
      BY <1>1, <2>3
    <2>7. PICK u \in Nat, w \in Nat : u = l[k] /\ w = End(h, l[k]) /\ u + 24 <= w
      BY <1>4
    <2>8. u <= c - 1 /\ c - 1 < w /\ (w <= b \/ g <= u)
      BY <2>3, <2>5, <2>6, <2>7
    <2> QED BY <1>3, <2>8
  <1>10. f * PageSize + PageSize < t * PageSize /\ t * PageSize <= f * PageSize + PageSize + 15
    BY <1>2, <1>7, <1>8, <1>9
  <1>11. f + 1 < t
    <2> SUFFICES ASSUME t <= f + 1 PROVE FALSE
      BY <1>7
    <2>1. CASE t = f + 1
      BY <1>7, <1>10, <2>1
    <2>2. CASE t < f + 1
      <3>1. t * PageSize + PageSize <= (f + 1) * PageSize
        BY <1>7, <2>2, PagesUp
      <3> QED BY <1>7, <1>10, <3>1
    <2> QED BY <1>7, <2>1, <2>2
  <1>12. (f + 1) * PageSize + PageSize <= t * PageSize
    BY <1>7, <1>11, PagesUp
  <1> QED BY <1>7, <1>10, <1>12

\* A tiling has no small gaps, so that the rounding of heap_coalesce bridges
\* none.
LEMMA TilesSnug ==
    ASSUME NEW l, NEW h, NEW fs, fs \subseteq 1 .. FrameLimit - 1, Tiles(l, h, fs)
    PROVE  Snug(l, h)
  <1>1. ASSUME NEW i \in 1 .. Len(l) PROVE End(h, l[i]) <= Word
    <2>1. End(h, l[i]) \in Nat /\ End(h, l[i]) - 1 \in Nat /\ Owned(fs, End(h, l[i]) - 1)
      BY BlockOwned
    <2>2. PICK f \in fs : End(h, l[i]) - 1 < (f + 1) * PageSize
      BY <2>1 DEF Owned
    <2>3. (f + 1) * PageSize = f * PageSize + PageSize /\ f * PageSize + PageSize <= Word
      BY FrameEnds
    <2>4. f * PageSize + PageSize \in Nat /\ Word \in Nat
      BY FrameEnds, SpaceIs
    <2> QED BY <2>1, <2>2, <2>3, <2>4
  <1>2. \A i, j \in 1 .. Len(l) : i < j /\ l[j] <= End(h, l[i]) + 15 => End(h, l[i]) = l[j]
    BY GapIsFrames
  <1> QED BY <1>1, <1>2 DEF Snug
-----------------------------------------------------------------------------
(* A block more in the list.                                               *)

\* List k is list l with e put in at place p.
Inserted(k, l, p, e) ==
    /\ k \in Seq(Nat) /\ l \in Seq(Nat) /\ Len(l) \in Nat /\ p \in 1 .. Len(l) + 1
    /\ Len(k) = Len(l) + 1 /\ k[p] = e
    /\ \A j \in 1 .. Len(l) : j < p => k[j] = l[j]
    /\ \A j \in 1 .. Len(l) : p <= j => k[j + 1] = l[j]

LEMMA InsertIs ==
    ASSUME NEW l \in Seq(Nat), NEW p \in 1 .. Len(l) + 1, NEW e \in Nat
    PROVE  Inserted(InsertAt(l, p, e), l, p, e)
  <1>1. PICK n \in Nat : n = Len(l)
    BY LenProperties
  <1>2. p \in Nat /\ 1 <= p /\ p <= n + 1 /\ \A i \in 1 .. n : l[i] \in Nat
    BY <1>1, ElementOfSeq
  <1>3. PICK a : /\ a = SubSeq(l, 1, p - 1) /\ a \in Seq(Nat) /\ Len(a) = p - 1
                 /\ \A i \in 1 .. p - 1 : a[i] = l[i]
    <2> DEFINE a == SubSeq(l, 1, p - 1)
    <2>1. \A i \in 1 .. p - 1 : l[i] \in Nat
      BY <1>2
    <2>2. /\ a \in Seq(Nat) /\ Len(a) = IF 1 <= p - 1 THEN p - 1 - 1 + 1 ELSE 0
          /\ \A i \in 1 .. p - 1 - 1 + 1 : a[i] = l[1 + i - 1]
      BY <1>2, <2>1, SubSeqProperties
    <2> HIDE DEF a
    <2>3. Len(a) = p - 1
      BY <1>2, <2>2
    <2>4. \A i \in 1 .. p - 1 : a[i] = l[i]
      BY <1>2, <2>2
    <2> QED BY <2>2, <2>3, <2>4 DEF a
  <1>4. PICK c : /\ c = SubSeq(l, p, n) /\ c \in Seq(Nat) /\ Len(c) = n - p + 1
                 /\ \A i \in 1 .. n - p + 1 : c[i] = l[p + i - 1]
    <2> DEFINE c == SubSeq(l, p, n)
    <2>1. \A i \in p .. n : l[i] \in Nat
      BY <1>2
    <2>2. /\ c \in Seq(Nat) /\ Len(c) = IF p <= n THEN n - p + 1 ELSE 0
          /\ \A i \in 1 .. n - p + 1 : c[i] = l[p + i - 1]
      BY <1>2, <2>1, SubSeqProperties
    <2> HIDE DEF c
    <2>3. Len(c) = n - p + 1
      BY <1>2, <2>2
    <2> QED BY <2>2, <2>3 DEF c
  <1>5. PICK d : /\ d = a \o <<e>> /\ d \in Seq(Nat) /\ Len(d) = p /\ d[p] = e
                 /\ \A i \in 1 .. p - 1 : d[i] = l[i]
    <2> DEFINE d == a \o <<e>>
    <2>1. <<e>> \in Seq(Nat) /\ Len(<<e>>) = 1 /\ <<e>>[1] = e
      OBVIOUS
    <2>2. /\ d \in Seq(Nat) /\ Len(d) = Len(a) + 1
          /\ \A i \in 1 .. Len(a) + 1 : d[i] = IF i <= Len(a) THEN a[i] ELSE <<e>>[i - Len(a)]
      BY <1>3, <2>1, ConcatProperties
    <2> HIDE DEF d
    <2>3. Len(d) = p
      BY <1>2, <1>3, <2>2
    <2>4. d[p] = e
      <3>1. p \in 1 .. Len(a) + 1 /\ ~(p <= Len(a)) /\ p - Len(a) = 1
        BY <1>2, <1>3
      <3>2. d[p] = <<e>>[p - Len(a)]
        BY <2>2, <3>1
      <3> QED BY <2>1, <3>1, <3>2
    <2>5. \A i \in 1 .. p - 1 : d[i] = l[i]
      <3>1. \A i \in 1 .. p - 1 : i \in 1 .. Len(a) + 1 /\ i <= Len(a)
        BY <1>2, <1>3
      <3> QED BY <1>3, <2>2, <3>1
    <2> QED BY <2>2, <2>3, <2>4, <2>5 DEF d
  <1>6. PICK k : k = d \o c
    OBVIOUS
  <1>7. /\ k \in Seq(Nat) /\ Len(k) = n + 1
        /\ \A i \in 1 .. n + 1 : k[i] = IF i <= p THEN d[i] ELSE c[i - p]
    <2>1. d \in Seq(Nat) /\ c \in Seq(Nat)
      BY <1>4, <1>5
    <2>2. /\ k \in Seq(Nat) /\ Len(k) = Len(d) + Len(c)
          /\ \A i \in 1 .. Len(d) + Len(c) : k[i] = IF i <= Len(d) THEN d[i] ELSE c[i - Len(d)]
      <3>1. /\ d \o c \in Seq(Nat) /\ Len(d \o c) = Len(d) + Len(c)
            /\ \A i \in 1 .. Len(d) + Len(c) :
                 (d \o c)[i] = IF i <= Len(d) THEN d[i] ELSE c[i - Len(d)]
        BY <2>1, ConcatProperties, Zenon
      <3> QED BY <1>6, <3>1, Zenon
    <2>3. Len(d) = p
      BY <1>5
    <2>4. PICK r \in Nat : r = Len(c) /\ p + r = n + 1
      <3>1. n - p + 1 \in Nat /\ p + (n - p + 1) = n + 1
        BY <1>2
      <3> QED BY <1>4, <3>1
    <2> QED BY <2>2, <2>3, <2>4
  <1>8. k[p] = e
    <2>1. p \in 1 .. n + 1 /\ p <= p
      BY <1>2
    <2> QED BY <1>5, <1>7, <2>1
  <1>9. ASSUME NEW j \in 1 .. n, j < p PROVE k[j] = l[j]
    <2>1. j \in 1 .. n + 1 /\ j <= p /\ j \in 1 .. p - 1
      BY <1>2, <1>9
    <2> QED BY <1>5, <1>7, <2>1
  <1>10. ASSUME NEW j \in 1 .. n, p <= j PROVE k[j + 1] = l[j]
    <2>1. /\ j + 1 \in 1 .. n + 1 /\ ~(j + 1 <= p) /\ j + 1 - p \in 1 .. n - p + 1
          /\ p + (j + 1 - p) - 1 = j
      BY <1>2, <1>10
    <2>2. k[j + 1] = c[j + 1 - p]
      BY <1>7, <2>1
    <2>3. c[j + 1 - p] = l[p + (j + 1 - p) - 1]
      BY <1>4, <2>1
    <2> QED BY <2>1, <2>2, <2>3
  <1>11. k = InsertAt(l, p, e)
    BY <1>1, <1>3, <1>4, <1>5, <1>6 DEF InsertAt
  <1>12. Inserted(k, l, p, e)
    BY <1>1, <1>2, <1>7, <1>8, <1>9, <1>10 DEF Inserted
  <1> QED BY <1>11, <1>12

LEMMA AppendInserts ==
    ASSUME NEW l \in Seq(Nat), NEW e \in Nat
    PROVE  Inserted(Append(l, e), l, Len(l) + 1, e)
  <1>1. PICK n \in Nat : n = Len(l)
    BY LenProperties
  <1>2. PICK k : k = Append(l, e)
    OBVIOUS
  <1>3. /\ k \in Seq(Nat) /\ Len(k) = n + 1 /\ k[n + 1] = e /\ \A i \in 1 .. n : k[i] = l[i]
    BY <1>1, <1>2, AppendProperties
  <1>4. n + 1 \in 1 .. n + 1 /\ \A j \in 1 .. n : ~(n + 1 <= j)
    BY <1>1
  <1> QED BY <1>1, <1>2, <1>3, <1>4 DEF Inserted

\* The places of the list after a block has been put in.
LEMMA InsertedPlaces ==
    ASSUME NEW k, NEW l, NEW p, NEW e, Inserted(k, l, p, e), NEW i \in 1 .. Len(k)
    PROVE  \/ i = p /\ k[i] = e
           \/ i < p /\ i \in 1 .. Len(l) /\ k[i] = l[i]
           \/ p < i /\ i - 1 \in 1 .. Len(l) /\ p <= i - 1 /\ k[i] = l[i - 1]
  <1>1. PICK n \in Nat : n = Len(l) /\ Len(k) = n + 1 /\ p \in 1 .. n + 1 /\ k[p] = e
    BY DEF Inserted
  <1>2. i \in Nat /\ p \in Nat /\ 1 <= i /\ i <= n + 1 /\ 1 <= p /\ p <= n + 1
    BY <1>1
  <1>3. CASE i = p
    BY <1>1, <1>3
  <1>4. CASE i < p
    <2>1. i \in 1 .. n
      BY <1>2, <1>4
    <2> QED BY <1>1, <1>4, <2>1 DEF Inserted
  <1>5. CASE p < i
    <2>1. i - 1 \in 1 .. n /\ p <= i - 1 /\ (i - 1) + 1 = i
      BY <1>2, <1>5
    <2>2. k[(i - 1) + 1] = l[i - 1]
      BY <1>1, <2>1 DEF Inserted
    <2> QED BY <1>1, <1>5, <2>1, <2>2
  <1> QED BY <1>2, <1>3, <1>4, <1>5

\* Every block of the old list is one of the new.
LEMMA InsertedKeeps ==
    ASSUME NEW k, NEW l, NEW p, NEW e, Inserted(k, l, p, e)
    PROVE  /\ p \in 1 .. Len(k) /\ k[p] = e
           /\ \A i \in 1 .. Len(l) : \E j \in 1 .. Len(k) : k[j] = l[i] /\ j # p
  <1>1. PICK n \in Nat : n = Len(l) /\ Len(k) = n + 1 /\ p \in 1 .. n + 1 /\ k[p] = e
    BY DEF Inserted
  <1>2. ASSUME NEW i \in 1 .. n PROVE \E j \in 1 .. n + 1 : k[j] = l[i] /\ j # p
    <2>1. CASE i < p
      <3>1. k[i] = l[i] /\ i \in 1 .. n + 1
        BY <1>1, <2>1 DEF Inserted
      <3> QED BY <2>1, <3>1
    <2>2. CASE p <= i
      <3>1. k[i + 1] = l[i]
        BY <1>1, <2>2 DEF Inserted
      <3>2. i + 1 \in 1 .. n + 1 /\ i + 1 # p
        BY <1>1, <2>2
      <3> QED BY <3>1, <3>2
    <2> QED BY <1>1, <2>1, <2>2
  <1> QED BY <1>1, <1>2

\* So every old element is still there.
LEMMA InsertedHas ==
    ASSUME NEW k, NEW l, NEW p, NEW e, Inserted(k, l, p, e)
    PROVE  \A i \in 1 .. Len(l) : \E j \in 1 .. Len(k) : k[j] = l[i]
  BY InsertedKeeps

\* Blocks that do not grow stay clear of each other.
LEMMA SoundLess ==
    ASSUME NEW l, NEW h, Sound(l, h), NEW g, g \in [DOMAIN g -> Header],
           \A i \in 1 .. Len(l) : l[i] \in DOMAIN g /\ End(g, l[i]) <= End(h, l[i])
    PROVE  Sound(l, g)
  <1>1. ASSUME NEW i \in 1 .. Len(l), NEW j \in 1 .. Len(l), i < j PROVE End(g, l[i]) <= l[j]
    <2>1. End(g, l[i]) <= End(h, l[i]) /\ End(h, l[i]) <= l[j]
      BY <1>1 DEF Sound
    <2>2. End(h, l[i]) \in Nat /\ l[j] \in Nat /\ l[i] \in Nat
      BY BlockIs
    <2>3. g[l[i]].size \in Nat
      BY DEF Header
    <2>4. End(g, l[i]) \in Nat
      BY <2>2, <2>3 DEF End, HeaderSize
    <2> QED BY <2>1, <2>2, <2>4
  <1> QED BY <1>1 DEF Sound

\* Only the marks differ: the blocks cover the same bytes.
LEMMA SameEnds ==
    ASSUME NEW l, NEW h, NEW fs, Tiles(l, h, fs), NEW g, g \in [DOMAIN g -> Header],
           \A i \in 1 .. Len(l) : l[i] \in DOMAIN g /\ End(g, l[i]) = End(h, l[i])
    PROVE  Tiles(l, g, fs)
  <1>1. Sound(l, h)
    BY DEF Tiles
  <1>2. \A i \in 1 .. Len(l) : End(g, l[i]) <= End(h, l[i])
    <2>1. \A i \in 1 .. Len(l) : End(h, l[i]) \in Nat
      BY <1>1, BlockIs
    <2> QED BY <2>1
  <1>3. Sound(l, g)
    BY <1>1, <1>2, SoundLess
  <1>4. \A x \in Nat : Covered(l, g, Len(l), x) <=> Covered(l, h, Len(l), x)
    BY DEF Covered
  <1> QED BY <1>3, <1>4 DEF Tiles

\* A block put between those below and those above it.
LEMMA InsertSound ==
    ASSUME NEW k, NEW l, NEW p, NEW e \in Nat, Inserted(k, l, p, e),
           NEW g, Sound(l, g), e \in DOMAIN g,
           \A i \in 1 .. Len(l) : i < p => End(g, l[i]) <= e,
           \A i \in 1 .. Len(l) : p <= i => End(g, e) <= l[i]
    PROVE  /\ Sound(k, g)
           /\ \A x \in Nat : Covered(k, g, Len(k), x)
                               <=> Covered(l, g, Len(l), x) \/ (e <= x /\ x < End(g, e))
  <1>1. \A u, v \in 1 .. Len(l) : u < v => End(g, l[u]) <= l[v]
    BY DEF Sound
  <1>2. k \in Seq(Nat) /\ p \in Nat /\ Len(k) \in Nat
    BY DEF Inserted
  <1>3. ASSUME NEW i \in 1 .. Len(k), NEW j \in 1 .. Len(k), i < j PROVE End(g, k[i]) <= k[j]
    <2>1. CASE i = p
      <3>1. p < j
        BY <1>3, <2>1
      <3>2. k[i] = e /\ j - 1 \in 1 .. Len(l) /\ p <= j - 1 /\ k[j] = l[j - 1]
        BY <1>2, <2>1, <3>1, InsertedPlaces
      <3> QED BY <3>2
    <2>2. CASE i < p
      <3>1. i \in 1 .. Len(l) /\ k[i] = l[i]
        BY <1>2, <2>2, InsertedPlaces
      <3>2. CASE j = p
        <4>1. k[j] = e
          BY <1>2, <3>2, InsertedPlaces
        <4> QED BY <2>2, <3>1, <4>1
      <3>3. CASE j < p
        <4>1. j \in 1 .. Len(l) /\ k[j] = l[j]
          BY <1>2, <3>3, InsertedPlaces
        <4> QED BY <1>1, <1>3, <3>1, <4>1
      <3>4. CASE p < j
        <4>1. j - 1 \in 1 .. Len(l) /\ k[j] = l[j - 1] /\ p <= j - 1
          BY <1>2, <3>4, InsertedPlaces
        <4>2. i < j - 1
          BY <1>2, <2>2, <4>1
        <4> QED BY <1>1, <3>1, <4>1, <4>2
      <3> QED BY <1>2, <3>2, <3>3, <3>4
    <2>3. CASE p < i
      <3>1. i - 1 \in 1 .. Len(l) /\ k[i] = l[i - 1]
        BY <1>2, <2>3, InsertedPlaces
      <3>2. p < j
        BY <1>2, <1>3, <2>3
      <3>3. j - 1 \in 1 .. Len(l) /\ k[j] = l[j - 1]
        BY <1>2, <3>2, InsertedPlaces
      <3>4. i - 1 < j - 1
        BY <1>2, <1>3
      <3> QED BY <1>1, <3>1, <3>3, <3>4
    <2> QED BY <1>2, <2>1, <2>2, <2>3
  <1>4. \A i \in 1 .. Len(k) : k[i] \in DOMAIN g
    <2> TAKE i \in 1 .. Len(k)
    <2>1. k[i] = e \/ (\E j \in 1 .. Len(l) : k[i] = l[j])
      BY InsertedPlaces
    <2> QED BY <2>1 DEF Sound
  <1>5. Sound(k, g)
    BY <1>2, <1>3, <1>4 DEF Sound
  <1>6. ASSUME NEW x \in Nat
        PROVE  Covered(k, g, Len(k), x) <=> Covered(l, g, Len(l), x) \/ (e <= x /\ x < End(g, e))
    <2>1. ASSUME NEW i \in 1 .. Len(k), k[i] <= x, x < End(g, k[i])
          PROVE  Covered(l, g, Len(l), x) \/ (e <= x /\ x < End(g, e))
      <3>1. k[i] = e \/ (\E j \in 1 .. Len(l) : k[i] = l[j])
        BY InsertedPlaces
      <3> QED BY <2>1, <3>1 DEF Covered
    <2>2. ASSUME Covered(l, g, Len(l), x) PROVE Covered(k, g, Len(k), x)
      <3>1. PICK i \in 1 .. Len(l) : l[i] <= x /\ x < End(g, l[i])
        BY <2>2 DEF Covered
      <3>2. PICK j \in 1 .. Len(k) : k[j] = l[i]
        BY InsertedKeeps
      <3> QED BY <3>1, <3>2 DEF Covered
    <2>3. ASSUME e <= x, x < End(g, e) PROVE Covered(k, g, Len(k), x)
      <3>1. p \in 1 .. Len(k) /\ k[p] = e
        BY InsertedKeeps
      <3> QED BY <2>3, <3>1 DEF Covered
    <2> QED BY <2>1, <2>2, <2>3 DEF Covered
  <1> QED BY <1>5, <1>6

LEMMA MinIs ==
    ASSUME NEW S, S \subseteq Nat, S # {}
    PROVE  Min(S) \in S /\ \A y \in S : Min(S) <= y
  BY Least DEF Min

\* heap_append_block puts a block before the first one that is not below it.
LEMMA AppendBlockIs ==
    ASSUME NEW m, NEW l \in Seq(Nat), m.list = l, NEW b \in Nat
    PROVE  \E k, p : /\ heap_append_block(m, b) = Mem(k, m.hdr) /\ Inserted(k, l, p, b)
                     /\ \A i \in 1 .. Len(l) : i < p => l[i] < b
                     /\ p \in 1 .. Len(l) => b <= l[p]
  <1> DEFINE I == {i \in 1 .. Len(l) : l[i] >= b}
  <1>1. Len(l) \in Nat /\ I \subseteq Nat /\ \A i \in 1 .. Len(l) : l[i] \in Nat
    BY LenProperties, ElementOfSeq
  <1>2. CASE I = {}
    <2>1. heap_append_block(m, b) = Mem(Append(l, b), m.hdr)
      BY <1>2 DEF heap_append_block, SelectInSeq
    <2>2. Inserted(Append(l, b), l, Len(l) + 1, b)
      BY AppendInserts
    <2>3. \A i \in 1 .. Len(l) : l[i] < b
      BY <1>1, <1>2
    <2>4. Len(l) + 1 \notin 1 .. Len(l)
      BY <1>1
    <2> QED BY <2>1, <2>2, <2>3, <2>4
  <1>3. CASE I # {}
    <2>1. PICK p : p = Min(I)
      OBVIOUS
    <2>2. p \in I /\ \A y \in I : p <= y
      <3> HIDE DEF I
      <3> QED BY <1>1, <1>3, <2>1, MinIs
    <2>3. p # 0 /\ p \in 1 .. Len(l) + 1 /\ p \in 1 .. Len(l) /\ b <= l[p]
      BY <1>1, <2>2
    <2>4. heap_append_block(m, b) = Mem(InsertAt(l, p, b), m.hdr)
      <3>1. SelectInSeq(l, LAMBDA c : c >= b) = Min(I)
        BY <1>3 DEF SelectInSeq
      <3>2. SelectInSeq(l, LAMBDA c : c >= b) = p
        BY <2>1, <3>1
      <3> QED BY <2>3, <3>2 DEF heap_append_block
    <2>5. Inserted(InsertAt(l, p, b), l, p, b)
      BY <2>3, InsertIs
    <2>6. \A i \in 1 .. Len(l) : i < p => l[i] < b
      BY <1>1, <2>2, <2>3
    <2> QED BY <2>3, <2>4, <2>5, <2>6
  <1> QED BY <1>2, <1>3
-----------------------------------------------------------------------------
(* A region more.                                                          *)

\* Every address lies in a frame.
LEMMA FrameOf ==
    ASSUME NEW x \in Nat
    PROVE  \E f \in Nat : f * PageSize <= x /\ x < (f + 1) * PageSize
  <1> DEFINE S == {f \in Nat : x < (f + 1) * PageSize}
  <1>1. PageSize \in Nat /\ PageSize >= 64
    BY SpaceIs
  <1>2. x \in S
    <2>1. (x + 1) * PageSize = x * PageSize + PageSize /\ x <= x * PageSize
      BY <1>1
    <2> QED BY <1>1, <2>1
  <1>3. PICK f \in S : \A y \in S : f <= y
    <2>1. S \subseteq Nat /\ S # {}
      BY <1>2
    <2> HIDE DEF S
    <2> QED BY <2>1, Least
  <1>4. f \in Nat /\ x < (f + 1) * PageSize
    OBVIOUS
  <1>5. f * PageSize <= x
    <2>1. CASE f = 0
      BY <1>1, <2>1
    <2>2. CASE f # 0
      <3>1. PICK e \in Nat : f = e + 1
        BY <1>4, <2>2
      <3>2. ~(x < (e + 1) * PageSize)
        BY <1>3, <3>1
      <3>3. f * PageSize \in Nat
        BY <1>4, PageIs
      <3> QED BY <3>1, <3>2, <3>3
    <2> QED BY <2>1, <2>2
  <1> QED BY <1>4, <1>5

\* An address owned by two sets of frames lies in a frame of both.
LEMMA CommonFrame ==
    ASSUME NEW fs, NEW gs, fs \subseteq Nat, gs \subseteq Nat, NEW x \in Nat,
           Owned(fs, x), Owned(gs, x)
    PROVE  \E f \in fs : f \in gs
  <1>1. PICK f \in fs : f * PageSize <= x /\ x < (f + 1) * PageSize
    BY DEF Owned
  <1>2. PICK g \in gs : g * PageSize <= x /\ x < (g + 1) * PageSize
    BY DEF Owned
  <1>3. f = g
    BY <1>1, <1>2, OneFrame
  <1> QED BY <1>3

\* n frames from frame s on.
RunOf(s, n) == {f \in Nat : s <= f /\ f < s + n}

LEMMA PagesOf ==
    ASSUME NEW s \in Nat, NEW n \in Nat
    PROVE  (s + n) * PageSize = s * PageSize + n * PageSize /\ n * PageSize \in Nat
  <1>1. PageSize \in Nat
    BY SpaceIs
  <1> QED BY <1>1

LEMMA PagesMono ==
    ASSUME NEW a \in Nat, NEW b \in Nat, a <= b
    PROVE  a * PageSize <= b * PageSize
  <1>1. a * PageSize \in Nat /\ b * PageSize \in Nat /\ PageSize \in Nat
    BY PageIs, SpaceIs
  <1>2. CASE a = b
    BY <1>1, <1>2
  <1>3. CASE a < b
    <2>1. a * PageSize + PageSize <= b * PageSize
      BY <1>3, PagesUp
    <2> QED BY <1>1, <2>1
  <1> QED BY <1>2, <1>3

LEMMA RunOwned ==
    ASSUME NEW s \in Nat, NEW n \in Nat, NEW x \in Nat
    PROVE  Owned(RunOf(s, n), x) <=> s * PageSize <= x /\ x < s * PageSize + n * PageSize
  <1>1. (s + n) * PageSize = s * PageSize + n * PageSize /\ s * PageSize \in Nat /\ n * PageSize \in Nat
    BY PagesOf, PageIs
  <1>2. ASSUME Owned(RunOf(s, n), x)
        PROVE  s * PageSize <= x /\ x < s * PageSize + n * PageSize
    <2>1. PICK f \in RunOf(s, n) : f * PageSize <= x /\ x < (f + 1) * PageSize
      BY <1>2 DEF Owned
    <2>2. f \in Nat /\ s <= f /\ f + 1 <= s + n /\ f + 1 \in Nat /\ s + n \in Nat
      BY DEF RunOf
    <2>3. s * PageSize <= f * PageSize /\ (f + 1) * PageSize <= (s + n) * PageSize
      BY <2>2, PagesMono
    <2>4. f * PageSize \in Nat /\ (f + 1) * PageSize \in Nat
      BY <2>2, PageIs
    <2> QED BY <1>1, <2>1, <2>3, <2>4
  <1>3. ASSUME s * PageSize <= x, x < s * PageSize + n * PageSize
        PROVE  Owned(RunOf(s, n), x)
    <2>1. PICK f \in Nat : f * PageSize <= x /\ x < (f + 1) * PageSize
      BY FrameOf
    <2>2. f * PageSize \in Nat /\ (f + 1) * PageSize = f * PageSize + PageSize /\ PageSize \in Nat
      BY PageIs, SpaceIs
    <2>3. ~(f < s)
      <3> SUFFICES ASSUME f < s PROVE FALSE
        OBVIOUS
      <3>1. f * PageSize + PageSize <= s * PageSize
        BY PagesUp
      <3> QED BY <1>1, <1>3, <2>1, <2>2, <3>1
    <2>4. ~(s + n <= f)
      <3> SUFFICES ASSUME s + n <= f PROVE FALSE
        OBVIOUS
      <3>1. (s + n) * PageSize <= f * PageSize
        BY PagesMono
      <3> QED BY <1>1, <1>3, <2>1, <2>2, <3>1
    <2>5. f \in RunOf(s, n)
      BY <2>3, <2>4 DEF RunOf
    <2> QED BY <2>1, <2>5 DEF Owned
  <1> QED BY <1>2, <1>3

\* The block of a new region takes its place among the others.
LEMMA RegionTiles ==
    ASSUME NEW l, NEW h, NEW fs, fs \subseteq Nat, Tiles(l, h, fs),
           NEW s \in Nat, NEW n \in Nat, n > 0, \A f \in fs : f \notin RunOf(s, n),
           NEW b \in Nat, b = s * PageSize, NEW size \in Nat, size = n * PageSize - 24,
           NEW g, Written(g, h, b, size, TRUE),
           NEW k, NEW p, Inserted(k, l, p, b),
           \A i \in 1 .. Len(l) : i < p => l[i] < b,
           p \in 1 .. Len(l) => b <= l[p]
    PROVE  /\ Tiles(k, g, fs \cup RunOf(s, n))
           /\ \A i \in 1 .. Len(l) : l[i] # b
  <1>1. PICK e \in Nat : e = b + n * PageSize /\ End(g, b) = e /\ b < e
    <2>1. n * PageSize \in Nat /\ End(g, b) = b + 24 + size
      BY PagesOf DEF Written
    <2>2. b + 24 + size = b + n * PageSize /\ b < b + 24 + size
      BY <2>1
    <2> QED BY <2>1, <2>2
  <1>2. \A x \in Nat : Owned(fs, x) => ~(b <= x /\ x < e)
    <2> SUFFICES ASSUME NEW x \in Nat, Owned(fs, x), b <= x, x < e PROVE FALSE
      OBVIOUS
    <2>1. Owned(RunOf(s, n), x)
      BY <1>1, RunOwned
    <2>2. RunOf(s, n) \subseteq Nat
      BY DEF RunOf
    <2> QED BY <2>1, <2>2, CommonFrame
  <1>3. \A i \in 1 .. Len(l) : /\ l[i] \in Nat /\ End(h, l[i]) \in Nat
                               /\ l[i] # b /\ (l[i] < b => End(h, l[i]) <= b) /\ (b <= l[i] => e <= l[i])
    <2> TAKE i \in 1 .. Len(l)
    <2>1. /\ l[i] \in Nat /\ End(h, l[i]) \in Nat /\ Owned(fs, l[i])
          /\ \A x \in Nat : l[i] <= x /\ x < End(h, l[i]) => Owned(fs, x)
      BY BlockOwned
    <2>2. ~(b <= l[i] /\ l[i] < e)
      BY <1>2, <2>1
    <2>3. l[i] < b => ~(b < End(h, l[i]))
      BY <1>1, <1>2, <2>1
    <2> QED BY <1>1, <2>1, <2>2, <2>3
  <1>4. Sound(l, h)
    BY DEF Tiles
  <1>5. \A i \in 1 .. Len(l) : l[i] \in DOMAIN g /\ g[l[i]] = h[l[i]] /\ End(g, l[i]) = End(h, l[i])
    BY <1>3, <1>4 DEF Written, Sound
  <1>6. Tiles(l, g, fs)
    BY <1>5, SameEnds DEF Written
  <1>7. Sound(l, g) /\ b \in DOMAIN g
    BY <1>6 DEF Tiles, Written
  <1>8. \A i \in 1 .. Len(l) : i < p => End(g, l[i]) <= b
    BY <1>3, <1>5
  <1>9. ASSUME NEW i \in 1 .. Len(l), p <= i PROVE End(g, b) <= l[i]
    <2>1. p \in 1 .. Len(l)
      BY <1>9 DEF Inserted
    <2>2. l[p] <= l[i]
      <3>1. CASE p = i
        BY <1>3, <3>1
      <3>2. CASE p < i
        <4>1. l[p] < l[i]
          BY <1>4, <2>1, <3>2, Distinct
        <4> QED BY <1>3, <2>1, <4>1
      <3> QED BY <1>9, <2>1, <3>1, <3>2
    <2>3. b <= l[i]
      BY <1>3, <2>1, <2>2
    <2> QED BY <1>1, <1>3, <2>3
  <1>10. /\ Sound(k, g)
         /\ \A x \in Nat : Covered(k, g, Len(k), x)
                             <=> Covered(l, g, Len(l), x) \/ (b <= x /\ x < End(g, b))
    BY <1>7, <1>8, <1>9, InsertSound
  <1>11. ASSUME NEW x \in Nat
         PROVE  Covered(k, g, Len(k), x) <=> Owned(fs \cup RunOf(s, n), x)
    <2>1. Covered(l, g, Len(l), x) <=> Owned(fs, x)
      BY <1>6 DEF Tiles
    <2>2. (b <= x /\ x < End(g, b)) <=> Owned(RunOf(s, n), x)
      BY <1>1, RunOwned
    <2>3. Owned(fs \cup RunOf(s, n), x) <=> Owned(fs, x) \/ Owned(RunOf(s, n), x)
      BY DEF Owned
    <2> QED BY <1>10, <2>1, <2>2, <2>3
  <1> QED BY <1>3, <1>10, <1>11 DEF Tiles
-----------------------------------------------------------------------------
(* Blocks in use.                                                          *)

Busy(l, h) == {b \in Nat : (\E i \in 1 .. Len(l) : l[i] = b) /\ ~h[b].free}

\* Lists k and l hold the same blocks in use.
SameUse(l, h, k, g) ==
    /\ Busy(k, g) = Busy(l, h)
    /\ \A b \in Busy(l, h) : g[b] = h[b]

\* What a walk merges was free.
LEMMA WalkedSameUse ==
    ASSUME NEW l, NEW h, NEW k, NEW g, Walked(l, h, Len(l), k, g)
    PROVE  SameUse(l, h, k, g)
  <1>1. ASSUME NEW b \in Busy(k, g) PROVE b \in Busy(l, h)
    <2>1. PICK i \in 1 .. Len(k) : k[i] = b /\ ~g[b].free /\ b \in Nat
      BY DEF Busy
    <2>2. g[b] = h[b]
      BY <2>1 DEF Walked
    <2>3. \E j \in 1 .. Len(l) : l[j] = b
      BY <2>1 DEF Walked
    <2> QED BY <2>1, <2>2, <2>3 DEF Busy
  <1>2. ASSUME NEW b \in Busy(l, h) PROVE b \in Busy(k, g) /\ g[b] = h[b]
    <2>1. PICK j \in 1 .. Len(l) : l[j] = b /\ ~h[b].free /\ b \in Nat
      BY DEF Busy
    <2>2. PICK i \in 1 .. Len(k) : k[i] = b /\ g[b] = h[b]
      BY <2>1 DEF Walked
    <2> QED BY <2>1, <2>2 DEF Busy
  <1> QED BY <1>1, <1>2 DEF SameUse

\* heap_coalesce loses no byte, no block in use, and shortens no block.
IsMerged(l, h, fs, k, g) ==
    /\ Tiles(k, g, fs) /\ SameUse(l, h, k, g) /\ Walked(l, h, Len(l), k, g)
    /\ \A i \in 1 .. Len(k), j \in 1 .. Len(l) : k[i] = l[j] => End(h, l[j]) <= End(g, k[i])

LEMMA CoalesceTiles ==
    ASSUME NEW l, NEW h, NEW fs, fs \subseteq 1 .. FrameLimit - 1, Tiles(l, h, fs),
           NEW k, NEW g, k = heap_coalesce(Mem(l, h)).list, g = heap_coalesce(Mem(l, h)).hdr
    PROVE  IsMerged(l, h, fs, k, g) /\ heap_coalesce(Mem(l, h)) = Mem(k, g)
  <1>1. Sound(l, h) /\ Snug(l, h)
    BY TilesSnug DEF Tiles
  <1>2. PICK m : m = Mem(l, h)
    OBVIOUS
  <1>3. m.list = l /\ m.hdr = h /\ m = Mem(m.list, m.hdr)
    BY <1>2 DEF Mem
  <1>4. /\ Walked(m.list, m.hdr, Len(m.list), heap_coalesce(m).list, heap_coalesce(m).hdr)
        /\ heap_coalesce(m) = Mem(heap_coalesce(m).list, heap_coalesce(m).hdr)
    BY <1>1, <1>3, Coalesced
  <1>5. Walked(l, h, Len(l), k, g)
    BY <1>2, <1>3, <1>4
  <1>6. Tiles(k, g, fs)
    BY <1>5 DEF Tiles, Walked
  <1>7. ASSUME NEW i \in 1 .. Len(k), NEW j \in 1 .. Len(l), k[i] = l[j]
        PROVE  End(h, l[j]) <= End(g, k[i])
    <2>1. PICK b \in Nat, e \in Nat, d \in Nat :
            b = l[j] /\ e = End(h, b) /\ d = End(g, b) /\ b + 24 <= e /\ b = k[i]
      <3>1. l[j] \in Nat /\ End(h, l[j]) \in Nat /\ l[j] + 24 <= End(h, l[j])
        BY BlockOwned
      <3>2. End(g, k[i]) \in Nat
        BY <1>6, BlockOwned
      <3> QED BY <1>7, <3>1, <3>2
    <2>2. e - 1 \in Nat /\ b <= e - 1 /\ e - 1 < e
      BY <2>1
    <2>3. Owned(fs, e - 1)
      BY <2>1, <2>2, BlockOwned
    <2>4. PICK q \in 1 .. Len(k) : k[q] <= e - 1 /\ e - 1 < End(g, k[q])
      BY <1>6, <2>2, <2>3, OwnedBlock
    <2>5. PICK t \in 1 .. Len(l) : k[q] = l[t]
      BY <1>5 DEF Walked
    <2>6. Sound(k, g) /\ i \in Nat /\ q \in Nat /\ j \in Nat /\ t \in Nat
      BY <1>6 DEF Tiles
    <2>7. k[q] \in Nat /\ End(g, k[q]) \in Nat
      BY <2>6, BlockIs
    <2>8. ~(q < i)
      <3> SUFFICES ASSUME q < i PROVE FALSE
        OBVIOUS
      <3>1. End(g, k[q]) <= b
        BY <2>1, <2>6 DEF Sound
      <3> QED BY <2>1, <2>4, <2>7, <3>1
    <2>9. ~(i < q)
      <3> SUFFICES ASSUME i < q PROVE FALSE
        OBVIOUS
      <3>1. b < l[t]
        BY <2>1, <2>5, <2>6, Distinct
      <3>2. j < t
        <4>1. l[j] < l[t] /\ l[j] \in Nat /\ l[t] \in Nat
          BY <2>1, <2>5, <2>7, <3>1
        <4>2. j # t
          BY <4>1
        <4> QED BY <1>1, <4>1, <4>2, Distinct
      <3>3. e <= l[t]
        BY <1>1, <2>1, <3>2 DEF Sound
      <3> QED BY <2>1, <2>4, <2>5, <2>7, <3>3
    <2>10. q = i
      BY <2>6, <2>8, <2>9
    <2> QED BY <2>1, <2>4, <2>10
  <1>8. heap_coalesce(Mem(l, h)) = Mem(k, g)
    BY <1>2, <1>4
  <1> QED BY <1>5, <1>6, <1>7, <1>8, WalkedSameUse DEF IsMerged

LEMMA MemIs ==
    ASSUME NEW l, NEW h
    PROVE  Mem(l, h).list = l /\ Mem(l, h).hdr = h
  BY DEF Mem

\* A block of size bytes at b, cut behind its first n: its rest, of rem bytes.
Cut(b, n, size, rest, rem) ==
    /\ rest = b + 24 + n /\ rem = size - n - 24 /\ rest + 24 + rem = b + 24 + size
    /\ b # rest /\ rest <= b + 24 + size
    /\ \A x \in Nat : x <= b \/ b + 24 + size <= x => x # rest
    /\ \A x \in Nat : x <= b => x <= rest
    /\ \A x \in Nat : b <= x /\ x < b + 24 + size
                      <=> (b <= x /\ x < rest) \/ (rest <= x /\ x < b + 24 + size)

LEMMA CutIs ==
    ASSUME NEW b \in Nat, NEW n \in Nat, NEW size \in Nat, size >= n + 56
    PROVE  \E rest \in Nat, rem \in Nat : Cut(b, n, size, rest, rem)
  <1>1. PICK rest \in Nat, rem \in Nat : rest = b + 24 + n /\ rem = size - n - 24
    OBVIOUS
  <1>2. /\ rest + 24 + rem = b + 24 + size /\ b < rest /\ rest < b + 24 + size
    BY <1>1
  <1> QED BY <1>1, <1>2 DEF Cut

\* Block b, at place i, can be cut to n bytes.
CanCut(l, h, fs, i, b, n) ==
    /\ Tiles(l, h, fs) /\ i \in 1 .. Len(l) /\ b \in Nat /\ b = l[i]
    /\ n \in Nat /\ align_up(n) = n /\ n + 56 < Word /\ n <= h[b].size

\* What heap_split_block makes of it: list k and headers t.
IsCut(l, h, fs, i, b, n, k, t) ==
    /\ Tiles(k, t, fs)
    /\ \A j \in 1 .. Len(l) : /\ \E q \in 1 .. Len(k) : k[q] = l[j]
                              /\ j # i => t[l[j]] = h[l[j]]
    /\ t[b].free = h[b].free /\ n <= t[b].size
    /\ \/ k = l /\ t = h
       \/ /\ Inserted(k, l, i + 1, End(t, b)) /\ t[End(t, b)].free /\ t[b].size = n
          /\ t[End(t, b)].size = h[b].size - n - 24 /\ \A j \in 1 .. Len(l) : l[j] # End(t, b)

\* heap_split_block on a block of the list: its bytes become two blocks.
LEMMA SplitIs ==
    ASSUME NEW l, NEW h, NEW fs, Tiles(l, h, fs), NEW i \in 1 .. Len(l), NEW b \in Nat, b = l[i],
           NEW n \in Nat, align_up(n) = n, n + 56 < Word, n <= h[b].size,
           NEW k, NEW g, k = heap_split_block(Mem(l, h), b, n).list,
           g = heap_split_block(Mem(l, h), b, n).hdr
    PROVE  IsCut(l, h, fs, i, b, n, k, g)
  <1>1. Sound(l, h) /\ l \in Seq(Nat) /\ h \in [DOMAIN h -> Header]
    BY DEF Tiles, Sound
  <1>2. PICK size \in Nat : /\ b \in Nat /\ size = h[b].size /\ End(h, b) = b + 24 + size
                            /\ h[b].free \in BOOLEAN /\ b \in DOMAIN h
    BY <1>1, BlockIs
  <1>3. (n + HeaderSize + HEAP_MIN_SPLIT) % Word = n + 56
    <2>1. Word \in Nat
      BY SpaceIs
    <2>2. PICK v \in Nat : v = n + 56 /\ v = n + HeaderSize + HEAP_MIN_SPLIT
      BY DEF HeaderSize, HEAP_MIN_SPLIT
    <2>3. v % Word = v
      BY <2>1, <2>2
    <2> QED BY <2>2, <2>3
  <1>4. CASE ~(size >= n + 56)
    <2>1. heap_split_block(Mem(l, h), b, n) = Mem(l, h)
      BY <1>2, <1>3, <1>4 DEF heap_split_block, Splittable, Mem
    <2>2. k = l /\ g = h
      BY <2>1 DEF Mem
    <2> QED BY <1>2, <2>2 DEF IsCut
  <1>5. CASE size >= n + 56
    <2>1. PICK rest \in Nat, rem \in Nat : Cut(b, n, size, rest, rem)
      BY <1>5, CutIs, Zenon
    <2>2. SelectInSeq(l, LAMBDA c : c = b) = i
      <3> DEFINE I == {j \in 1 .. Len(l) : l[j] = b}
      <3>1. I = {i}
        BY <1>1, Distinct
      <3>2. i \in Nat
        OBVIOUS
      <3>3. Min({i}) = i
        <4>1. {i} \subseteq Nat /\ {i} # {}
          BY <3>2
        <4>2. Min({i}) \in {i}
          BY <4>1, MinIs
        <4> QED BY <4>2
      <3>4. SelectInSeq(l, LAMBDA c : c = b) = Min(I)
        BY <3>1 DEF SelectInSeq
      <3> QED BY <3>1, <3>3, <3>4
    <2>3. k = InsertAt(l, i + 1, rest)
          /\ g = With(With(h, rest, rem, TRUE), b, n, h[b].free)
      <3>1. i # 0
        OBVIOUS
      <3>2. Mem(l, h).list = l /\ Mem(l, h).hdr = h
        BY DEF Mem
      <3>3. heap_split_block(Mem(l, h), b, n)
              = Mem(InsertAt(l, i + 1, rest), With(With(h, rest, rem, TRUE), b, n, h[b].free))
        <4>1. rest = b + 24 + n /\ rem = size - n - 24
          BY <2>1 DEF Cut
        <4> QED BY <1>2, <1>3, <1>5, <2>2, <3>1, <3>2, <4>1 DEF heap_split_block, Splittable, HeaderSize
      <3>4. PICK u, v : u = InsertAt(l, i + 1, rest) /\ v = With(With(h, rest, rem, TRUE), b, n, h[b].free)
        BY Zenon
      <3>5. heap_split_block(Mem(l, h), b, n) = Mem(u, v)
        BY <3>3, <3>4, Zenon
      <3>6. k = u /\ g = v
        BY <3>5, MemIs
      <3> QED BY <3>4, <3>6, Zenon
    <2>4. PICK w : w = With(h, rest, rem, TRUE) /\ Written(w, h, rest, rem, TRUE)
      <3>1. TRUE \in BOOLEAN
        OBVIOUS
      <3> QED BY <1>1, <3>1, WithIs, Zenon
    <2>5. Written(g, w, b, n, h[b].free)
      <3>1. w \in [DOMAIN w -> Header]
        BY <2>4 DEF Written
      <3> QED BY <1>2, <2>3, <2>4, <3>1, WithIs
    <2>6. \A j \in 1 .. Len(l) : l[j] \in Nat /\ l[j] # rest /\ l[j] \in DOMAIN h
      <3> TAKE j \in 1 .. Len(l)
      <3>1. l[j] \in Nat /\ End(h, l[j]) \in Nat /\ l[j] \in DOMAIN h
        BY <1>1, BlockIs
      <3>2. j < i => l[j] < b
        BY <1>1, Distinct
      <3>3. i < j => b + 24 + size <= l[j]
        BY <1>1, <1>2 DEF Sound
      <3>4. j = i => l[j] = b
        OBVIOUS
      <3>5. PICK c \in Nat : c = l[j]
        BY <3>1
      <3>6. c <= b \/ b + 24 + size <= c
        BY <3>2, <3>3, <3>4, <3>5
      <3>7. c # rest
        BY <2>1, <3>6 DEF Cut
      <3> QED BY <3>1, <3>5, <3>7
    <2>7. rest # b
      BY <2>1 DEF Cut
    <2>8. /\ g \in [DOMAIN g -> Header] /\ rest \in DOMAIN g
          /\ g[b] = [size |-> n, free |-> h[b].free] /\ End(g, b) = rest
          /\ g[rest] = [size |-> rem, free |-> TRUE] /\ End(g, rest) = b + 24 + size
      <3>1. g \in [DOMAIN g -> Header] /\ g[b] = [size |-> n, free |-> h[b].free] /\ End(g, b) = b + 24 + n
        BY <2>5 DEF Written
      <3>2. rest \in DOMAIN w /\ w[rest] = [size |-> rem, free |-> TRUE] /\ End(w, rest) = rest + 24 + rem
        BY <2>4 DEF Written
      <3>3. rest \in DOMAIN g /\ g[rest] = w[rest] /\ End(g, rest) = End(w, rest)
        BY <2>5, <2>7, <3>2 DEF Written
      <3>4. rest = b + 24 + n /\ rest + 24 + rem = b + 24 + size
        BY <2>1 DEF Cut
      <3> QED BY <3>1, <3>2, <3>3, <3>4
    <2>9. \A j \in 1 .. Len(l) : /\ l[j] \in DOMAIN g
                                 /\ j # i => g[l[j]] = h[l[j]] /\ End(g, l[j]) = End(h, l[j])
      <3> TAKE j \in 1 .. Len(l)
      <3>1. l[j] \in DOMAIN w /\ w[l[j]] = h[l[j]] /\ End(w, l[j]) = End(h, l[j])
        BY <2>4, <2>6 DEF Written
      <3>2. l[j] \in DOMAIN g
        BY <2>5, <3>1 DEF Written
      <3>3. j # i => l[j] # b
        BY <1>1, Distinct
      <3>4. j # i => g[l[j]] = w[l[j]] /\ End(g, l[j]) = End(w, l[j])
        BY <2>5, <3>1, <3>3 DEF Written
      <3> QED BY <3>1, <3>2, <3>4
    <2>10. \A j \in 1 .. Len(l) : End(g, l[j]) <= End(h, l[j])
      <3> TAKE j \in 1 .. Len(l)
      <3>1. End(h, l[j]) \in Nat
        BY <1>1, BlockIs
      <3>2. CASE j = i
        <4>1. rest <= b + 24 + size
          BY <2>1 DEF Cut
        <4> QED BY <1>2, <2>8, <3>2, <4>1
      <3>3. CASE j # i
        BY <2>9, <3>1, <3>3
      <3> QED BY <3>2, <3>3
    <2>11. Sound(l, g)
      BY <1>1, <2>8, <2>9, <2>10, SoundLess
    <2>12. Inserted(k, l, i + 1, rest)
      <3>1. i + 1 \in 1 .. Len(l) + 1
        BY <1>1, LenProperties
      <3> QED BY <1>1, <2>3, <3>1, InsertIs
    <2>13. \A j \in 1 .. Len(l) : j < i + 1 => End(g, l[j]) <= rest
      <3> TAKE j \in 1 .. Len(l)
      <3>1. CASE j = i
        BY <2>8, <3>1
      <3>2. CASE j < i
        <4>1. End(g, l[j]) <= b /\ End(g, l[j]) \in Nat
          BY <2>11, <3>2, BlockIs DEF Sound
        <4>2. \A x \in Nat : x <= b => x <= rest
          BY <2>1 DEF Cut
        <4> QED BY <4>1, <4>2
      <3> QED BY <3>1, <3>2
    <2>14. \A j \in 1 .. Len(l) : i + 1 <= j => End(g, rest) <= l[j]
      <3> TAKE j \in 1 .. Len(l)
      <3>1. i < j => b + 24 + size <= l[j]
        BY <1>1, <1>2 DEF Sound
      <3> QED BY <2>8, <3>1
    <2>15. /\ Sound(k, g)
           /\ \A x \in Nat : Covered(k, g, Len(k), x)
                               <=> Covered(l, g, Len(l), x) \/ (rest <= x /\ x < End(g, rest))
      <3>1. rest \in DOMAIN g
        BY <2>8
      <3> QED BY <2>11, <2>12, <2>13, <2>14, <3>1, InsertSound
    <2>16. ASSUME NEW x \in Nat
           PROVE  Covered(l, g, Len(l), x) \/ (rest <= x /\ x < End(g, rest)) <=> Covered(l, h, Len(l), x)
      <3>1. b <= x /\ x < b + 24 + size <=> (b <= x /\ x < rest) \/ (rest <= x /\ x < b + 24 + size)
        BY <2>1 DEF Cut
      <3>2. \A j \in 1 .. Len(l) : j # i => (x < End(g, l[j]) <=> x < End(h, l[j]))
        BY <2>9
      <3>3. b <= x /\ x < End(h, b) <=> (b <= x /\ x < End(g, b)) \/ (rest <= x /\ x < End(g, rest))
        BY <1>2, <2>8, <3>1
      <3>4. ASSUME Covered(l, h, Len(l), x)
            PROVE  Covered(l, g, Len(l), x) \/ (rest <= x /\ x < End(g, rest))
        BY <3>2, <3>3, <3>4 DEF Covered
      <3>5. ASSUME Covered(l, g, Len(l), x) PROVE Covered(l, h, Len(l), x)
        BY <3>2, <3>3, <3>5 DEF Covered
      <3>6. ASSUME rest <= x, x < End(g, rest) PROVE Covered(l, h, Len(l), x)
        BY <3>3, <3>6 DEF Covered
      <3> QED BY <3>4, <3>5, <3>6
    <2>17. Tiles(k, g, fs)
      BY <2>15, <2>16 DEF Tiles
    <2>18. \A j \in 1 .. Len(l) : \E q \in 1 .. Len(k) : k[q] = l[j]
      BY <2>12, InsertedHas
    <2>19. /\ g[b].free = h[b].free /\ g[b].size = n /\ g[rest].free /\ g[rest].size = rem
      BY <2>8
    <2>20. g[b].free = h[b].free /\ n <= g[b].size
      BY <2>19
    <2>21. /\ Inserted(k, l, i + 1, End(g, b)) /\ g[End(g, b)].free /\ g[b].size = n
           /\ g[End(g, b)].size = h[b].size - n - 24 /\ \A j \in 1 .. Len(l) : l[j] # End(g, b)
      <3>1. rem = size - n - 24
        BY <2>1 DEF Cut
      <3>2. End(g, b) = rest
        BY <2>8
      <3> QED BY <1>2, <2>6, <2>12, <2>19, <3>1, <3>2
    <2> QED BY <2>9, <2>17, <2>18, <2>20, <2>21 DEF IsCut
  <1> QED BY <1>2, <1>4, <1>5
-----------------------------------------------------------------------------
(* Marks, and what the heap keeps of the headers.                          *)

\* Headers g are the headers h with the mark of b set to v.
Marked(g, h, b, v) ==
    /\ g \in [DOMAIN g -> Header] /\ DOMAIN g = DOMAIN h
    /\ g[b].free = v /\ g[b].size = h[b].size
    /\ \A c \in DOMAIN h : End(g, c) = End(h, c) /\ (c # b => g[c] = h[c])

LEMMA MarkIs ==
    ASSUME NEW h, h \in [DOMAIN h -> Header], NEW b \in DOMAIN h, NEW v \in BOOLEAN
    PROVE  Marked([h EXCEPT ![b].free = v], h, b, v)
  <1>1. PICK g : g = [h EXCEPT ![b].free = v]
    OBVIOUS
  <1>2. DOMAIN g = DOMAIN h /\ g[b] = [h[b] EXCEPT !.free = v] /\ \A c \in DOMAIN h : c # b => g[c] = h[c]
    BY <1>1
  <1>3. h[b] \in Header
    OBVIOUS
  <1>4. g[b] \in Header /\ g[b].free = v /\ g[b].size = h[b].size
    BY <1>2, <1>3 DEF Header
  <1>5. g \in [DOMAIN g -> Header]
    <2>1. \A c \in DOMAIN h : g[c] \in Header
      BY <1>2, <1>4
    <2>2. g = [c \in DOMAIN h |-> g[c]]
      BY <1>1
    <2> QED BY <1>2, <2>1, <2>2
  <1>6. \A c \in DOMAIN h : End(g, c) = End(h, c)
    BY <1>2, <1>4 DEF End
  <1> QED BY <1>1, <1>2, <1>4, <1>5, <1>6 DEF Marked

LEMMA RangeIs ==
    ASSUME NEW l \in Seq(Nat)
    PROVE  /\ \A i \in 1 .. Len(l) : l[i] \in Range(l)
           /\ \A b \in Range(l) : b \in Nat /\ \E i \in 1 .. Len(l) : l[i] = b
  <1>1. Range(l) = {l[i] : i \in 1 .. Len(l)}
    BY RangeEquality
  <1> HIDE DEF Range
  <1> QED BY <1>1, ElementOfSeq

\* Every block in use is a caller's, and large enough for what it asked for.
LiveOK(l, h, lv) ==
    /\ \A a \in lv : /\ a.ptr \in Nat /\ a.ptr - 24 \in Busy(l, h)
                     /\ a.asked \in Nat /\ a.asked <= h[a.ptr - 24].size
    /\ \A b \in Busy(l, h) : \E a \in lv : a.ptr = b + 24
    /\ \A a1, a2 \in lv : a1.ptr = a2.ptr => a1 = a2

\* Headers g are the headers h of the list.
IsRead(l, h, fs, lv, g) ==
    /\ Tiles(l, g, fs) /\ SameUse(l, h, l, g) /\ LiveOK(l, g, lv)
    /\ DOMAIN g = Range(l) /\ \A i \in 1 .. Len(l) : g[l[i]] = h[l[i]]

\* The headers of the list are all that can be read.
LEMMA ReadableIs ==
    ASSUME NEW l \in Seq(Nat), NEW h, NEW fs, Tiles(l, h, fs), NEW lv, LiveOK(l, h, lv),
           NEW g, g = Readable(h, l, lv)
    PROVE  IsRead(l, h, fs, lv, g)
  <1>1. \A a \in lv : a.ptr - HeaderSize \in Range(l)
    BY RangeIs DEF LiveOK, Busy, HeaderSize
  <1>2. DOMAIN g = Range(l) /\ \A c \in Range(l) : g[c] = h[c]
    <2>1. Range(l) \cup {a.ptr - HeaderSize : a \in lv} = Range(l)
      BY <1>1
    <2> HIDE DEF Range
    <2> QED BY <2>1 DEF Readable
  <1>3. g = [c \in Range(l) |-> h[c]]
    <2>1. Range(l) \cup {a.ptr - HeaderSize : a \in lv} = Range(l)
      BY <1>1
    <2> HIDE DEF Range
    <2> QED BY <2>1 DEF Readable
  <1>4. \A i \in 1 .. Len(l) : l[i] \in DOMAIN g /\ g[l[i]] = h[l[i]]
    BY <1>2, RangeIs
  <1>5. \A i \in 1 .. Len(l) : End(g, l[i]) = End(h, l[i])
    BY <1>4 DEF End
  <1>6. g \in [DOMAIN g -> Header]
    <2>1. \A c \in Range(l) : h[c] \in Header
      <3> TAKE c \in Range(l)
      <3>1. PICK i \in 1 .. Len(l) : l[i] = c
        BY RangeIs
      <3> QED BY <3>1, BlockIs DEF Tiles
    <2> HIDE DEF Range
    <2> QED BY <1>2, <1>3, <2>1
  <1>7. Tiles(l, g, fs)
    BY <1>4, <1>5, <1>6, SameEnds
  <1>8. Busy(l, g) = Busy(l, h) /\ \A b \in Busy(l, h) : g[b] = h[b]
    BY <1>4 DEF Busy
  <1>9. LiveOK(l, g, lv)
    BY <1>8 DEF LiveOK
  <1> QED BY <1>2, <1>4, <1>7, <1>8, <1>9 DEF SameUse, IsRead

\* The payload bytes of the blocks V.
PayloadOf(V, h) == {x \in Nat : \E b \in V : b + 24 <= x /\ x < End(h, b)}

OwnedBytes(fs) == {x \in Nat : Owned(fs, x)}

\* Memory is finite.
LEMMA OwnedFinite ==
    ASSUME NEW fs, fs \subseteq 1 .. FrameLimit - 1
    PROVE  /\ IsFiniteSet(OwnedBytes(fs)) /\ Cardinality(OwnedBytes(fs)) \in Nat
           /\ Cardinality(OwnedBytes(fs)) + PageSize <= Word \/ fs = {}
           /\ Cardinality(OwnedBytes(fs)) < Word \/ fs = {}
           /\ fs = {} => Cardinality(OwnedBytes(fs)) = 0
  <1>1. Word \in Nat /\ PageSize \in Nat /\ PageSize >= 64
    BY SpaceIs
  <1>2. OwnedBytes(fs) \subseteq PageSize .. Word - 1
    <2> SUFFICES ASSUME NEW x \in Nat, Owned(fs, x) PROVE PageSize <= x /\ x < Word
      BY <1>1 DEF OwnedBytes
    <2>1. PICK f \in fs : f * PageSize <= x /\ x < (f + 1) * PageSize
      BY DEF Owned
    <2>2. /\ f * PageSize \in Nat /\ (f + 1) * PageSize = f * PageSize + PageSize
          /\ PageSize <= f * PageSize /\ f * PageSize + PageSize <= Word
      BY FrameEnds
    <2> QED BY <1>1, <2>1, <2>2
  <1>3. IsFiniteSet(PageSize .. Word - 1)
        /\ Cardinality(PageSize .. Word - 1) = IF PageSize > Word - 1 THEN 0 ELSE Word - 1 - PageSize + 1
    BY <1>1, FS_Interval
  <1>4. /\ IsFiniteSet(OwnedBytes(fs))
        /\ Cardinality(OwnedBytes(fs)) <= Cardinality(PageSize .. Word - 1)
    BY <1>2, <1>3, FS_Subset
  <1>5. Cardinality(OwnedBytes(fs)) \in Nat
    BY <1>4, FS_CardinalityType
  <1>6. fs = {} => Cardinality(OwnedBytes(fs)) = 0
    <2>1. fs = {} => OwnedBytes(fs) = {}
      BY DEF OwnedBytes, Owned
    <2> QED BY <2>1, FS_EmptySet
  <1>7. fs # {} => Cardinality(OwnedBytes(fs)) + PageSize <= Word
    <2> SUFFICES ASSUME fs # {} PROVE Cardinality(OwnedBytes(fs)) + PageSize <= Word
      OBVIOUS
    <2>1. PICK f : f \in fs
      OBVIOUS
    <2>2. f * PageSize \in Nat /\ PageSize <= f * PageSize /\ f * PageSize + PageSize <= Word
      BY <2>1, FrameEnds
    <2>3. PageSize + PageSize <= Word
      BY <1>1, <2>2
    <2>4. Cardinality(PageSize .. Word - 1) = Word - PageSize
      BY <1>1, <1>3, <2>3
    <2> QED BY <1>1, <1>4, <1>5, <2>4
  <1>8. fs # {} => Cardinality(OwnedBytes(fs)) < Word
    BY <1>1, <1>5, <1>7
  <1> QED BY <1>4, <1>5, <1>6, <1>7, <1>8

LEMMA PayloadFinite ==
    ASSUME NEW l, NEW h, NEW fs, fs \subseteq 1 .. FrameLimit - 1, Tiles(l, h, fs),
           NEW V, V \subseteq Range(l)
    PROVE  /\ IsFiniteSet(PayloadOf(V, h)) /\ Cardinality(PayloadOf(V, h)) \in Nat
           /\ PayloadOf(V, h) \subseteq OwnedBytes(fs)
           /\ Cardinality(PayloadOf(V, h)) <= Cardinality(OwnedBytes(fs))
  <1>1. PayloadOf(V, h) \subseteq OwnedBytes(fs)
    <2> SUFFICES ASSUME NEW x \in Nat, NEW b \in V, b + 24 <= x, x < End(h, b)
                 PROVE  Owned(fs, x)
      BY DEF PayloadOf, OwnedBytes
    <2>1. PICK i \in 1 .. Len(l) : l[i] = b /\ b \in Nat
      BY RangeIs DEF Tiles, Sound
    <2>2. b <= x
      BY <2>1
    <2> QED BY <2>1, <2>2, BlockOwned
  <1>2. IsFiniteSet(OwnedBytes(fs))
    BY OwnedFinite
  <1> QED BY <1>1, <1>2, FS_Subset, FS_CardinalityType

\* The payload of one block more.
Adds(V, b, h) ==
    /\ h[b].size \in Nat
    /\ Cardinality(PayloadOf(V \cup {b}, h)) = Cardinality(PayloadOf(V, h)) + h[b].size

LEMMA PayloadMore ==
    ASSUME NEW l, NEW h, NEW fs, fs \subseteq 1 .. FrameLimit - 1, Tiles(l, h, fs),
           NEW V, V \subseteq Range(l), NEW b \in Range(l), b \notin V
    PROVE  Adds(V, b, h)
  <1>1. Sound(l, h) /\ l \in Seq(Nat)
    BY DEF Tiles, Sound
  <1>2. PICK i \in 1 .. Len(l) : l[i] = b
    BY <1>1, RangeIs
  <1>3. PICK z \in Nat : b \in Nat /\ z = h[b].size /\ End(h, b) = b + 24 + z
    BY <1>1, <1>2, BlockIs
  <1>4. PICK lo \in Nat, hi \in Int : lo = b + 24 /\ hi = b + 24 + z - 1 /\ hi - lo + 1 = z
    <2>1. PICK y \in Nat : y = b
      BY <1>3
    <2>2. y + 24 \in Nat /\ y + 24 + z - 1 \in Int /\ (y + 24 + z - 1) - (y + 24) + 1 = z
      OBVIOUS
    <2> QED BY <2>1, <2>2
  <1>5. PayloadOf({b}, h) = lo .. hi
    <2>1. \A x : x \in lo .. hi <=> x \in Nat /\ lo <= x /\ x < b + 24 + z
      <3>1. PICK y \in Nat : y = b
        BY <1>3
      <3>2. lo = y + 24 /\ hi = y + 24 + z - 1
        BY <1>4, <3>1
      <3>3. \A x : x \in (y + 24) .. (y + 24 + z - 1) <=> x \in Nat /\ y + 24 <= x /\ x < y + 24 + z
        OBVIOUS
      <3> QED BY <3>1, <3>2, <3>3
    <2>2. \A x : x \in PayloadOf({b}, h) <=> x \in Nat /\ b + 24 <= x /\ x < End(h, b)
      BY Zenon DEF PayloadOf
    <2>3. \A x : x \in PayloadOf({b}, h) <=> x \in lo .. hi
      BY <1>3, <1>4, <2>1, <2>2, Zenon
    <2> QED BY <2>3
  <1>6. IsFiniteSet(lo .. hi) /\ Cardinality(lo .. hi) = z
    <2>1. IsFiniteSet(lo .. hi) /\ Cardinality(lo .. hi) = IF lo > hi THEN 0 ELSE hi - lo + 1
      BY FS_Interval
    <2> QED BY <1>4, <2>1
  <1>7. PayloadOf(V \cup {b}, h) = PayloadOf(V, h) \cup PayloadOf({b}, h)
    BY DEF PayloadOf
  <1>8. PayloadOf(V, h) \cap PayloadOf({b}, h) = {}
    <2> SUFFICES ASSUME NEW x \in Nat, NEW c \in V, c + 24 <= x, x < End(h, c),
                        b + 24 <= x, x < End(h, b)
                 PROVE  FALSE
      BY DEF PayloadOf
    <2>1. PICK j \in 1 .. Len(l) : l[j] = c
      BY <1>1, RangeIs
    <2>2. c \in Nat /\ End(h, c) \in Nat /\ End(h, b) \in Nat /\ b \in Nat
      BY <1>1, <1>2, <2>1, BlockIs
    <2>3. i # j
      BY <1>2, <2>1
    <2>4. End(h, b) <= c \/ End(h, c) <= b
      <3>1. i < j \/ j < i
        BY <2>3
      <3>2. i < j => End(h, l[i]) <= l[j]
        BY <1>1 DEF Sound
      <3>3. j < i => End(h, l[j]) <= l[i]
        BY <1>1 DEF Sound
      <3> QED BY <1>2, <2>1, <3>1, <3>2, <3>3
    <2> QED BY <2>2, <2>4
  <1>9. IsFiniteSet(PayloadOf(V, h)) /\ Cardinality(PayloadOf(V, h)) \in Nat
    BY PayloadFinite
  <1>10. Cardinality(PayloadOf(V, h) \cup PayloadOf({b}, h))
           = Cardinality(PayloadOf(V, h)) + Cardinality(PayloadOf({b}, h))
             - Cardinality(PayloadOf(V, h) \cap PayloadOf({b}, h))
    BY <1>5, <1>6, <1>9, FS_Union
  <1>11. Cardinality({}) = 0
    BY FS_EmptySet
  <1>12. PICK u \in Nat : u = Cardinality(PayloadOf(V, h))
    BY <1>9
  <1>13. Cardinality(PayloadOf(V \cup {b}, h)) = u + z - 0
    BY <1>5, <1>6, <1>7, <1>8, <1>10, <1>11, <1>12
  <1> QED BY <1>3, <1>12, <1>13 DEF Adds
-----------------------------------------------------------------------------
(* The ends of kmalloc and kfree.                                          *)

\* What the heap is, but for the total.
Good(l, h, fs, lv, used) ==
    /\ Tiles(l, h, fs) /\ DOMAIN h = Range(l) /\ LiveOK(l, h, lv)
    /\ used = Cardinality(PayloadOf(Busy(l, h), h))

LEMMA BusyListed ==
    ASSUME NEW l \in Seq(Nat), NEW h
    PROVE  Busy(l, h) \subseteq Range(l)
  BY RangeIs DEF Busy

LEMMA SameUsePayload ==
    ASSUME NEW l, NEW h, NEW k, NEW g, SameUse(l, h, k, g)
    PROVE  PayloadOf(Busy(k, g), g) = PayloadOf(Busy(l, h), h)
  BY DEF SameUse, PayloadOf, End

\* Callers do not notice a change of the blocks that are free.
LEMMA SameUseLive ==
    ASSUME NEW l, NEW h, NEW k, NEW g, SameUse(l, h, k, g), NEW lv, LiveOK(l, h, lv)
    PROVE  LiveOK(k, g, lv)
  BY DEF SameUse, LiveOK

\* No byte is counted twice, and there are fewer than Word of them.
LEMMA ChargeIs ==
    ASSUME NEW l, NEW h, NEW fs, fs \subseteq 1 .. FrameLimit - 1, Tiles(l, h, fs),
           NEW V, V \subseteq Range(l), NEW b \in Range(l), b \notin V
    PROVE  (Cardinality(PayloadOf(V, h)) + h[b].size) % Word = Cardinality(PayloadOf(V \cup {b}, h))
  <1>1. PICK c \in Nat : c = Cardinality(PayloadOf(V \cup {b}, h)) /\ c < Word
    <2>1. V \cup {b} \subseteq Range(l)
      OBVIOUS
    <2>2. /\ Cardinality(PayloadOf(V \cup {b}, h)) \in Nat
          /\ Cardinality(PayloadOf(V \cup {b}, h)) <= Cardinality(OwnedBytes(fs))
      BY <2>1, PayloadFinite
    <2>3. fs # {}
      <3>1. PICK i \in 1 .. Len(l) : l[i] = b
        BY RangeIs DEF Tiles, Sound
      <3> QED BY <3>1, BlockOwned DEF Owned
    <2>4. Cardinality(OwnedBytes(fs)) \in Nat /\ Cardinality(OwnedBytes(fs)) < Word /\ Word \in Nat
      BY <2>3, OwnedFinite, SpaceIs
    <2> QED BY <2>2, <2>4
  <1>2. Cardinality(PayloadOf(V, h)) + h[b].size = c
    <2>1. Adds(V, b, h)
      BY PayloadMore
    <2> QED BY <1>1, <2>1 DEF Adds
  <1>3. c % Word = c
    BY <1>1, SpaceIs
  <1> QED BY <1>1, <1>2, <1>3

LEMMA CutOf ==
    ASSUME NEW l, NEW h, NEW fs, NEW i, NEW b, NEW n, CanCut(l, h, fs, i, b, n)
    PROVE  IsCut(l, h, fs, i, b, n, heap_split_block(Mem(l, h), b, n).list,
                 heap_split_block(Mem(l, h), b, n).hdr)
  <1>1. PICK k, t : /\ k = heap_split_block(Mem(l, h), b, n).list
                    /\ t = heap_split_block(Mem(l, h), b, n).hdr
    OBVIOUS
  <1>2. /\ Tiles(l, h, fs) /\ i \in 1 .. Len(l) /\ b \in Nat /\ b = l[i]
        /\ n \in Nat /\ align_up(n) = n /\ n + 56 < Word /\ n <= h[b].size
    BY DEF CanCut
  <1>3. IsCut(l, h, fs, i, b, n, k, t)
    BY <1>1, <1>2, SplitIs
  <1> QED BY <1>1, <1>3

\* The blocks in use after a split and a mark.
IsTaken(l, h, fs, b, k, w) ==
    /\ Tiles(k, w, fs) /\ Busy(k, w) = Busy(l, h) \cup {b}
    /\ b \notin Busy(l, h) /\ \A c \in Busy(l, h) : w[c] = h[c]
    /\ b \in Range(k)

LEMMA TakenBusy ==
    ASSUME NEW l, NEW h, NEW fs, NEW i, NEW b, NEW n, CanCut(l, h, fs, i, b, n), h[b].free,
           NEW k, NEW t, IsCut(l, h, fs, i, b, n, k, t), NEW w, Marked(w, t, b, FALSE)
    PROVE  IsTaken(l, h, fs, b, k, w)
  <1>0. Tiles(l, h, fs) /\ i \in 1 .. Len(l) /\ b \in Nat /\ b = l[i]
    BY DEF CanCut
  <1>1. /\ Tiles(k, t, fs)
        /\ \A j \in 1 .. Len(l) : /\ \E q \in 1 .. Len(k) : k[q] = l[j]
                                  /\ j # i => t[l[j]] = h[l[j]]
        /\ \/ k = l /\ t = h
           \/ Inserted(k, l, i + 1, End(t, b)) /\ t[End(t, b)].free
    BY DEF IsCut
  <1>2. Sound(l, h) /\ Sound(k, t) /\ k \in Seq(Nat) /\ l \in Seq(Nat)
    BY <1>0, <1>1 DEF Tiles, Sound
  <1>3. \A q \in 1 .. Len(k) : k[q] \in DOMAIN t /\ k[q] \in Nat
    BY <1>2, BlockIs
  <1>4. \A q \in 1 .. Len(k) : /\ k[q] \in DOMAIN w /\ End(w, k[q]) = End(t, k[q])
                               /\ k[q] # b => w[k[q]] = t[k[q]]
    BY <1>3 DEF Marked
  <1>5. Tiles(k, w, fs)
    <2>1. w \in [DOMAIN w -> Header]
      BY DEF Marked
    <2>2. \A q \in 1 .. Len(k) : k[q] \in DOMAIN w /\ End(w, k[q]) = End(t, k[q])
      BY <1>4
    <2> QED BY <1>1, <2>1, <2>2, SameEnds
  <1>6. b \notin Busy(l, h)
    BY DEF Busy
  <1>7. ASSUME NEW c \in Busy(l, h) PROVE c \in Busy(k, w) /\ w[c] = h[c]
    <2>1. PICK j \in 1 .. Len(l) : l[j] = c /\ ~h[c].free /\ c \in Nat
      BY DEF Busy
    <2>2. j # i
      BY <1>0, <2>1
    <2>3. PICK q \in 1 .. Len(k) : k[q] = c /\ t[c] = h[c]
      BY <1>1, <2>1, <2>2
    <2>4. c # b
      BY <1>6
    <2>5. w[c] = h[c]
      BY <1>4, <2>3, <2>4
    <2> QED BY <2>1, <2>3, <2>5 DEF Busy
  <1>8. b \in Busy(k, w)
    <2>1. ~w[b].free
      BY DEF Marked
    <2> QED BY <1>0, <1>1, <2>1 DEF Busy
  <1>9. ASSUME NEW c \in Busy(k, w), c # b PROVE c \in Busy(l, h)
    <2>1. PICK q \in 1 .. Len(k) : k[q] = c /\ ~w[c].free /\ c \in Nat
      BY DEF Busy
    <2>2. ~t[c].free
      BY <1>4, <1>9, <2>1
    <2>3. CASE k = l /\ t = h
      BY <2>1, <2>2, <2>3 DEF Busy
    <2>4. CASE Inserted(k, l, i + 1, End(t, b)) /\ t[End(t, b)].free
      <3>1. k[q] # End(t, b)
        BY <2>1, <2>2, <2>4
      <3>2. PICK j \in 1 .. Len(l) : k[q] = l[j]
        BY <2>4, <3>1, InsertedPlaces
      <3>3. j # i
        BY <1>0, <1>9, <2>1, <3>2
      <3>4. h[c] = t[c]
        BY <1>1, <2>1, <3>2, <3>3
      <3> QED BY <2>1, <2>2, <3>2, <3>4 DEF Busy
    <2> QED BY <1>1, <2>3, <2>4
  <1>10. b \in Range(k)
    BY <1>2, <1>8, BusyListed
  <1> QED BY <1>5, <1>6, <1>7, <1>8, <1>9, <1>10 DEF IsTaken

\* Block b of a list that was cut is handed out: what becomes of the heap.
IsTook(l, h, fs, b, t, k, g, lv2) ==
    /\ Good(k, g, fs, lv2, (Cardinality(PayloadOf(Busy(l, h), h)) + t[b].size) % Word)
    /\ \A q \in 1 .. Len(k) : g[k[q]].size = t[k[q]].size /\ (k[q] # b => g[k[q]] = t[k[q]])
    /\ Busy(k, g) = Busy(l, h) \cup {b}

\* The end of kmalloc, on a free block of the list that is large enough.
LEMMA TakeIs ==
    ASSUME NEW l, NEW h, NEW fs, fs \subseteq 1 .. FrameLimit - 1, NEW lv, LiveOK(l, h, lv),
           NEW i, NEW b, NEW n, CanCut(l, h, fs, i, b, n), h[b].free,
           NEW asked \in Nat, asked <= n,
           NEW k, NEW t, IsCut(l, h, fs, i, b, n, k, t),
           NEW lv2, lv2 = lv \cup {[ptr |-> b + HeaderSize, asked |-> asked]},
           NEW g, g = Readable([t EXCEPT ![b].free = FALSE], k, lv2)
    PROVE  IsTook(l, h, fs, b, t, k, g, lv2)
  <1>0. i \in 1 .. Len(l) /\ b \in Nat /\ b = l[i] /\ n \in Nat
    BY DEF CanCut
  <1>1. /\ Tiles(k, t, fs) /\ n <= t[b].size
        /\ \A j \in 1 .. Len(l) : \E q \in 1 .. Len(k) : k[q] = l[j]
    BY DEF IsCut
  <1>2. Sound(k, t) /\ k \in Seq(Nat) /\ t \in [DOMAIN t -> Header] /\ b \in DOMAIN t
    <2>1. Sound(k, t)
      BY <1>1 DEF Tiles
    <2>2. PICK q \in 1 .. Len(k) : k[q] = b
      BY <1>0, <1>1
    <2> QED BY <2>1, <2>2 DEF Sound
  <1>3. PICK w : w = [t EXCEPT ![b].free = FALSE] /\ Marked(w, t, b, FALSE)
    <2>1. FALSE \in BOOLEAN
      OBVIOUS
    <2> QED BY <1>2, <2>1, MarkIs, Zenon
  <1>4. /\ Tiles(k, w, fs) /\ Busy(k, w) = Busy(l, h) \cup {b}
        /\ b \notin Busy(l, h) /\ \A c \in Busy(l, h) : w[c] = h[c]
        /\ b \in Range(k)
    <2>1. IsTaken(l, h, fs, b, k, w)
      BY <1>3, TakenBusy
    <2> QED BY <2>1 DEF IsTaken
  <1>5. PICK new : /\ new = [ptr |-> b + HeaderSize, asked |-> asked]
                   /\ new.ptr = b + 24 /\ new.ptr - 24 = b /\ new.asked = asked
    <2>1. PICK new : new = [ptr |-> b + HeaderSize, asked |-> asked]
      OBVIOUS
    <2>2. new.ptr = b + 24 /\ new.asked = asked
      BY <2>1 DEF HeaderSize
    <2>3. (b + 24) - 24 = b
      BY <1>0
    <2> QED BY <2>1, <2>2, <2>3
  <1>6. w[b].size = t[b].size
    BY <1>3 DEF Marked
  <1>7. LiveOK(k, w, lv2)
    <2>1. \A a \in lv2 : a \in lv \/ a = new
      BY <1>5
    <2>2. ASSUME NEW a \in lv2
          PROVE  /\ a.ptr \in Nat /\ a.ptr - 24 \in Busy(k, w)
                 /\ a.asked \in Nat /\ a.asked <= w[a.ptr - 24].size
      <3>1. CASE a \in lv
        BY <1>4, <3>1 DEF LiveOK
      <3>2. CASE a = new
        <4>1. t[b].size \in Nat
          BY <1>2 DEF Header
        <4>2. asked <= w[b].size
          BY <1>0, <1>1, <1>6, <4>1
        <4>3. b + 24 \in Nat
          BY <1>0
        <4> QED BY <1>4, <1>5, <3>2, <4>2, <4>3
      <3> QED BY <2>1, <3>1, <3>2
    <2>3. ASSUME NEW c \in Busy(k, w) PROVE \E a \in lv2 : a.ptr = c + 24
      <3>1. CASE c = b
        BY <1>5, <3>1
      <3>2. CASE c \in Busy(l, h)
        BY <3>2 DEF LiveOK
      <3> QED BY <1>4, <3>1, <3>2
    <2>4. \A a \in lv : a.ptr # new.ptr
      <3> SUFFICES ASSUME NEW a \in lv, a.ptr = new.ptr PROVE FALSE
        OBVIOUS
      <3>1. b \in Busy(l, h)
        BY <1>5 DEF LiveOK
      <3> QED BY <1>4, <3>1
    <2>5. ASSUME NEW a1 \in lv2, NEW a2 \in lv2, a1.ptr = a2.ptr PROVE a1 = a2
      BY <2>1, <2>4, <2>5 DEF LiveOK
    <2> QED BY <2>2, <2>3, <2>5 DEF LiveOK
  <1>8. /\ Tiles(k, g, fs) /\ SameUse(k, w, k, g) /\ LiveOK(k, g, lv2)
        /\ DOMAIN g = Range(k) /\ \A q \in 1 .. Len(k) : g[k[q]] = w[k[q]]
    <2>1. g = Readable(w, k, lv2)
      BY <1>3
    <2>2. IsRead(k, w, fs, lv2, g)
      BY <1>2, <1>4, <1>7, <2>1, ReadableIs
    <2> QED BY <2>2 DEF IsRead
  <1>9. Busy(k, g) = Busy(l, h) \cup {b}
    BY <1>4, <1>8 DEF SameUse
  <1>10. g[b].size = t[b].size
    <2>1. g[b] = w[b]
      BY <1>4, <1>8 DEF SameUse
    <2> QED BY <1>6, <2>1
  <1>11. PayloadOf(Busy(l, h), g) = PayloadOf(Busy(l, h), h)
    <2>1. \A c \in Busy(k, w) : g[c] = w[c]
      BY <1>8 DEF SameUse
    <2>2. \A c \in Busy(l, h) : c \in Busy(k, w) /\ w[c] = h[c]
      BY <1>4
    <2>3. \A c \in Busy(l, h) : g[c] = h[c]
      BY <2>1, <2>2
    <2> QED BY <2>3 DEF PayloadOf, End
  <1>12. (Cardinality(PayloadOf(Busy(l, h), h)) + t[b].size) % Word = Cardinality(PayloadOf(Busy(k, g), g))
    <2>1. Busy(l, h) \subseteq Range(k)
      BY <1>2, <1>9, BusyListed
    <2>2. (Cardinality(PayloadOf(Busy(l, h), g)) + g[b].size) % Word
            = Cardinality(PayloadOf(Busy(l, h) \cup {b}, g))
      <3>1. Tiles(k, g, fs) /\ b \in Range(k) /\ b \notin Busy(l, h)
        BY <1>4, <1>8
      <3> QED BY <2>1, <3>1, ChargeIs
    <2> QED BY <1>9, <1>10, <1>11, <2>2
  <1>13. \A q \in 1 .. Len(k) : g[k[q]].size = t[k[q]].size /\ (k[q] # b => g[k[q]] = t[k[q]])
    <2> TAKE q \in 1 .. Len(k)
    <2>1. k[q] \in DOMAIN t
      BY <1>2 DEF Sound
    <2>2. k[q] # b => w[k[q]] = t[k[q]]
      BY <1>3, <2>1 DEF Marked
    <2> QED BY <1>6, <1>8, <2>2
  <1> QED BY <1>8, <1>9, <1>12, <1>13 DEF Good, IsTook

\* The bytes left in use when block b of them is given back.
LEMMA UnchargeIs ==
    ASSUME NEW l, NEW h, NEW fs, fs \subseteq 1 .. FrameLimit - 1, Tiles(l, h, fs),
           NEW V, V \subseteq Range(l), NEW b \in V
    PROVE  (Cardinality(PayloadOf(V, h)) - h[b].size) % Word = Cardinality(PayloadOf(V \ {b}, h))
  <1> DEFINE W == V \ {b}
  <1>1. W \subseteq Range(l) /\ b \in Range(l) /\ b \notin W /\ W \cup {b} = V
    OBVIOUS
  <1> HIDE DEF W
  <1>2. Adds(W, b, h)
    BY <1>1, PayloadMore
  <1>3. PICK c \in Nat : c = Cardinality(PayloadOf(W, h)) /\ c < Word
    <2>1. Cardinality(PayloadOf(W, h)) \in Nat /\ Cardinality(PayloadOf(W, h)) <= Cardinality(OwnedBytes(fs))
      BY <1>1, PayloadFinite
    <2>2. fs # {}
      <3>1. PICK i \in 1 .. Len(l) : l[i] = b
        BY <1>1, RangeIs DEF Tiles, Sound
      <3> QED BY <3>1, BlockOwned DEF Owned
    <2>3. Cardinality(OwnedBytes(fs)) \in Nat /\ Cardinality(OwnedBytes(fs)) < Word /\ Word \in Nat
      BY <2>2, OwnedFinite, SpaceIs
    <2> QED BY <2>1, <2>3
  <1>4. PICK z \in Nat : z = h[b].size /\ Cardinality(PayloadOf(V, h)) = c + z
    BY <1>1, <1>2, <1>3 DEF Adds
  <1>5. (c + z) - z = c /\ c % Word = c
    BY <1>3, SpaceIs
  <1> QED BY <1>3, <1>4, <1>5 DEF W

\* The block of a caller's pointer is marked free.
IsFreed(l, h, fs, b, lv, w) ==
    /\ Tiles(l, w, fs) /\ Busy(l, w) = Busy(l, h) \ {b}
    /\ \A c \in Busy(l, w) : w[c] = h[c]
    /\ LiveOK(l, w, lv)

LEMMA FreedIs ==
    ASSUME NEW l, NEW h, NEW fs, Tiles(l, h, fs), NEW lv, LiveOK(l, h, lv),
           NEW a \in lv, NEW b, b = a.ptr - 24, NEW w, Marked(w, h, b, TRUE)
    PROVE  IsFreed(l, h, fs, b, lv \ {a}, w)
  <1>1. /\ Sound(l, h) /\ l \in Seq(Nat) /\ b \in Nat /\ a.ptr \in Nat /\ b + 24 = a.ptr
    BY DEF Tiles, Sound, LiveOK, Busy
  <1>2. Tiles(l, w, fs)
    <2>1. w \in [DOMAIN w -> Header]
      BY DEF Marked
    <2>2. \A i \in 1 .. Len(l) : l[i] \in DOMAIN w /\ End(w, l[i]) = End(h, l[i])
      BY <1>1 DEF Marked, Sound
    <2> QED BY <2>1, <2>2, SameEnds
  <1>3. \A i \in 1 .. Len(l) : l[i] # b => w[l[i]] = h[l[i]]
    BY <1>1 DEF Marked, Sound
  <1>4. w[b].free
    BY DEF Marked
  <1>5. Busy(l, w) = Busy(l, h) \ {b} /\ \A c \in Busy(l, w) : w[c] = h[c]
    BY <1>3, <1>4 DEF Busy
  <1>6. LiveOK(l, w, lv \ {a})
    <2>1. ASSUME NEW d \in lv \ {a}
          PROVE  /\ d.ptr \in Nat /\ d.ptr - 24 \in Busy(l, w)
                 /\ d.asked \in Nat /\ d.asked <= w[d.ptr - 24].size
      <3>1. /\ d.ptr \in Nat /\ d.ptr - 24 \in Busy(l, h) /\ d.ptr # a.ptr
            /\ d.asked \in Nat /\ d.asked <= h[d.ptr - 24].size
        BY DEF LiveOK
      <3>2. d.ptr - 24 # b
        BY <1>1, <3>1
      <3> QED BY <1>5, <3>1, <3>2
    <2>2. ASSUME NEW c \in Busy(l, w) PROVE \E d \in lv \ {a} : d.ptr = c + 24
      <3>1. c \in Busy(l, h) /\ c # b /\ c \in Nat
        BY <1>5 DEF Busy
      <3>2. PICK d \in lv : d.ptr = c + 24
        BY <3>1 DEF LiveOK
      <3>3. d # a
        BY <1>1, <3>1, <3>2
      <3> QED BY <3>2, <3>3
    <2>3. \A d1, d2 \in lv \ {a} : d1.ptr = d2.ptr => d1 = d2
      BY DEF LiveOK
    <2> QED BY <2>1, <2>2, <2>3 DEF LiveOK
  <1> QED BY <1>2, <1>5, <1>6 DEF IsFreed

\* kfree of a pointer that a caller holds: headers w with the block marked,
\* list k and headers t merged, and headers g read.
IsReturned(l, h, fs, lv, used, a, b, w, k, t, g) ==
    /\ Good(k, g, fs, lv \ {a}, (used - h[b].size) % Word)
    /\ ~h[b].free /\ b \in Busy(l, h) /\ Marked(w, h, b, TRUE) /\ Tiles(l, w, fs)
    /\ IsMerged(l, w, fs, k, t) /\ IsRead(k, t, fs, lv \ {a}, g)
    /\ Busy(k, g) = Busy(l, h) \ {b}

LEMMA FreeIs ==
    ASSUME NEW l, NEW h, NEW fs, fs \subseteq 1 .. FrameLimit - 1, NEW lv, NEW used,
           Good(l, h, fs, lv, used), NEW a \in lv, NEW b, b = a.ptr - HeaderSize,
           NEW w, w = [h EXCEPT ![b].free = TRUE],
           NEW k, NEW t, k = heap_coalesce(Mem(l, w)).list, t = heap_coalesce(Mem(l, w)).hdr,
           NEW g, g = Readable(t, k, lv \ {a})
    PROVE  IsReturned(l, h, fs, lv, used, a, b, w, k, t, g)
  <1>1. /\ Tiles(l, h, fs) /\ DOMAIN h = Range(l) /\ LiveOK(l, h, lv)
        /\ used = Cardinality(PayloadOf(Busy(l, h), h))
    BY DEF Good
  <1>2. l \in Seq(Nat) /\ h \in [DOMAIN h -> Header]
    BY <1>1 DEF Tiles, Sound
  <1>3. b = a.ptr - 24 /\ b \in Busy(l, h) /\ ~h[b].free
    BY <1>1 DEF LiveOK, HeaderSize, Busy
  <1>4. Busy(l, h) \subseteq Range(l)
    BY <1>2, BusyListed
  <1>5. Marked(w, h, b, TRUE)
    <2>1. TRUE \in BOOLEAN /\ b \in DOMAIN h
      BY <1>1, <1>3, <1>4
    <2> QED BY <1>2, <2>1, MarkIs, Zenon
  <1>6. IsFreed(l, h, fs, b, lv \ {a}, w)
    BY <1>1, <1>3, <1>5, FreedIs
  <1>7. /\ Tiles(l, w, fs) /\ Busy(l, w) = Busy(l, h) \ {b} /\ LiveOK(l, w, lv \ {a})
        /\ \A c \in Busy(l, w) : w[c] = h[c]
    BY <1>6 DEF IsFreed
  <1>8. IsMerged(l, w, fs, k, t)
    BY <1>7, CoalesceTiles
  <1>9. Tiles(k, t, fs) /\ SameUse(l, w, k, t) /\ k \in Seq(Nat)
    BY <1>8 DEF IsMerged, Tiles, Sound
  <1>10. LiveOK(k, t, lv \ {a})
    BY <1>7, <1>9, SameUseLive
  <1>11. IsRead(k, t, fs, lv \ {a}, g)
    BY <1>9, <1>10, ReadableIs
  <1>12. Tiles(k, g, fs) /\ SameUse(k, t, k, g) /\ LiveOK(k, g, lv \ {a}) /\ DOMAIN g = Range(k)
    BY <1>11 DEF IsRead
  <1>13. Busy(k, g) = Busy(l, h) \ {b}
    BY <1>7, <1>9, <1>12 DEF SameUse
  <1>14. PayloadOf(Busy(k, g), g) = PayloadOf(Busy(l, h) \ {b}, h)
    <2>1. PayloadOf(Busy(k, g), g) = PayloadOf(Busy(l, w), w)
      BY <1>9, <1>12, SameUsePayload
    <2>2. PayloadOf(Busy(l, w), w) = PayloadOf(Busy(l, w), h)
      BY <1>7 DEF PayloadOf, End
    <2> QED BY <1>7, <2>1, <2>2
  <1>15. (used - h[b].size) % Word = Cardinality(PayloadOf(Busy(l, h) \ {b}, h))
    BY <1>1, <1>3, <1>4, UnchargeIs
  <1>16. Good(k, g, fs, lv \ {a}, (used - h[b].size) % Word)
    BY <1>12, <1>14, <1>15 DEF Good
  <1> QED BY <1>3, <1>5, <1>7, <1>8, <1>11, <1>13, <1>16 DEF IsReturned

\* heap_expand: the list and the headers with the new region.
IsExpanded(l, h, fs, region, size, k, g) ==
    /\ Tiles(k, g, fs) /\ SameUse(l, h, k, g)
    /\ \A q \in 1 .. Len(k) : k[q] = region => g[region].free /\ size <= g[region].size

LEMMA ExpandIs ==
    ASSUME NEW l, NEW h, NEW fs, fs \subseteq 1 .. FrameLimit - 1, Tiles(l, h, fs),
           NEW s \in Nat, NEW n \in Nat, n > 0, RunOf(s, n) \subseteq 1 .. FrameLimit - 1,
           \A f \in fs : f \notin RunOf(s, n),
           NEW b \in Nat, b = s * PageSize, NEW size \in Nat, size = n * PageSize - 24,
           NEW g, Written(g, h, b, size, TRUE),
           NEW k, NEW p, Inserted(k, l, p, b),
           \A i \in 1 .. Len(l) : i < p => l[i] < b,
           p \in 1 .. Len(l) => b <= l[p],
           NEW kk, NEW gg, IsMerged(k, g, fs \cup RunOf(s, n), kk, gg)
    PROVE  IsExpanded(l, h, fs \cup RunOf(s, n), b, size, kk, gg)
  <1>1. fs \subseteq Nat
    OBVIOUS
  <1>2. Tiles(k, g, fs \cup RunOf(s, n)) /\ \A i \in 1 .. Len(l) : l[i] # b
    BY <1>1, RegionTiles
  <1>3. /\ Tiles(kk, gg, fs \cup RunOf(s, n)) /\ SameUse(k, g, kk, gg)
        /\ Walked(k, g, Len(k), kk, gg)
        /\ \A i \in 1 .. Len(kk), j \in 1 .. Len(k) : kk[i] = k[j] => End(g, k[j]) <= End(gg, kk[i])
    BY DEF IsMerged
  <1>4. g[b].free /\ g[b].size = size /\ End(g, b) = b + 24 + size
    BY DEF Written
  <1>5. \A i \in 1 .. Len(l) : g[l[i]] = h[l[i]]
    BY <1>2 DEF Written, Tiles, Sound
  <1>6. SameUse(l, h, k, g)
    <2>1. ASSUME NEW c \in Busy(l, h) PROVE c \in Busy(k, g) /\ g[c] = h[c]
      <3>1. PICK i \in 1 .. Len(l) : l[i] = c /\ ~h[c].free /\ c \in Nat
        BY DEF Busy
      <3>2. \E j \in 1 .. Len(k) : k[j] = c
        BY <3>1, InsertedKeeps
      <3> QED BY <1>5, <3>1, <3>2 DEF Busy
    <2>2. ASSUME NEW c \in Busy(k, g) PROVE c \in Busy(l, h)
      <3>1. PICK j \in 1 .. Len(k) : k[j] = c /\ ~g[c].free /\ c \in Nat
        BY DEF Busy
      <3>2. c # b
        BY <1>4, <3>1
      <3>3. PICK i \in 1 .. Len(l) : l[i] = c
        <4>1. \/ j = p /\ k[j] = b
              \/ j < p /\ j \in 1 .. Len(l) /\ k[j] = l[j]
              \/ p < j /\ j - 1 \in 1 .. Len(l) /\ p <= j - 1 /\ k[j] = l[j - 1]
          BY InsertedPlaces
        <4> QED BY <3>1, <3>2, <4>1, Zenon
      <3> QED BY <1>5, <3>1, <3>3 DEF Busy
    <2> QED BY <2>1, <2>2 DEF SameUse
  <1>7. SameUse(l, h, kk, gg)
    BY <1>3, <1>6 DEF SameUse
  <1>8. ASSUME NEW q \in 1 .. Len(kk), kk[q] = b PROVE gg[b].free /\ size <= gg[b].size
    <2>1. p \in 1 .. Len(k) /\ k[p] = b
      BY InsertedKeeps
    <2>2. gg[b].free
      <3> SUFFICES ASSUME ~gg[b].free PROVE FALSE
        OBVIOUS
      <3>1. gg[b] = g[b]
        BY <1>3, <1>8 DEF Walked
      <3> QED BY <1>4, <3>1
    <2>3. b + 24 + size <= End(gg, b)
      BY <1>3, <1>4, <1>8, <2>1
    <2>4. gg[b].size \in Nat /\ End(gg, b) = b + 24 + gg[b].size
      BY <1>3, <1>8, BlockIs DEF Tiles
    <2>5. PICK z \in Nat : z = gg[b].size /\ b + 24 + size <= b + 24 + z
      BY <2>3, <2>4
    <2>6. size <= z
      BY <2>5
    <2> QED BY <2>2, <2>5, <2>6
  <1> QED BY <1>3, <1>7, <1>8 DEF IsExpanded

\* Splitting a block that is not in the list leaves the list alone.
LEMMA SplitOutside ==
    ASSUME NEW l, NEW h, NEW b, NEW n, \A i \in 1 .. Len(l) : l[i] # b
    PROVE  heap_split_block(Mem(l, h), b, n).list = l
  <1>1. SelectInSeq(l, LAMBDA c : c = b) = 0
    BY DEF SelectInSeq
  <1>2. Mem(l, h).list = l
    BY MemIs
  <1> QED BY <1>1, <1>2 DEF heap_split_block, Mem
-----------------------------------------------------------------------------
(* The sizes kmalloc computes.                                             *)

LEMMA DivIs ==
    ASSUME NEW x \in Nat
    PROVE  /\ x \div PageSize \in Nat
           /\ (x \div PageSize) * PageSize <= x /\ x < (x \div PageSize) * PageSize + PageSize
  <1>1. PageSize \in Nat /\ PageSize > 0
    BY SpaceIs
  <1> QED BY <1>1

\* A request whose size does not wrap: the payload it takes, and the frames
\* that hold it together with a header.
LEMMA RequestIs ==
    ASSUME NEW n \in Nat, n + 2 * PageSize <= Word
    PROVE  /\ align_up(n) \in Nat /\ n <= align_up(n) /\ align_up(align_up(n)) = align_up(n)
           /\ align_up(n) % 16 = 0 /\ align_up(n) + 56 < Word
           /\ Pages(align_up(n)) \in Nat /\ Pages(align_up(n)) > 0
           /\ align_up(n) + 32 <= Pages(align_up(n)) * PageSize
  <1>1. Word \in Nat /\ PageSize \in Nat /\ PageSize >= 64
    BY SpaceIs
  <1>2. PICK v \in Nat : v = align_up(n) /\ n <= v /\ v <= n + 15 /\ v % 16 = 0
    <2>1. n + 15 < Word
      BY <1>1
    <2> QED BY <2>1, AlignIs
  <1>3. v + 15 < Word /\ v + 56 < Word /\ v + 24 + 15 < Word /\ v + 32 + PageSize - 1 < Word
    BY <1>1, <1>2
  <1>4. align_up(v) = v
    BY <1>2, <1>3, AlignIs
  <1>5. align_up((v + HeaderSize) % Word) = v + 32
    <2>1. PICK u \in Nat : u = v + 24 /\ u + 15 < Word
      BY <1>3
    <2>2. u % Word = u /\ v + HeaderSize = u
      BY <1>1, <2>1 DEF HeaderSize
    <2>3. u % 16 = 8
      BY <1>2, <2>1
    <2>4. align_up(u) = u + 8
      BY <2>1, <2>3, AlignIs
    <2>5. u + 8 = v + 32
      BY <2>1
    <2> QED BY <2>2, <2>4, <2>5
  <1>6. PICK x \in Nat : x = v + 32 + PageSize - 1 /\ x % Word = x
    <2>1. v + 32 + PageSize - 1 \in Nat
      BY <1>1
    <2>2. PICK x \in Nat : x = v + 32 + PageSize - 1
      BY <2>1
    <2>3. x % Word = x
      BY <1>1, <1>3, <2>2
    <2> QED BY <2>2, <2>3
  <1>7. Pages(v) = x \div PageSize
    BY <1>5, <1>6 DEF Pages
  <1>8. PICK d \in Nat : d = x \div PageSize /\ x < d * PageSize + PageSize
    BY DivIs
  <1>9. d * PageSize \in Nat /\ (d = 0 => d * PageSize = 0)
    BY <1>1
  <1>10. v + 32 <= d * PageSize /\ d # 0
    BY <1>1, <1>6, <1>8, <1>9
  <1> QED BY <1>2, <1>3, <1>4, <1>7, <1>8, <1>10

\* The bytes of a region more.
MoreBytes(fs, s, n) ==
    /\ OwnedBytes(fs \cup RunOf(s, n))
         = OwnedBytes(fs) \cup (s * PageSize .. s * PageSize + n * PageSize - 1)
    /\ OwnedBytes(fs) \cap (s * PageSize .. s * PageSize + n * PageSize - 1) = {}
    /\ Cardinality(OwnedBytes(fs \cup RunOf(s, n)))
         = Cardinality(OwnedBytes(fs)) + n * PageSize

LEMMA RegionBytes ==
    ASSUME NEW fs, fs \subseteq 1 .. FrameLimit - 1, NEW s \in Nat, NEW n \in Nat, n > 0,
           \A f \in fs : f \notin RunOf(s, n)
    PROVE  MoreBytes(fs, s, n)
  <1>1. PICK lo \in Nat, z \in Nat : lo = s * PageSize /\ z = n * PageSize /\ z > 0
    <2>1. s * PageSize \in Nat /\ n * PageSize \in Nat /\ 0 * PageSize + PageSize <= n * PageSize
      BY PageIs, PagesUp
    <2>2. PageSize \in Nat /\ PageSize >= 64 /\ 0 * PageSize = 0
      BY SpaceIs
    <2> QED BY <2>1, <2>2
  <1>2. PICK hi \in Nat : hi = lo + z - 1 /\ lo <= hi /\ hi - lo + 1 = z
    BY <1>1
  <1>3. OwnedBytes(RunOf(s, n)) = lo .. hi
    <2>1. \A x \in Nat : Owned(RunOf(s, n), x) <=> lo <= x /\ x < lo + z
      BY <1>1, RunOwned
    <2>2. \A x \in Nat : x < lo + z <=> x <= hi
      BY <1>2
    <2>3. \A x \in Nat : x \in OwnedBytes(RunOf(s, n)) <=> lo <= x /\ x <= hi
      BY <2>1, <2>2 DEF OwnedBytes
    <2>4. \A x : x \in OwnedBytes(RunOf(s, n)) => x \in Nat
      BY DEF OwnedBytes
    <2>5. \A x : x \in lo .. hi <=> x \in Nat /\ lo <= x /\ x <= hi
      OBVIOUS
    <2> QED BY <2>3, <2>4, <2>5
  <1>4. OwnedBytes(fs \cup RunOf(s, n)) = OwnedBytes(fs) \cup OwnedBytes(RunOf(s, n))
    BY DEF OwnedBytes, Owned
  <1>5. OwnedBytes(fs) \cap OwnedBytes(RunOf(s, n)) = {}
    <2>1. fs \subseteq Nat /\ RunOf(s, n) \subseteq Nat
      BY DEF RunOf
    <2> QED BY <2>1, CommonFrame DEF OwnedBytes
  <1>6. IsFiniteSet(lo .. hi) /\ Cardinality(lo .. hi) = z
    BY <1>2, FS_Interval
  <1>7. PICK c \in Nat : IsFiniteSet(OwnedBytes(fs)) /\ Cardinality(OwnedBytes(fs)) = c
    BY OwnedFinite
  <1>8. Cardinality(OwnedBytes(fs) \cup (lo .. hi))
          = Cardinality(OwnedBytes(fs)) + Cardinality(lo .. hi)
            - Cardinality(OwnedBytes(fs) \cap (lo .. hi))
    BY <1>6, <1>7, FS_Union
  <1>9. OwnedBytes(fs) \cap (lo .. hi) = {} /\ Cardinality({}) = 0
    BY <1>3, <1>5, FS_EmptySet
  <1>10. Cardinality(OwnedBytes(fs) \cup (lo .. hi)) = c + z
    <2>1. Cardinality(OwnedBytes(fs) \cup (lo .. hi)) = c + z - 0
      BY <1>6, <1>7, <1>8, <1>9
    <2> QED BY <2>1
  <1> QED BY <1>1, <1>2, <1>3, <1>4, <1>7, <1>9, <1>10 DEF MoreBytes
-----------------------------------------------------------------------------
(* The steps of the heap.                                                  *)

\* The heap's part of the state: the frames it holds are the pool's, its
\* blocks tile them, its callers hold the blocks in use, and it counts right.
Core ==
    /\ use \in Uses
    /\ free \subseteq use.usable /\ held \subseteq use.usable /\ free \cap held = {}
    /\ Good(list, hdr, held, live, used_bytes)
    /\ IsFiniteSet(live)
    /\ total_bytes \in Nat /\ total_bytes <= Cardinality(OwnedBytes(held))

LEMMA CoreFrames ==
    ASSUME Core
    PROVE  /\ held \subseteq 1 .. FrameLimit - 1 /\ free \subseteq 1 .. FrameLimit - 1
           /\ Tiles(list, hdr, held) /\ Sound(list, hdr) /\ list \in Seq(Nat) /\ LiveOK(list, hdr, live)
           /\ DOMAIN hdr = Range(list) /\ used_bytes = Cardinality(PayloadOf(Busy(list, hdr), hdr))
  <1>1. held \subseteq 1 .. FrameLimit - 1 /\ free \subseteq 1 .. FrameLimit - 1
    BY UseAssumption DEF Core
  <1>2. /\ Tiles(list, hdr, held) /\ LiveOK(list, hdr, live)
        /\ DOMAIN hdr = Range(list) /\ used_bytes = Cardinality(PayloadOf(Busy(list, hdr), hdr))
    BY DEF Core, Good
  <1>3. Sound(list, hdr) /\ list \in Seq(Nat)
    BY <1>2 DEF Tiles, Sound
  <1> QED BY <1>1, <1>2, <1>3

\* kmalloc(n) takes block b, at place i of list l, and cuts it to v bytes.
Takes(l, h, fs, i, b, v, n, t) ==
    /\ CanCut(l, h, fs, i, b, v) /\ h[b].free /\ n \in Nat /\ n <= v /\ v % 16 = 0
    /\ IsCut(l, h, fs, i, b, v, list', t)
    /\ live' = live \cup {[ptr |-> b + HeaderSize, asked |-> n]}
    /\ hdr' = Readable([t EXCEPT ![b].free = FALSE], list', live')
    /\ used_bytes' = (used_bytes + t[b].size) % Word

\* What it leaves behind.
IsTake(l, h, fs, b, t) ==
    /\ Good(list', hdr', fs, live', used_bytes')
    /\ \A q \in 1 .. Len(list') : /\ hdr'[list'[q]].size = t[list'[q]].size
                                  /\ list'[q] # b => hdr'[list'[q]] = t[list'[q]]
    /\ Busy(list', hdr') = Busy(l, h) \cup {b}

LEMMA TakeStep ==
    ASSUME NEW l, NEW h, NEW fs, fs \subseteq 1 .. FrameLimit - 1, LiveOK(l, h, live),
           used_bytes = Cardinality(PayloadOf(Busy(l, h), h)), IsFiniteSet(live),
           NEW i, NEW b, NEW v, NEW n, NEW t, Takes(l, h, fs, i, b, v, n, t)
    PROVE  IsTake(l, h, fs, b, t) /\ IsFiniteSet(live')
  <1>1. /\ CanCut(l, h, fs, i, b, v) /\ h[b].free /\ n \in Nat /\ n <= v
        /\ IsCut(l, h, fs, i, b, v, list', t)
        /\ live' = live \cup {[ptr |-> b + HeaderSize, asked |-> n]}
        /\ hdr' = Readable([t EXCEPT ![b].free = FALSE], list', live')
        /\ used_bytes' = (Cardinality(PayloadOf(Busy(l, h), h)) + t[b].size) % Word
    BY DEF Takes
  <1>2. PICK k, g, lv2 : k = list' /\ g = hdr' /\ lv2 = live'
    OBVIOUS
  <1>3. /\ Good(k, g, fs, lv2, (Cardinality(PayloadOf(Busy(l, h), h)) + t[b].size) % Word)
        /\ \A q \in 1 .. Len(k) : g[k[q]].size = t[k[q]].size /\ (k[q] # b => g[k[q]] = t[k[q]])
        /\ Busy(k, g) = Busy(l, h) \cup {b}
    <2>1. /\ IsCut(l, h, fs, i, b, v, k, t)
          /\ lv2 = live \cup {[ptr |-> b + HeaderSize, asked |-> n]}
          /\ g = Readable([t EXCEPT ![b].free = FALSE], k, lv2)
      BY <1>1, <1>2
    <2>2. IsTook(l, h, fs, b, t, k, g, lv2)
      <3> HIDE <1>2
      <3> QED BY <1>1, <2>1, TakeIs
    <2> QED BY <2>2 DEF IsTook
  <1>4. IsTake(l, h, fs, b, t)
    BY <1>1, <1>2, <1>3 DEF IsTake
  <1>5. IsFiniteSet(live')
    BY <1>1, FS_AddElement
  <1> QED BY <1>4, <1>5

\* Take, on a block that can be cut.
LEMMA TakeTakes ==
    ASSUME NEW l, NEW h, NEW fs, NEW i, NEW b, NEW v, NEW n \in Nat, n <= v, v % 16 = 0,
           CanCut(l, h, fs, i, b, v), h[b].free, Take(Mem(l, h), b, v, n)
    PROVE  \E t : Takes(l, h, fs, i, b, v, n, t)
  <1>1. PICK s : s = heap_split_block(Mem(l, h), b, v)
    OBVIOUS
  <1>2. /\ list' = s.list /\ used_bytes' = (used_bytes + s.hdr[b].size) % Word
        /\ live' = live \cup {[ptr |-> b + HeaderSize, asked |-> n]}
        /\ hdr' = Readable([s.hdr EXCEPT ![b].free = FALSE], list', live')
    BY <1>1 DEF Take
  <1>3. IsCut(l, h, fs, i, b, v, s.list, s.hdr)
    BY <1>1, CutOf
  <1>4. Takes(l, h, fs, i, b, v, n, s.hdr)
    BY <1>2, <1>3 DEF Takes
  <1> QED BY <1>4

\* kmalloc where a block of the list is large enough.
LEMMA FitTakes ==
    ASSUME Core, NEW n \in Nat, n + 2 * PageSize <= Word, kmalloc_fit(n, n)
    PROVE  \E i, b, t : Takes(list, hdr, held, i, b, align_up(n), n, t)
  <1>1. PICK v \in Nat : /\ v = align_up(n) /\ n <= v /\ align_up(v) = v /\ v % 16 = 0 /\ v + 56 < Word
    BY RequestIs
  <1> DEFINE I == {j \in 1 .. Len(list) : hdr[list[j]].free /\ hdr[list[j]].size >= v}
  <1>2. PICK i : i = FirstFit(v) /\ i # 0 /\ Take(Mem(list, hdr), list[i], v, n)
    BY <1>1 DEF kmalloc_fit
  <1>3. i = IF I # {} THEN Min(I) ELSE 0
    BY <1>2 DEF FirstFit, SelectInSeq
  <1>4. i \in I
    <2>1. I # {} /\ i = Min(I) /\ I \subseteq Nat
      BY <1>2, <1>3
    <2> HIDE DEF I
    <2> QED BY <2>1, MinIs
  <1>5. /\ Tiles(list, hdr, held) /\ Sound(list, hdr)
    BY CoreFrames
  <1>6. i \in 1 .. Len(list) /\ hdr[list[i]].free /\ hdr[list[i]].size >= v
    BY <1>4
  <1>7. PICK b \in Nat : b = list[i] /\ hdr[b].size \in Nat
    BY <1>5, <1>6, BlockIs
  <1>8. CanCut(list, hdr, held, i, b, v)
    BY <1>1, <1>5, <1>6, <1>7 DEF CanCut
  <1> QED BY <1>1, <1>2, <1>6, <1>7, <1>8, TakeTakes

\* The pool gives p frames from frame s on.
Given(s, p) ==
    /\ s \in Nat /\ p \in Nat /\ p > 0 /\ RunOf(s, p) \subseteq free
    /\ free' = free \ RunOf(s, p) /\ held' = held \cup RunOf(s, p)
    /\ reply' = s * PageSize

LEMMA AllocIs ==
    ASSUME NEW p \in Nat, Pool!Alloc(p)
    PROVE  \E s \in Nat : Given(s, p)
  <1>1. FrameLimit \in Nat
    BY SpaceIs
  <1>2. PICK s \in 0 .. FrameLimit - 1 :
           /\ s + p <= FrameLimit /\ Pool!Run(s, p) \subseteq free
           /\ free' = free \ Pool!Run(s, p) /\ held' = held \cup Pool!Run(s, p)
           /\ reply' = s * PageSize
    BY DEF Pool!Alloc, Pool!Frames, Pool!Fits
  <1>3. s \in Nat
    BY <1>1
  <1>4. Pool!Run(s, p) = RunOf(s, p)
    <2>1. \A f \in Nat : s <= f /\ f < s + p => f \in 0 .. FrameLimit - 1
      BY <1>1, <1>2, <1>3
    <2>2. \A f \in 0 .. FrameLimit - 1 : f \in Nat
      OBVIOUS
    <2> QED BY <2>1, <2>2 DEF Pool!Run, Pool!Frames, RunOf
  <1>5. p > 0
    BY DEF Pool!Alloc
  <1> QED BY <1>2, <1>3, <1>4, <1>5 DEF Given

\* heap_expand with p frames from frame s on: list k and headers g before
\* heap_coalesce, list kk and headers gg after it.
Region(s, p, b, size, k, g, q, kk, gg) ==
    /\ b \in Nat /\ b = s * PageSize /\ size \in Nat /\ size = p * PageSize - 24
    /\ Written(g, hdr, b, size, TRUE) /\ Inserted(k, list, q, b)
    /\ \A i \in 1 .. Len(list) : i < q => list[i] < b
    /\ q \in 1 .. Len(list) => b <= list[q]
    /\ Tiles(k, g, held \cup RunOf(s, p)) /\ \A i \in 1 .. Len(list) : list[i] # b
    /\ kk = heap_coalesce(Mem(k, g)).list /\ gg = heap_coalesce(Mem(k, g)).hdr
    /\ IsMerged(k, g, held \cup RunOf(s, p), kk, gg)
    /\ Expanded(b, p) = Mem(kk, gg)

LEMMA RegionIs ==
    ASSUME Core, NEW s \in Nat, NEW p \in Nat, p > 0, RunOf(s, p) \subseteq free
    PROVE  \E b, size, k, g, q, kk, gg : Region(s, p, b, size, k, g, q, kk, gg)
  <1>0. /\ held \subseteq 1 .. FrameLimit - 1 /\ RunOf(s, p) \subseteq 1 .. FrameLimit - 1
        /\ held \subseteq Nat /\ \A f \in held : f \notin RunOf(s, p)
        /\ held \cup RunOf(s, p) \subseteq 1 .. FrameLimit - 1
        /\ Tiles(list, hdr, held) /\ list \in Seq(Nat) /\ hdr \in [DOMAIN hdr -> Header]
    <2>1. held \subseteq 1 .. FrameLimit - 1 /\ RunOf(s, p) \subseteq 1 .. FrameLimit - 1
      BY CoreFrames
    <2>2. \A f \in held : f \notin RunOf(s, p)
      BY DEF Core
    <2>3. held \subseteq Nat
      BY <2>1
    <2>4. held \cup RunOf(s, p) \subseteq 1 .. FrameLimit - 1
      BY <2>1
    <2> QED BY <2>1, <2>2, <2>3, <2>4, CoreFrames DEF Sound
  <1>1. PICK b \in Nat : b = s * PageSize
    BY PageIs
  <1>2. PICK size \in Nat : size = p * PageSize - 24
    <2>1. PICK z \in Nat : z = p * PageSize /\ PageSize <= z
      <3>1. p * PageSize \in Nat /\ 0 * PageSize + PageSize <= p * PageSize
        BY PageIs, PagesUp
      <3>2. PageSize \in Nat /\ 0 * PageSize = 0
        BY SpaceIs
      <3> QED BY <3>1, <3>2
    <2>2. z - 24 \in Nat
      BY <2>1, SpaceIs
    <2> QED BY <2>1, <2>2
  <1>3. PICK g : g = With(hdr, b, size, TRUE) /\ Written(g, hdr, b, size, TRUE)
    <2>1. TRUE \in BOOLEAN
      OBVIOUS
    <2> QED BY <1>0, <2>1, WithIs, Zenon
  <1>4. PICK k, q : /\ heap_append_block(Mem(list, g), b) = Mem(k, g) /\ Inserted(k, list, q, b)
                    /\ \A i \in 1 .. Len(list) : i < q => list[i] < b
                    /\ q \in 1 .. Len(list) => b <= list[q]
    <2>1. PICK m : m = Mem(list, g) /\ m.list = list /\ m.hdr = g
      BY MemIs
    <2> QED BY <1>0, <2>1, AppendBlockIs
  <1>5. Tiles(k, g, held \cup RunOf(s, p)) /\ \A i \in 1 .. Len(list) : list[i] # b
    BY <1>0, <1>1, <1>2, <1>3, <1>4, RegionTiles
  <1>6. PICK kk, gg : kk = heap_coalesce(Mem(k, g)).list /\ gg = heap_coalesce(Mem(k, g)).hdr
    OBVIOUS
  <1>7. IsMerged(k, g, held \cup RunOf(s, p), kk, gg) /\ heap_coalesce(Mem(k, g)) = Mem(kk, gg)
    BY <1>0, <1>5, <1>6, CoalesceTiles
  <1>8. Expanded(b, p) = Mem(kk, gg)
    <2>1. p * PageSize - HeaderSize = size
      BY <1>2 DEF HeaderSize
    <2> QED BY <1>3, <1>4, <1>7, <2>1 DEF Expanded
  <1>9. Region(s, p, b, size, k, g, q, kk, gg)
    BY <1>1, <1>2, <1>3, <1>4, <1>5, <1>6, <1>7, <1>8 DEF Region
  <1> QED BY <1>9

\* heap_expand leaves the blocks in use alone, and the new region, if it is
\* a block of its own, is free and large enough.
LEMMA RegionExpands ==
    ASSUME Core, NEW s, NEW p, s \in Nat, p \in Nat, p > 0, RunOf(s, p) \subseteq free,
           NEW b, NEW size, NEW k, NEW g, NEW q, NEW kk, NEW gg, Region(s, p, b, size, k, g, q, kk, gg)
    PROVE  IsExpanded(list, hdr, held \cup RunOf(s, p), b, size, kk, gg)
  <1>1. /\ held \subseteq 1 .. FrameLimit - 1 /\ RunOf(s, p) \subseteq 1 .. FrameLimit - 1
        /\ \A f \in held : f \notin RunOf(s, p)
    <2>1. \A f \in held : f \notin RunOf(s, p)
      BY DEF Core
    <2> QED BY <2>1, CoreFrames
  <1>2. Tiles(list, hdr, held)
    BY CoreFrames
  <1> QED BY <1>1, <1>2, ExpandIs DEF Region

\* kmalloc(n) takes a new region ...
Opens(n, s, p, b, size, k, g, q, kk, gg) ==
    /\ Given(s, p) /\ Region(s, p, b, size, k, g, q, kk, gg)
    /\ align_up(n) <= size /\ Take(Mem(kk, gg), b, align_up(n), n)
    /\ total_bytes' = total_bytes + size

LEMMA ExpandOpens ==
    ASSUME Core, NEW n \in Nat, n + 2 * PageSize <= Word, kmalloc_expand(n, n)
    PROVE  \E s, p, b, size, k, g, q, kk, gg : Opens(n, s, p, b, size, k, g, q, kk, gg)
  <1>1. PICK v \in Nat : v = align_up(n) /\ Pages(v) \in Nat /\ v + 32 <= Pages(v) * PageSize
    BY RequestIs
  <1>2. PICK p \in Nat : p = Pages(v) /\ v + 32 <= p * PageSize
    BY <1>1
  <1>3. /\ Pool!Alloc(p) /\ total_bytes' = total_bytes + p * PageSize - HeaderSize
        /\ Take(Expanded(reply', p), reply', v, n)
    BY <1>1, <1>2 DEF kmalloc_expand
  <1>4. PICK s \in Nat : Given(s, p)
    BY <1>3, AllocIs
  <1>5. p > 0 /\ RunOf(s, p) \subseteq free /\ reply' = s * PageSize
    BY <1>4 DEF Given
  <1>6. PICK b, size, k, g, q, kk, gg : Region(s, p, b, size, k, g, q, kk, gg)
    BY <1>5, RegionIs
  <1>7. /\ b = reply' /\ size \in Nat /\ size = p * PageSize - 24 /\ Expanded(b, p) = Mem(kk, gg)
    BY <1>5, <1>6 DEF Region
  <1>8. Take(Mem(kk, gg), b, v, n)
    BY <1>3, <1>7
  <1>9. PICK z \in Nat : z = p * PageSize /\ v + 32 <= z /\ size = z - 24
    BY <1>2, <1>7, PageIs
  <1>10. v <= size
    BY <1>9
  <1>11. total_bytes' = total_bytes + size
    <2>1. total_bytes \in Nat /\ total_bytes' = total_bytes + z - 24
      BY <1>3, <1>9 DEF Core, HeaderSize
    <2> QED BY <1>9, <2>1
  <1>12. Opens(n, s, p, b, size, k, g, q, kk, gg)
    BY <1>1, <1>4, <1>6, <1>8, <1>10, <1>11 DEF Opens
  <1> QED BY <1>12

\* ... which is a block of the list that heap_coalesce leaves, at place i.
Expands(n, s, p, b, size, k, g, q, kk, gg, i, t) ==
    /\ Given(s, p) /\ Region(s, p, b, size, k, g, q, kk, gg)
    /\ Takes(kk, gg, held', i, b, align_up(n), n, t)
    /\ total_bytes' = total_bytes + size

LEMMA OpensTakes ==
    ASSUME Core, NEW n \in Nat, n + 2 * PageSize <= Word,
           NEW s, NEW p, NEW b, NEW size, NEW k, NEW g, NEW q, NEW kk, NEW gg,
           Opens(n, s, p, b, size, k, g, q, kk, gg), NEW i \in 1 .. Len(kk), kk[i] = b
    PROVE  \E t : Expands(n, s, p, b, size, k, g, q, kk, gg, i, t)
  <1>1. PICK v \in Nat : /\ v = align_up(n) /\ n <= v /\ align_up(v) = v /\ v % 16 = 0 /\ v + 56 < Word
    BY RequestIs
  <1>2. /\ Given(s, p) /\ Region(s, p, b, size, k, g, q, kk, gg) /\ v <= size
        /\ Take(Mem(kk, gg), b, v, n) /\ total_bytes' = total_bytes + size
        /\ s \in Nat /\ p \in Nat /\ p > 0 /\ RunOf(s, p) \subseteq free
        /\ held' = held \cup RunOf(s, p) /\ b \in Nat /\ size \in Nat
    BY <1>1 DEF Opens, Given, Region
  <1>3. IsExpanded(list, hdr, held', b, size, kk, gg)
    BY <1>2, RegionExpands
  <1>4. Tiles(kk, gg, held') /\ gg[b].free /\ size <= gg[b].size
    BY <1>3 DEF IsExpanded
  <1>5. gg[b].size \in Nat
    BY <1>4, BlockIs DEF Tiles
  <1>6. v <= gg[b].size
    BY <1>2, <1>4, <1>5
  <1>7. CanCut(kk, gg, held', i, b, v)
    BY <1>1, <1>2, <1>4, <1>6 DEF CanCut
  <1>8. PICK t : Takes(kk, gg, held', i, b, v, n, t)
    BY <1>1, <1>2, <1>4, <1>7, TakeTakes
  <1>9. Expands(n, s, p, b, size, k, g, q, kk, gg, i, t)
    BY <1>1, <1>2, <1>8 DEF Expands
  <1> QED BY <1>9

\* The frames are new to the heap.
LEMMA GivenNew ==
    ASSUME Core, NEW s, NEW p, Given(s, p)
    PROVE  held' # held /\ \A f \in held : f \notin RunOf(s, p)
  <1>1. /\ s \in Nat /\ p \in Nat /\ p > 0 /\ RunOf(s, p) \subseteq free /\ held' = held \cup RunOf(s, p)
    BY DEF Given
  <1>2. s \in RunOf(s, p)
    BY <1>1 DEF RunOf
  <1> QED BY <1>1, <1>2 DEF Core

LEMMA ExpandTakes ==
    ASSUME Core, NEW n \in Nat, n + 2 * PageSize <= Word, kmalloc_expand(n, n), NewRegionKept
    PROVE  \E s, p, b, size, k, g, q, kk, gg, i, t : Expands(n, s, p, b, size, k, g, q, kk, gg, i, t)
  <1>1. PICK s, p, b, size, k, g, q, kk, gg : Opens(n, s, p, b, size, k, g, q, kk, gg)
    BY ExpandOpens
  <1>2. /\ Given(s, p) /\ Region(s, p, b, size, k, g, q, kk, gg)
        /\ Take(Mem(kk, gg), b, align_up(n), n) /\ b = reply'
    BY <1>1 DEF Opens, Given, Region
  <1>3. b \in Range(list')
    BY <1>2, GivenNew DEF NewRegionKept, Blocks
  <1>4. PICK i \in 1 .. Len(kk) : kk[i] = b
    <2> SUFFICES ASSUME \A i \in 1 .. Len(kk) : kk[i] # b PROVE FALSE
      OBVIOUS
    <2>1. list' = kk
      BY <1>2, SplitOutside DEF Take
    <2>2. kk \in Seq(Nat)
      BY <1>2 DEF Region, IsMerged, Tiles, Sound
    <2> QED BY <1>3, <2>1, <2>2, RangeIs
  <1> QED BY <1>1, <1>4, OpensTakes

\* kmalloc from the list.
LEMMA FitStep ==
    ASSUME Core, NEW n \in Nat, n + 2 * PageSize <= Word, kmalloc_fit(n, n), UNCHANGED use
    PROVE  Core'
  <1>1. PICK i, b, t : Takes(list, hdr, held, i, b, align_up(n), n, t)
    BY FitTakes
  <1>2. IsTake(list, hdr, held, b, t) /\ IsFiniteSet(live')
    BY <1>1, CoreFrames, TakeStep DEF Core
  <1>3. free' = free /\ held' = held /\ total_bytes' = total_bytes
    BY DEF kmalloc_fit, pool
  <1>4. Good(list', hdr', held', live', used_bytes')
    BY <1>2, <1>3 DEF IsTake
  <1> QED BY <1>2, <1>3, <1>4 DEF Core

\* What a new region does to the heap, once it is known to be a block.
LEMMA ExpandTake ==
    ASSUME Core, NEW n \in Nat,
           NEW s, NEW p, NEW b, NEW size, NEW k, NEW g, NEW q, NEW kk, NEW gg, NEW i, NEW t,
           Expands(n, s, p, b, size, k, g, q, kk, gg, i, t)
    PROVE  /\ IsTake(kk, gg, held', b, t) /\ IsFiniteSet(live')
           /\ held' \subseteq 1 .. FrameLimit - 1
           /\ IsExpanded(list, hdr, held', b, size, kk, gg)
  <1>1. /\ s \in Nat /\ p \in Nat /\ p > 0 /\ RunOf(s, p) \subseteq free
        /\ held' = held \cup RunOf(s, p)
        /\ Region(s, p, b, size, k, g, q, kk, gg)
        /\ Takes(kk, gg, held', i, b, align_up(n), n, t)
    BY DEF Expands, Given
  <1>2. IsExpanded(list, hdr, held', b, size, kk, gg)
    BY <1>1, RegionExpands
  <1>3. held' \subseteq 1 .. FrameLimit - 1
    BY <1>1, CoreFrames
  <1>4. LiveOK(kk, gg, live) /\ used_bytes = Cardinality(PayloadOf(Busy(kk, gg), gg))
    <2>1. SameUse(list, hdr, kk, gg)
      BY <1>2 DEF IsExpanded
    <2>2. LiveOK(kk, gg, live)
      BY <2>1, CoreFrames, SameUseLive
    <2>3. PayloadOf(Busy(kk, gg), gg) = PayloadOf(Busy(list, hdr), hdr)
      BY <2>1, SameUsePayload
    <2> QED BY <2>2, <2>3, CoreFrames
  <1>5. IsFiniteSet(live)
    BY DEF Core
  <1>6. IsTake(kk, gg, held', b, t) /\ IsFiniteSet(live')
    BY <1>1, <1>3, <1>4, <1>5, TakeStep
  <1> QED BY <1>2, <1>3, <1>6

\* kmalloc from a new region.
LEMMA ExpandStep ==
    ASSUME Core, NEW n \in Nat, n + 2 * PageSize <= Word, kmalloc_expand(n, n), NewRegionKept,
           UNCHANGED use
    PROVE  Core'
  <1>1. PICK s, p, b, size, k, g, q, kk, gg, i, t : Expands(n, s, p, b, size, k, g, q, kk, gg, i, t)
    BY ExpandTakes
  <1>2. IsTake(kk, gg, held', b, t) /\ IsFiniteSet(live') /\ held' \subseteq 1 .. FrameLimit - 1
    BY <1>1, ExpandTake
  <1>3. /\ s \in Nat /\ p \in Nat /\ p > 0 /\ RunOf(s, p) \subseteq free
        /\ free' = free \ RunOf(s, p) /\ held' = held \cup RunOf(s, p)
        /\ size \in Nat /\ size = p * PageSize - 24 /\ total_bytes' = total_bytes + size
    BY <1>1 DEF Expands, Given, Region
  <1>4. Good(list', hdr', held', live', used_bytes')
    BY <1>2 DEF IsTake
  <1>5. /\ use' \in Uses /\ free' \subseteq use'.usable /\ held' \subseteq use'.usable /\ free' \cap held' = {}
    BY <1>3 DEF Core
  <1>6. total_bytes' \in Nat /\ total_bytes' <= Cardinality(OwnedBytes(held'))
    <2>1. \A f \in held : f \notin RunOf(s, p)
      BY <1>3 DEF Core
    <2>2. Cardinality(OwnedBytes(held')) = Cardinality(OwnedBytes(held)) + p * PageSize
      <3>1. MoreBytes(held, s, p)
        BY <1>3, <2>1, CoreFrames, RegionBytes
      <3> QED BY <1>3, <3>1 DEF MoreBytes
    <2>3. PICK z \in Nat : z = p * PageSize
      BY <1>3, PageIs
    <2>4. PICK c \in Nat : c = Cardinality(OwnedBytes(held)) /\ total_bytes <= c /\ total_bytes \in Nat
      BY CoreFrames, OwnedFinite DEF Core
    <2> QED BY <1>3, <2>2, <2>3, <2>4
  <1> QED BY <1>2, <1>4, <1>5, <1>6 DEF Core

\* kfree.
LEMMA FreeStep ==
    ASSUME Core, NEW a \in live, kfree(a), UNCHANGED use
    PROVE  Core'
  <1>1. PICK b, w : b = a.ptr - HeaderSize /\ w = [hdr EXCEPT ![b].free = TRUE]
    OBVIOUS
  <1>2. PICK k, t, g : /\ k = heap_coalesce(Mem(list, w)).list /\ t = heap_coalesce(Mem(list, w)).hdr
                       /\ g = Readable(t, k, live \ {a})
    OBVIOUS
  <1>3. Good(k, g, held, live \ {a}, (used_bytes - hdr[b].size) % Word) /\ ~hdr[b].free
    <2>1. Good(list, hdr, held, live, used_bytes) /\ held \subseteq 1 .. FrameLimit - 1
      BY CoreFrames DEF Core
    <2>2. IsReturned(list, hdr, held, live, used_bytes, a, b, w, k, t, g)
      BY <1>1, <1>2, <2>1, FreeIs
    <2> QED BY <2>2 DEF IsReturned
  <1>4. /\ live' = live \ {a} /\ list' = k /\ hdr' = g /\ used_bytes' = (used_bytes - hdr[b].size) % Word
        /\ free' = free /\ held' = held /\ total_bytes' = total_bytes
    BY <1>1, <1>2, <1>3 DEF kfree, Uncharge, pool
  <1>5. IsFiniteSet(live')
    BY <1>4, FS_Subset DEF Core
  <1> QED BY <1>3, <1>4, <1>5 DEF Core

\* A request that the pool refuses, or no step at all.
LEMMA IdleStep ==
    ASSUME Core, UNCHANGED <<use, free, held, list, hdr, total_bytes, used_bytes, live>>
    PROVE  Core'
  BY DEF Core

\* kmalloc, whichever way it goes.
LEMMA CallStep ==
    ASSUME Core, NEW n \in Nat, n + 2 * PageSize <= Word, kmalloc(n, n), NewRegionKept, UNCHANGED use
    PROVE  Core'
  <1>1. CASE kmalloc_fit(n, n)
    BY <1>1, FitStep
  <1>2. CASE kmalloc_expand(n, n)
    BY <1>2, ExpandStep
  <1>3. CASE kmalloc_fail(n)
    BY <1>3, IdleStep DEF kmalloc_fail, Pool!Refuse
  <1> QED BY <1>1, <1>2, <1>3 DEF kmalloc

\* Every step is a kmalloc of a size that does not wrap, or a kfree.
LEMMA StepIs ==
    ASSUME Modest, use \in Uses, Next
    PROVE  /\ UNCHANGED use
           /\ \/ \E n \in Nat : n + 2 * PageSize <= Word /\ kmalloc(n, n)
              \/ \E a \in live : kfree(a)
  <1>1. CASE \E n \in use.sizes : kmalloc(n, n) /\ UNCHANGED use
    BY <1>1, UseAssumption DEF Modest
  <1>2. CASE \E p \in use.pairs : kcalloc(p[1], p[2]) /\ UNCHANGED use
    <2>1. PICK p \in use.pairs : kcalloc(p[1], p[2]) /\ UNCHANGED use
      BY <1>2
    <2>2. p[1] \in Nat /\ p[2] \in Nat
      BY UseAssumption
    <2>3. PICK n \in Nat : n = p[1] * p[2]
      BY <2>2
    <2>4. n + 2 * PageSize <= Word
      BY <2>3 DEF Modest
    <2>5. n % Word = n
      BY <2>4, SpaceIs
    <2>6. kmalloc(n, n)
      BY <2>1, <2>3, <2>5 DEF kcalloc
    <2> QED BY <2>1, <2>4, <2>6
  <1>3. CASE \E a \in live : kfree(a) /\ UNCHANGED use
    BY <1>3
  <1> QED BY <1>1, <1>2, <1>3 DEF Next

LEMMA CoreInit ==
    ASSUME Init
    PROVE  Core
  <1>1. /\ list = <<>> /\ hdr = <<>> /\ live = {} /\ held = {} /\ used_bytes = 0 /\ total_bytes = 0
        /\ use \in Uses /\ free = use.usable
    BY DEF Init
  <1>2. <<>> \in Seq(Nat) /\ Len(<<>>) = 0 /\ Range(<<>>) = {} /\ DOMAIN <<>> = {}
    BY DEF Range
  <1>3. Tiles(list, hdr, held)
    <2>1. Sound(<<>>, <<>>)
      <3>1. <<>> \in [DOMAIN <<>> -> Header]
        BY <1>2
      <3> QED BY <1>2, <3>1 DEF Sound
    <2>2. \A x \in Nat : ~Covered(<<>>, <<>>, 0, x) /\ ~Owned({}, x)
      BY DEF Covered, Owned
    <2> QED BY <1>1, <1>2, <2>1, <2>2 DEF Tiles
  <1>4. Busy(list, hdr) = {}
    BY <1>1, <1>2 DEF Busy
  <1>5. LiveOK(list, hdr, live)
    BY <1>1, <1>4 DEF LiveOK
  <1>6. Cardinality(PayloadOf(Busy(list, hdr), hdr)) = 0
    <2>1. PayloadOf({}, hdr) = {}
      BY DEF PayloadOf
    <2> QED BY <1>4, <2>1, FS_EmptySet
  <1>7. Good(list, hdr, held, live, used_bytes)
    BY <1>1, <1>2, <1>3, <1>5, <1>6 DEF Good
  <1>8. IsFiniteSet(live) /\ total_bytes <= Cardinality(OwnedBytes(held))
    <2>1. OwnedBytes({}) = {}
      BY DEF OwnedBytes, Owned
    <2>2. Cardinality(OwnedBytes(held)) = 0
      BY <1>1, <2>1, FS_EmptySet
    <2>3. IsFiniteSet(live)
      BY <1>1, FS_EmptySet
    <2> QED BY <1>1, <2>2, <2>3
  <1> QED BY <1>1, <1>7, <1>8 DEF Core

LEMMA CoreStep ==
    ASSUME Modest, Core, [Next]_vars, [NewRegionKept]_vars
    PROVE  Core'
  <1>1. CASE UNCHANGED vars
    BY <1>1, IdleStep DEF vars, pool
  <1>2. CASE Next /\ NewRegionKept
    <2>1. /\ UNCHANGED use
          /\ \/ \E n \in Nat : n + 2 * PageSize <= Word /\ kmalloc(n, n)
             \/ \E a \in live : kfree(a)
      BY <1>2, StepIs DEF Core
    <2> QED BY <1>2, <2>1, CallStep, FreeStep
  <1> QED BY <1>1, <1>2

\* The blocks fill the frames.
LEMMA CoreTiles ==
    ASSUME Core
    PROVE  BlocksTile
  <1>1. /\ held \subseteq 1 .. FrameLimit - 1 /\ Tiles(list, hdr, held) /\ Sound(list, hdr)
        /\ list \in Seq(Nat) /\ DOMAIN hdr = Range(list) /\ Word \in Nat
        /\ hdr \in [DOMAIN hdr -> Header]
    BY CoreFrames, SpaceIs DEF Sound
  <1>2. \A b \in Blocks : \E i \in 1 .. Len(list) : list[i] = b
    BY <1>1, RangeIs DEF Blocks
  <1>3. TypeOK
    <2>1. ASSUME NEW b \in DOMAIN hdr
          PROVE  hdr[b].size \in 0 .. Word - 1 /\ hdr[b].free \in BOOLEAN
      <3>1. PICK i \in 1 .. Len(list) : list[i] = b
        BY <1>1, <1>2 DEF Blocks
      <3>2. /\ b \in Nat /\ hdr[b].size \in Nat /\ hdr[b].free \in BOOLEAN
            /\ End(hdr, b) = b + 24 + hdr[b].size
        BY <1>1, <3>1, BlockIs
      <3>3. End(hdr, b) <= Word
        BY <1>1, <3>1, TilesSnug DEF Snug
      <3>4. hdr[b].size <= Word - 1
        BY <1>1, <3>2, <3>3
      <3> QED BY <1>1, <3>2, <3>4
    <2>2. PICK c \in Nat : c = Cardinality(OwnedBytes(held)) /\ c <= Word - 1
      <3>1. Cardinality(OwnedBytes(held)) \in Nat /\ Cardinality(OwnedBytes(held)) <= Word - 1
        <4>1. /\ Cardinality(OwnedBytes(held)) \in Nat
              /\ Cardinality(OwnedBytes(held)) < Word \/ Cardinality(OwnedBytes(held)) = 0
          BY <1>1, OwnedFinite
        <4> QED BY <4>1, SpaceIs
      <3> QED BY <3>1
    <2>3. total_bytes \in 0 .. Word - 1
      BY <1>1, <2>2 DEF Core
    <2>4. used_bytes \in 0 .. Word - 1
      <3>1. Busy(list, hdr) \subseteq Range(list)
        BY <1>1, BusyListed
      <3>2. used_bytes \in Nat /\ used_bytes <= c
        BY <1>1, <2>2, <3>1, PayloadFinite, CoreFrames
      <3> QED BY <1>1, <2>2, <3>2
    <2> QED BY <1>1, <2>1, <2>3, <2>4 DEF TypeOK, Blocks
  <1>4. \A k \in 1 .. Len(list) - 1 : End(hdr, list[k]) <= list[k + 1]
    <2> TAKE k \in 1 .. Len(list) - 1
    <2>1. k \in 1 .. Len(list) /\ k + 1 \in 1 .. Len(list) /\ k < k + 1
      BY <1>1
    <2> QED BY <1>1, <2>1 DEF Sound
  <1>5. UNION {Bytes(hdr, b) : b \in Blocks} = UNION {FrameBytes(f) : f \in held}
    <2>1. ASSUME NEW x
          PROVE  x \in UNION {Bytes(hdr, b) : b \in Blocks} <=> x \in Nat /\ Owned(held, x)
      <3>1. \A i \in 1 .. Len(list) : list[i] \in Nat /\ End(hdr, list[i]) \in Nat /\ list[i] \in Blocks
        BY <1>1, BlockIs, RangeIs DEF Blocks
      <3>2. x \in UNION {Bytes(hdr, b) : b \in Blocks}
              <=> \E i \in 1 .. Len(list) : x \in list[i] .. End(hdr, list[i]) - 1
        BY <1>2, <3>1 DEF Bytes
      <3>3. ASSUME NEW i \in 1 .. Len(list)
            PROVE  x \in list[i] .. End(hdr, list[i]) - 1
                     <=> x \in Nat /\ list[i] <= x /\ x < End(hdr, list[i])
        BY <3>1
      <3>4. x \in UNION {Bytes(hdr, b) : b \in Blocks} <=> x \in Nat /\ Covered(list, hdr, Len(list), x)
        BY <3>2, <3>3 DEF Covered
      <3> QED BY <1>1, <3>4 DEF Tiles
    <2>2. ASSUME NEW x
          PROVE  x \in UNION {FrameBytes(f) : f \in held} <=> x \in Nat /\ Owned(held, x)
      <3>1. \A f \in held : f \in Nat /\ f * PageSize \in Nat /\ (f + 1) * PageSize \in Nat
        <4> TAKE f \in held
        <4>1. f \in Nat /\ f + 1 \in Nat
          BY <1>1
        <4> QED BY <4>1, PageIs
      <3>2. \A f \in held : x \in FrameBytes(f)
              <=> x \in Nat /\ f * PageSize <= x /\ x < (f + 1) * PageSize
        <4> TAKE f \in held
        <4>1. PICK lo \in Nat, hi \in Nat : lo = f * PageSize /\ hi = (f + 1) * PageSize
          BY <3>1
        <4>2. x \in lo .. hi - 1 <=> x \in Nat /\ lo <= x /\ x < hi
          OBVIOUS
        <4> QED BY <4>1, <4>2 DEF FrameBytes
      <3> QED BY <3>2 DEF Owned
    <2> QED BY <2>1, <2>2
  <1> QED BY <1>3, <1>4, <1>5 DEF BlocksTile

\* The callers hold the blocks in use.
LEMMA CoreLive ==
    ASSUME Core
    PROVE  LiveAreBlocks
  <1>1. LiveOK(list, hdr, live) /\ list \in Seq(Nat)
    BY CoreFrames
  <1>2. ASSUME NEW a \in live
        PROVE  /\ a.ptr - HeaderSize \in Blocks /\ ~hdr[a.ptr - HeaderSize].free
               /\ hdr[a.ptr - HeaderSize].size >= a.asked
    <2>1. a.ptr - 24 \in Busy(list, hdr) /\ a.asked <= hdr[a.ptr - 24].size
      BY <1>1 DEF LiveOK
    <2>2. a.ptr - 24 \in Blocks /\ ~hdr[a.ptr - 24].free
      BY <1>1, <2>1, RangeIs DEF Busy, Blocks
    <2> QED BY <2>1, <2>2 DEF HeaderSize
  <1>3. ASSUME NEW b \in Blocks, ~hdr[b].free PROVE \E a \in live : a.ptr = b + HeaderSize
    <2>1. b \in Nat /\ \E i \in 1 .. Len(list) : list[i] = b
      BY <1>1, RangeIs DEF Blocks
    <2>2. b \in Busy(list, hdr)
      BY <1>3, <2>1 DEF Busy
    <2> QED BY <1>1, <2>2 DEF LiveOK, HeaderSize
  <1>4. \A a1, a2 \in live : a1.ptr = a2.ptr => a1 = a2
    BY <1>1 DEF LiveOK
  <1> QED BY <1>2, <1>3, <1>4 DEF LiveAreBlocks

\* While no new region is swallowed by the free block before it, and sizes do
\* not wrap, the blocks of the list fill the heap's frames exactly
\* (src/heap.c, heap_split_block, heap_coalesce, heap_expand) ...
THEOREM Tiling ==
    ASSUME Modest
    PROVE  Spec /\ [][NewRegionKept]_vars => []BlocksTile
  <1>1. Init => Core
    BY CoreInit
  <1>2. Core /\ [Next]_vars /\ [NewRegionKept]_vars => Core'
    BY CoreStep
  <1>3. Core => BlocksTile
    BY CoreTiles
  <1> QED BY <1>1, <1>2, <1>3, PTL DEF Spec

\* ... and every pointer a caller holds is a block in use of its own, at least
\* as large as it asked for (kmalloc, kcalloc, kfree).
THEOREM Holding ==
    ASSUME Modest
    PROVE  Spec /\ [][NewRegionKept]_vars => []LiveAreBlocks
  <1>1. Init => Core
    BY CoreInit
  <1>2. Core /\ [Next]_vars /\ [NewRegionKept]_vars => Core'
    BY CoreStep
  <1>3. Core => LiveAreBlocks
    BY CoreLive
  <1> QED BY <1>1, <1>2, <1>3, PTL DEF Spec

LEMMA CoreApart ==
    ASSUME Core
    PROVE  NotInFreeBlock
  <1>1. LiveOK(list, hdr, live) /\ list \in Seq(Nat) /\ Sound(list, hdr)
    BY CoreFrames
  <1> SUFFICES ASSUME NEW a \in live, NEW b \in Blocks, hdr[b].free
               PROVE  a.ptr + a.asked <= b \/ End(hdr, b) <= a.ptr
    BY DEF NotInFreeBlock
  <1>2. PICK c \in Nat : /\ c = a.ptr - 24 /\ c \in Busy(list, hdr) /\ a.asked <= hdr[c].size
                         /\ a.ptr \in Nat
    BY <1>1 DEF LiveOK, Busy
  <1>3. PICK i \in 1 .. Len(list) : list[i] = c /\ ~hdr[c].free
    BY <1>2 DEF Busy
  <1>4. PICK j \in 1 .. Len(list) : list[j] = b
    BY <1>1, RangeIs DEF Blocks
  <1>5. i # j
    BY <1>3, <1>4
  <1>6. /\ hdr[c].size \in Nat /\ End(hdr, c) = c + 24 + hdr[c].size /\ b \in Nat /\ End(hdr, b) \in Nat
    <2>1. hdr[c].size \in Nat /\ End(hdr, c) = c + 24 + hdr[c].size
      BY <1>1, <1>3, BlockIs
    <2>2. b \in Nat /\ End(hdr, b) \in Nat
      BY <1>1, <1>4, BlockIs
    <2> QED BY <2>1, <2>2
  <1>7. CASE i < j
    <2>1. End(hdr, c) <= b
      BY <1>1, <1>3, <1>4, <1>7 DEF Sound
    <2>2. a.ptr = c + 24
      BY <1>2
    <2>3. a.asked \in Nat
      BY <1>1 DEF LiveOK
    <2>4. PICK x \in Nat, z \in Nat : /\ x = a.asked /\ z = hdr[c].size /\ x <= z /\ c + 24 + z <= b
      BY <1>2, <1>6, <2>1, <2>3
    <2>5. c + 24 + x <= b
      BY <1>6, <2>4
    <2> QED BY <2>2, <2>4, <2>5
  <1>8. CASE j < i
    <2>1. End(hdr, b) <= c
      BY <1>1, <1>3, <1>4, <1>8 DEF Sound
    <2> QED BY <1>2, <1>6, <2>1
  <1> QED BY <1>5, <1>7, <1>8

\* ... so that no caller's memory lies inside a block the heap considers free:
\* the region that heap_expand returns after heap_coalesce has swallowed it
\* is the only way to get there.
THEOREM Apart ==
    ASSUME Modest
    PROVE  Spec /\ [][NewRegionKept]_vars => []NotInFreeBlock
  <1>1. Init => Core
    BY CoreInit
  <1>2. Core /\ [Next]_vars /\ [NewRegionKept]_vars => Core'
    BY CoreStep
  <1>3. Core => NotInFreeBlock
    BY CoreApart
  <1> QED BY <1>1, <1>2, <1>3, PTL DEF Spec
-----------------------------------------------------------------------------
(* The bytes that are counted: all but the first header of every region.   *)

LEMMA PageMod ==
    ASSUME NEW s \in Nat
    PROVE  (s * PageSize) % PageSize = 0
  <1>1. PageSize \in Nat /\ PageSize > 0
    BY SpaceIs
  <1> QED BY <1>1

HeadsOf(l) == {x \in Nat : \E b \in Range(l) : b % PageSize = 0 /\ b <= x /\ x < b + 24}

Counted == Cardinality(OwnedBytes(held) \ HeadsOf(list)) <= total_bytes

LEMMA HeadsKept ==
    ASSUME RegionsKept
    PROVE  HeadsOf(list) \subseteq HeadsOf(list')
  BY DEF RegionsKept, HeadsOf, Blocks

\* No frame is added.
LEMMA CountedSame ==
    ASSUME Core, Counted, RegionsKept, held' = held, total_bytes' = total_bytes
    PROVE  Counted'
  <1> DEFINE A == OwnedBytes(held) \ HeadsOf(list)
             B == OwnedBytes(held) \ HeadsOf(list')
  <1>1. IsFiniteSet(A) /\ IsFiniteSet(B) /\ B \subseteq A
    <2>1. IsFiniteSet(OwnedBytes(held))
      BY CoreFrames, OwnedFinite
    <2>2. A \subseteq OwnedBytes(held) /\ B \subseteq OwnedBytes(held) /\ B \subseteq A
      BY HeadsKept
    <2> HIDE DEF A, B
    <2> QED BY <2>1, <2>2, FS_Subset
  <1>2. Cardinality(A) <= total_bytes
    BY DEF Counted
  <1>3. Cardinality(B) \in Nat /\ Cardinality(A) \in Nat /\ Cardinality(B) <= Cardinality(A)
    <2> HIDE DEF A, B
    <2> QED BY <1>1, FS_CardinalityType, FS_Subset
  <1>4. Cardinality(B) <= total_bytes
    <2> HIDE DEF A, B
    <2> QED BY <1>2, <1>3 DEF Core
  <1> QED BY <1>4 DEF Counted

\* A region is added, and all of it is counted but its header.
LEMMA CountedMore ==
    ASSUME Core, Counted, RegionsKept, NEW s \in Nat, NEW p \in Nat, Given(s, p),
           NEW size \in Nat, size = p * PageSize - 24, total_bytes' = total_bytes + size
    PROVE  Counted'
  <1>1. /\ p > 0 /\ RunOf(s, p) \subseteq free /\ held' = held \cup RunOf(s, p) /\ reply' = s * PageSize
    BY DEF Given
  <1>2. held' # held /\ \A f \in held : f \notin RunOf(s, p)
    BY GivenNew
  <1>3. PICK lo \in Nat, z \in Nat : lo = s * PageSize /\ z = p * PageSize /\ size = z - 24
    BY PageIs
  <1>4. OwnedBytes(held') = OwnedBytes(held) \cup (lo .. lo + z - 1)
    <2>1. MoreBytes(held, s, p)
      BY <1>1, <1>2, CoreFrames, RegionBytes
    <2> QED BY <1>1, <1>3, <2>1 DEF MoreBytes
  <1> DEFINE A == OwnedBytes(held) \ HeadsOf(list)
             B == OwnedBytes(held') \ HeadsOf(list')
             N == lo + 24 .. lo + z - 1
  <1>5. lo \in Range(list') /\ lo % PageSize = 0
    <2>1. (s * PageSize) % PageSize = 0
      BY PageMod
    <2> QED BY <1>1, <1>2, <1>3, <2>1 DEF RegionsKept, NewRegionKept, Blocks
  <1>6. B \subseteq A \cup N
    <2> SUFFICES ASSUME NEW x \in B PROVE x \in A \cup N
      OBVIOUS
    <2>1. x \in OwnedBytes(held) \cup (lo .. lo + z - 1) /\ x \notin HeadsOf(list') /\ x \notin HeadsOf(list)
      BY <1>4, HeadsKept
    <2>2. CASE x \in OwnedBytes(held)
      BY <2>1, <2>2
    <2>3. CASE x \in lo .. lo + z - 1
      <3>1. x \in Nat /\ lo <= x /\ x <= lo + z - 1
        BY <2>3
      <3>2. ~(x < lo + 24)
        BY <1>5, <2>1, <3>1 DEF HeadsOf
      <3> QED BY <3>1, <3>2
    <2> QED BY <2>1, <2>2, <2>3
  <1>7. IsFiniteSet(A) /\ IsFiniteSet(N) /\ Cardinality(N) = size
    <2>1. IsFiniteSet(OwnedBytes(held)) /\ A \subseteq OwnedBytes(held)
      BY CoreFrames, OwnedFinite
    <2>2. IsFiniteSet(A)
      <3> HIDE DEF A
      <3> QED BY <2>1, FS_Subset
    <2>3. PICK x \in Int, y \in Int : /\ x = lo + 24 /\ y = lo + z - 1
                                      /\ (IF x > y THEN 0 ELSE y - x + 1) = size
      BY <1>3
    <2>4. IsFiniteSet(x .. y) /\ Cardinality(x .. y) = size
      BY <2>3, FS_Interval
    <2>5. N = x .. y
      BY <2>3
    <2> QED BY <2>2, <2>4, <2>5
  <1>8. Cardinality(A) <= total_bytes /\ total_bytes \in Nat
    BY DEF Counted, Core
  <1>9. Cardinality(B) <= total_bytes + size
    <2> HIDE DEF A, B, N
    <2>1. IsFiniteSet(A \cup N) /\ Cardinality(A \cup N) <= Cardinality(A) + Cardinality(N)
      <3>1. /\ IsFiniteSet(A \cup N) /\ IsFiniteSet(A \cap N)
            /\ Cardinality(A \cup N) = Cardinality(A) + Cardinality(N) - Cardinality(A \cap N)
        BY <1>7, FS_Union, FS_Intersection
      <3>2. /\ Cardinality(A \cap N) \in Nat /\ Cardinality(A) \in Nat /\ Cardinality(N) \in Nat
        BY <1>7, <3>1, FS_CardinalityType
      <3> QED BY <3>1, <3>2
    <2>2. /\ Cardinality(B) <= Cardinality(A \cup N) /\ IsFiniteSet(B)
      BY <1>6, <2>1, FS_Subset
    <2>3. /\ Cardinality(B) \in Nat /\ Cardinality(A \cup N) \in Nat /\ Cardinality(A) \in Nat
      BY <1>7, <2>1, <2>2, FS_CardinalityType
    <2> QED BY <1>7, <1>8, <2>1, <2>2, <2>3
  <1> QED BY <1>9 DEF Counted

\* The payload in use is among the bytes that are counted.
LEMMA CountedUsed ==
    ASSUME Core, Counted
    PROVE  UsedExact
  <1>1. /\ Sound(list, hdr) /\ list \in Seq(Nat) /\ held \subseteq 1 .. FrameLimit - 1
        /\ Tiles(list, hdr, held) /\ used_bytes = Cardinality(PayloadOf(Busy(list, hdr), hdr))
    BY CoreFrames
  <1>2. Busy(list, hdr) = InUse /\ Busy(list, hdr) \subseteq Range(list)
    <2>1. \A b : b \in Blocks <=> b \in Nat /\ \E i \in 1 .. Len(list) : list[i] = b
      BY <1>1, RangeIs DEF Blocks
    <2> QED BY <2>1 DEF Busy, InUse, Blocks
  <1>3. UNION {Payload(hdr, b) : b \in InUse} = PayloadOf(Busy(list, hdr), hdr)
    <2>1. ASSUME NEW b \in InUse, NEW x
          PROVE  x \in Payload(hdr, b) <=> x \in Nat /\ b + 24 <= x /\ x < End(hdr, b)
      <3>1. PICK i \in 1 .. Len(list) : list[i] = b
        BY <1>1, <1>2, RangeIs
      <3>2. b \in Nat /\ End(hdr, b) \in Nat
        BY <1>1, <3>1, BlockIs
      <3> QED BY <3>2 DEF Payload, HeaderSize
    <2> QED BY <1>2, <2>1 DEF PayloadOf
  <1> DEFINE P == PayloadOf(Busy(list, hdr), hdr)
             A == OwnedBytes(held) \ HeadsOf(list)
  <1>4. P \subseteq A
    <2>1. P \subseteq OwnedBytes(held)
      BY <1>1, <1>2, PayloadFinite
    <2>2. ASSUME NEW x \in P, x \in HeadsOf(list) PROVE FALSE
      <3>1. PICK b \in Busy(list, hdr) : x \in Nat /\ b + 24 <= x /\ x < End(hdr, b)
        BY DEF PayloadOf
      <3>2. PICK c \in Range(list) : c <= x /\ x < c + 24
        BY <2>2 DEF HeadsOf
      <3>3. PICK i \in 1 .. Len(list) : list[i] = b
        BY <1>1, <1>2, RangeIs
      <3>4. PICK j \in 1 .. Len(list) : list[j] = c
        BY <1>1, RangeIs
      <3>5. b \in Nat /\ c \in Nat /\ End(hdr, b) \in Nat /\ End(hdr, c) \in Nat /\ c + 24 <= End(hdr, c)
        <4>1. b \in Nat /\ End(hdr, b) \in Nat
          BY <1>1, <3>3, BlockIs
        <4>2. c \in Nat /\ End(hdr, c) \in Nat /\ c + 24 <= End(hdr, c)
          BY <1>1, <3>4, BlockOwned
        <4> QED BY <4>1, <4>2
      <3>6. i < j => End(hdr, b) <= c
        BY <1>1, <3>3, <3>4 DEF Sound
      <3>7. j < i => End(hdr, c) <= b
        BY <1>1, <3>3, <3>4 DEF Sound
      <3>8. i = j => b = c
        BY <3>3, <3>4
      <3>9. i \in Nat /\ j \in Nat
        OBVIOUS
      <3> QED BY <3>1, <3>2, <3>5, <3>6, <3>7, <3>8, <3>9
    <2> QED BY <2>1, <2>2
  <1>5. Cardinality(P) <= total_bytes
    <2>1. Cardinality(A) <= total_bytes /\ total_bytes \in Nat
      BY DEF Counted, Core
    <2>2. IsFiniteSet(OwnedBytes(held)) /\ A \subseteq OwnedBytes(held)
      BY <1>1, OwnedFinite
    <2> HIDE DEF A, P
    <2>3. IsFiniteSet(A)
      BY <2>2, FS_Subset
    <2>4. IsFiniteSet(P) /\ Cardinality(P) <= Cardinality(A)
      BY <1>4, <2>3, FS_Subset
    <2>5. Cardinality(P) \in Nat /\ Cardinality(A) \in Nat
      BY <2>3, <2>4, FS_CardinalityType
    <2> QED BY <2>1, <2>4, <2>5
  <1> QED BY <1>1, <1>3, <1>5 DEF UsedExact

LEMMA CountedStep ==
    ASSUME Modest, Core, Counted, [Next]_vars, [RegionsKept]_vars
    PROVE  Counted'
  <1>1. CASE UNCHANGED vars
    BY <1>1 DEF vars, pool, Counted
  <1>2. CASE Next /\ RegionsKept
    <2>1. /\ UNCHANGED use
          /\ \/ \E n \in Nat : n + 2 * PageSize <= Word /\ kmalloc(n, n)
             \/ \E a \in live : kfree(a)
      BY <1>2, StepIs DEF Core
    <2>2. ASSUME NEW n \in Nat, n + 2 * PageSize <= Word, kmalloc_expand(n, n) PROVE Counted'
      <3>1. PICK s, p, b, size, k, g, q, kk, gg : Opens(n, s, p, b, size, k, g, q, kk, gg)
        BY <2>2, ExpandOpens
      <3>2. /\ s \in Nat /\ p \in Nat /\ Given(s, p) /\ size \in Nat /\ size = p * PageSize - 24
            /\ total_bytes' = total_bytes + size
        BY <3>1 DEF Opens, Given, Region
      <3> QED BY <1>2, <3>2, CountedMore
    <2>3. ASSUME NEW n \in Nat, kmalloc_fit(n, n) \/ kmalloc_fail(n) PROVE Counted'
      <3>1. held' = held /\ total_bytes' = total_bytes
        BY <2>3 DEF kmalloc_fit, kmalloc_fail, Pool!Refuse, pool
      <3> QED BY <1>2, <3>1, CountedSame
    <2>4. ASSUME NEW a \in live, kfree(a) PROVE Counted'
      <3>1. held' = held /\ total_bytes' = total_bytes
        BY <2>4 DEF kfree, pool
      <3> QED BY <1>2, <3>1, CountedSame
    <2> QED BY <2>1, <2>2, <2>3, <2>4 DEF kmalloc
  <1> QED BY <1>1, <1>2

LEMMA CountedInit ==
    ASSUME Init
    PROVE  Counted
  <1>1. OwnedBytes(held) \ HeadsOf(list) = {} /\ total_bytes = 0
    BY DEF OwnedBytes, Owned, Init
  <1>2. Cardinality({}) = 0
    BY FS_EmptySet
  <1> QED BY <1>1, <1>2 DEF Counted

\* While no region is swallowed by the free block before it, used_bytes is the
\* payload in use and at most total_bytes, so that heap_free_bytes does not
\* wrap.
THEOREM Counting ==
    ASSUME Modest
    PROVE  Spec /\ [][RegionsKept]_vars => []UsedExact
  <1>1. Init => Core /\ Counted
    BY CoreInit, CountedInit
  <1>2. Core /\ Counted /\ [Next]_vars /\ [RegionsKept]_vars => Core' /\ Counted'
    <2> SUFFICES ASSUME Core, Counted, [Next]_vars, [RegionsKept]_vars PROVE Core' /\ Counted'
      OBVIOUS
    <2>1. [NewRegionKept]_vars
      BY DEF RegionsKept
    <2> QED BY <2>1, CoreStep, CountedStep
  <1>3. Core /\ Counted => UsedExact
    BY CountedUsed
  <1> QED BY <1>1, <1>2, <1>3, PTL DEF Spec
-----------------------------------------------------------------------------
(* One caller at a time: a region is cut into at most two blocks, and they *)
(* become one again.  The sizes tell which blocks touch: a whole region    *)
(* has a size of 8 modulo 16, so that align_up of it misses what follows.  *)

\* The block at place i is a whole free region.
WholeAt(l, h, i) == l[i] % PageSize = 0 /\ h[l[i]].free /\ h[l[i]].size % 16 = 8

\* It is what was left behind block a, which starts a region.
RestAt(l, h, i, a) ==
    /\ i - 1 \in 1 .. Len(l) /\ l[i - 1] = a /\ a % PageSize = 0 /\ h[a].size % 16 = 0
    /\ l[i] = End(h, a) /\ h[l[i]].free /\ h[l[i]].size % 16 = 0

\* It is block a, which has the region to itself or is followed by its rest.
LentAt(l, h, i, a) ==
    /\ l[i] = a /\ a % PageSize = 0
    /\ h[a].size % 16 = 8 \/ (i + 1 \in 1 .. Len(l) /\ RestAt(l, h, i + 1, a))

Whole(l, h) == \A i \in 1 .. Len(l) : WholeAt(l, h, i)

OnLoan(l, h, a) == \A i \in 1 .. Len(l) : WholeAt(l, h, i) \/ LentAt(l, h, i, a) \/ RestAt(l, h, i, a)

LEMMA PageAligned ==
    ASSUME NEW x \in Nat, x % PageSize = 0
    PROVE  x % 16 = 0
  <1>1. PageSize \in Nat /\ PageSize > 0 /\ PageSize % 16 = 0
    BY SpaceIs
  <1>2. PICK e \in Nat : PageSize = 16 * e
    BY <1>1
  <1>3. PICK d \in Nat : x = d * PageSize
    <2>1. x \div PageSize \in Nat
      BY DivIs
    <2>2. (x \div PageSize) * PageSize = x
      <3>1. PageSize \in Nat /\ PageSize > 0
        BY <1>1
      <3> HIDE <1>1, <1>2, <2>1
      <3> QED BY <3>1
    <2> QED BY <2>1, <2>2
  <1>4. x = 16 * (d * e) /\ d * e \in Nat
    BY <1>2, <1>3
  <1>5. \A y \in Nat : (16 * y) % 16 = 0
    OBVIOUS
  <1> QED BY <1>4, <1>5

\* Where a block that starts at a multiple of 16 ends.
LEMMA EndMod ==
    ASSUME NEW b \in Nat, NEW s \in Nat, b % 16 = 0
    PROVE  (s % 16 = 0 => (b + 24 + s) % 16 = 8) /\ (s % 16 = 8 => (b + 24 + s) % 16 = 0)
  <1>1. PICK i \in Nat : b = 16 * i
    OBVIOUS
  <1>2. ASSUME s % 16 = 0 PROVE (b + 24 + s) % 16 = 8
    <2>1. PICK j \in Nat : s = 16 * j
      BY <1>2
    <2>2. b + 24 + s = 16 * (i + j + 1) + 8
      BY <1>1, <2>1
    <2> QED BY <2>2
  <1>3. ASSUME s % 16 = 8 PROVE (b + 24 + s) % 16 = 0
    <2>1. PICK j \in Nat : s = 16 * j + 8
      BY <1>3
    <2>2. b + 24 + s = 16 * (i + j + 2)
      BY <1>1, <2>1
    <2> QED BY <2>2
  <1> QED BY <1>2, <1>3

\* Where the rest of a block that starts a region begins.
LEMMA RestIs ==
    ASSUME NEW l, NEW h, Sound(l, h), NEW i \in 1 .. Len(l), NEW a, RestAt(l, h, i, a)
    PROVE  l[i] % 16 = 8 /\ l[i] % PageSize # 0
  <1>1. PICK j \in 1 .. Len(l) : l[j] = a
    BY DEF RestAt
  <1>2. a \in Nat /\ h[a].size \in Nat /\ End(h, a) = a + 24 + h[a].size
    BY <1>1, BlockIs
  <1>3. a % 16 = 0 /\ h[a].size % 16 = 0 /\ l[i] = End(h, a)
    BY <1>2, PageAligned DEF RestAt
  <1>4. PICK s \in Nat : s = h[a].size /\ s % 16 = 0
    BY <1>2, <1>3
  <1>5. (a + 24 + s) % 16 = 8
    BY <1>2, <1>3, <1>4, EndMod
  <1>6. l[i] % 16 = 8 /\ l[i] \in Nat
    <2>1. PICK y \in Nat : y = a + 24 + s /\ y % 16 = 8
      BY <1>2, <1>5
    <2>2. l[i] = y
      BY <1>2, <1>3, <1>4, <2>1
    <2> QED BY <2>1, <2>2
  <1> QED BY <1>6, PageAligned

\* What the walk has left of the first k blocks when all of them are free.
Clean(l, h, k, al, ah, a) ==
    /\ \A i \in 1 .. Len(al) :
         /\ al[i] % PageSize = 0 /\ ah[al[i]].free
         /\ \/ ah[al[i]].size % 16 = 8
            \/ /\ i = Len(al) /\ k \in 1 .. Len(l) /\ k + 1 \in 1 .. Len(l)
               /\ al[i] = l[k] /\ ah[al[i]] = h[l[k]] /\ RestAt(l, h, k + 1, a)
    /\ \A j \in 1 .. k : l[j] % PageSize = 0 => \E i \in 1 .. Len(al) : al[i] = l[j]

\* A whole region does not touch what follows it, as heap_coalesce sees it.
LEMMA WholeApart ==
    ASSUME NEW h, NEW b \in Nat, NEW c, b % PageSize = 0, c % 16 = 0, h[b].size \in Nat,
           h[b].size + 15 < Word, h[b].size % 16 = 8
    PROVE  ~Mergeable(h, b, c)
  <1>1. PICK s \in Nat : s = h[b].size /\ s % 16 = 8 /\ align_up(s) = s + 8
    BY AlignIs
  <1>2. b % 16 = 0
    BY PageAligned
  <1>3. b + 24 + (s + 8) # c
    <2> SUFFICES ASSUME b + 24 + (s + 8) = c PROVE FALSE
      OBVIOUS
    <2>1. PICK y \in Nat : y = s + 8 /\ y % 16 = 0
      BY <1>1
    <2>2. (b + 24 + y) % 16 = 8
      BY <1>2, <2>1, EndMod
    <2> QED BY <2>1, <2>2
  <1> QED BY <1>1, <1>3 DEF Mergeable, HeaderSize

\* The last block that the walk has left.
LEMMA LastIs ==
    ASSUME NEW l, NEW h, Sound(l, h), Snug(l, h), NEW k \in Nat, k < Len(l),
           NEW al, NEW ah, Walked(l, h, k, al, ah), k > 0
    PROVE  /\ Len(al) \in Nat /\ Len(al) \in 1 .. Len(al)
           /\ al[Len(al)] \in Nat /\ ah[al[Len(al)]].size \in Nat
           /\ End(ah, al[Len(al)]) = al[Len(al)] + 24 + ah[al[Len(al)]].size
           /\ End(ah, al[Len(al)]) = End(h, l[k])
           /\ ah[al[Len(al)]].size + 15 < Word
  <1>1. Sound(al, ah) /\ al # <<>> /\ End(ah, al[Len(al)]) = End(h, l[k]) /\ al \in Seq(Nat)
    BY DEF Walked, Sound
  <1>2. Len(al) \in Nat /\ Len(al) \in 1 .. Len(al)
    BY <1>1, EmptySeq
  <1>3. /\ al[Len(al)] \in Nat /\ ah[al[Len(al)]].size \in Nat
        /\ End(ah, al[Len(al)]) = al[Len(al)] + 24 + ah[al[Len(al)]].size
    BY <1>1, <1>2, BlockIs
  <1>4. End(h, l[k]) <= Word
    <2>1. k \in 1 .. Len(l)
      BY DEF Sound
    <2> QED BY <2>1 DEF Snug
  <1>5. ah[al[Len(al)]].size + 15 < Word
    <2>1. PICK b \in Nat, s \in Nat : b = al[Len(al)] /\ s = ah[b].size /\ b + 24 + s <= Word
      BY <1>1, <1>3, <1>4
    <2>2. s + 15 < Word
      BY <2>1, SpaceIs
    <2> QED BY <2>1, <2>2
  <1> QED BY <1>1, <1>2, <1>3, <1>5

\* The walk comes to the start of a region.
LEMMA CleanOn ==
    ASSUME NEW l, NEW h, Sound(l, h), Snug(l, h), NEW k \in Nat, k < Len(l),
           NEW al, NEW ah, Walked(l, h, k, al, ah), NEW a, Clean(l, h, k, al, ah, a),
           WholeAt(l, h, k + 1) \/ LentAt(l, h, k + 1, a), h[l[k + 1]].free
    PROVE  /\ ~(al # <<>> /\ Mergeable(ah, al[Len(al)], l[k + 1]))
           /\ Clean(l, h, k + 1, Append(al, l[k + 1]), ah, a)
  <1>1. PICK p \in 1 .. Len(l), c \in Nat : p = k + 1 /\ c = l[p] /\ ah[c] = h[c]
    BY WalkAhead
  <1>2. c % PageSize = 0 /\ c % 16 = 0
    <2>1. c % PageSize = 0
      BY <1>1 DEF WholeAt, LentAt
    <2> QED BY <2>1, PageAligned
  <1>3. ~RestAt(l, h, p, a)
    BY <1>1, <1>2, RestIs
  <1>4. Len(al) \in Nat /\ al \in Seq(Nat)
    BY DEF Walked, Sound
  <1>5. \A i \in 1 .. Len(al) : al[i] % PageSize = 0 /\ ah[al[i]].free /\ ah[al[i]].size % 16 = 8
    BY <1>1, <1>3 DEF Clean
  <1>6. ~(al # <<>> /\ Mergeable(ah, al[Len(al)], c))
    <2> SUFFICES ASSUME al # <<>> PROVE ~Mergeable(ah, al[Len(al)], c)
      OBVIOUS
    <2>1. k > 0
      BY DEF Walked
    <2>2. /\ Len(al) \in 1 .. Len(al) /\ al[Len(al)] \in Nat /\ ah[al[Len(al)]].size \in Nat
          /\ ah[al[Len(al)]].size + 15 < Word
      BY <2>1, LastIs
    <2>3. PICK b \in Nat : /\ b = al[Len(al)] /\ b % PageSize = 0 /\ ah[b].size \in Nat
                           /\ ah[b].size + 15 < Word /\ ah[b].size % 16 = 8
      BY <1>5, <2>2
    <2> QED BY <1>2, <2>3, WholeApart
  <1>7. PICK n \in Nat : n = Len(al)
    BY <1>4
  <1>8. PICK bl : bl = Append(al, c)
    OBVIOUS
  <1>9. Len(bl) = n + 1 /\ bl[n + 1] = c /\ \A i \in 1 .. n : bl[i] = al[i]
    BY <1>4, <1>7, <1>8
  <1>10. ASSUME NEW i \in 1 .. n + 1
        PROVE  /\ bl[i] % PageSize = 0 /\ ah[bl[i]].free
               /\ \/ ah[bl[i]].size % 16 = 8
                  \/ /\ i = n + 1 /\ p \in 1 .. Len(l) /\ p + 1 \in 1 .. Len(l)
                     /\ bl[i] = l[p] /\ ah[bl[i]] = h[l[p]] /\ RestAt(l, h, p + 1, a)
    <2>1. CASE i \in 1 .. n
      BY <1>5, <1>7, <1>9, <2>1
    <2>2. CASE i = n + 1
      <3>1. bl[i] = c /\ c = l[p] /\ ah[bl[i]] = h[c] /\ h[c].free
        BY <1>1, <1>7, <1>9, <2>2
      <3>2. h[c].size % 16 = 8 \/ (p + 1 \in 1 .. Len(l) /\ RestAt(l, h, p + 1, a))
        BY <1>1 DEF WholeAt, LentAt
      <3> QED BY <1>2, <2>2, <3>1, <3>2
    <2> QED BY <2>1, <2>2
  <1>11. ASSUME NEW j \in 1 .. p, l[j] % PageSize = 0 PROVE \E i \in 1 .. n + 1 : bl[i] = l[j]
    <2>1. CASE j = p
      BY <1>1, <1>7, <1>9, <2>1
    <2>2. CASE j # p
      <3>1. j \in 1 .. k
        BY <1>1, <2>2
      <3>2. PICK i \in 1 .. n : al[i] = l[j]
        BY <1>7, <1>9, <1>11, <3>1 DEF Clean
      <3>3. i \in 1 .. n + 1
        BY <1>7, <1>9
      <3> QED BY <1>7, <1>9, <3>2, <3>3
    <2> QED BY <2>1, <2>2
  <1>12. Clean(l, h, p, bl, ah, a)
    BY <1>7, <1>9, <1>10, <1>11 DEF Clean
  <1> QED BY <1>1, <1>6, <1>8, <1>12

\* The walk comes to the rest of the block before it, and joins the two.
LEMMA CleanMerge ==
    ASSUME NEW l, NEW h, Sound(l, h), Snug(l, h), NEW k \in Nat, k < Len(l),
           NEW al, NEW ah, Walked(l, h, k, al, ah), NEW a, Clean(l, h, k, al, ah, a),
           RestAt(l, h, k + 1, a)
    PROVE  /\ al # <<>> /\ Mergeable(ah, al[Len(al)], l[k + 1])
           /\ Clean(l, h, k + 1, al, With(ah, al[Len(al)], Merged(ah, al[Len(al)], l[k + 1]), TRUE), a)
  <1>1. PICK p \in 1 .. Len(l), c \in Nat : p = k + 1 /\ c = l[p] /\ ah[c] = h[c]
    BY WalkAhead
  <1>2. /\ k \in 1 .. Len(l) /\ l[k] = a /\ a % PageSize = 0 /\ h[a].size % 16 = 0
        /\ c = End(h, a) /\ h[c].free /\ h[c].size % 16 = 0
    <2>1. p - 1 = k
      BY <1>1
    <2> QED BY <1>1, <2>1 DEF RestAt
  <1>3. c % 16 = 8 /\ c % PageSize # 0
    BY <1>1, RestIs
  <1>4. PICK n \in Nat, b \in Nat, s \in Nat :
          /\ n = Len(al) /\ n \in 1 .. n /\ b = al[n] /\ s = ah[b].size
          /\ End(ah, b) = b + 24 + s /\ End(ah, b) = c /\ s + 15 < Word
    <2>1. k > 0
      BY <1>2
    <2>2. /\ Len(al) \in Nat /\ Len(al) \in 1 .. Len(al)
          /\ al[Len(al)] \in Nat /\ ah[al[Len(al)]].size \in Nat
          /\ End(ah, al[Len(al)]) = al[Len(al)] + 24 + ah[al[Len(al)]].size
          /\ End(ah, al[Len(al)]) = End(h, l[k])
          /\ ah[al[Len(al)]].size + 15 < Word
      BY <2>1, LastIs
    <2> QED BY <1>2, <2>2
  <1>5. b % PageSize = 0 /\ ah[b].free
    BY <1>4 DEF Clean
  <1>6. s % 16 # 8
    <2> SUFFICES ASSUME s % 16 = 8 PROVE FALSE
      OBVIOUS
    <2>1. b % 16 = 0
      BY <1>5, PageAligned
    <2>2. (b + 24 + s) % 16 = 0
      BY <2>1, EndMod
    <2>3. c % 16 = 0
      BY <1>4, <2>2
    <2> QED BY <1>3, <2>3
  <1>7. b = a /\ ah[b] = h[a]
    BY <1>2, <1>4, <1>6 DEF Clean
  <1>8. s % 16 = 0 /\ align_up(s) = s
    <2>1. s % 16 = 0
      BY <1>2, <1>4, <1>7
    <2> QED BY <1>4, <2>1, AlignIs
  <1>9. al # <<>> /\ Mergeable(ah, b, c)
    <2>1. b + 24 + align_up(s) = c
      BY <1>4, <1>8
    <2>2. al # <<>>
      BY <1>2 DEF Walked
    <2> QED BY <1>1, <1>2, <1>4, <1>5, <2>1, <2>2 DEF Mergeable, HeaderSize
  <1>10. PICK t \in Nat : t = h[c].size /\ t % 16 = 0
    <2>1. h[c].size \in Nat
      BY <1>1, BlockIs
    <2> QED BY <1>2, <2>1
  <1>11. PICK size \in Nat : size = Merged(ah, b, c) /\ size % 16 = 8
    <2>1. Merged(ah, b, c) = s + 24 + t
      BY <1>1, <1>4, <1>10 DEF Merged, HeaderSize
    <2>2. s + 24 + t \in Nat
      OBVIOUS
    <2>3. (s + 24 + t) % 16 = 8
      BY <1>8, <1>10, EndMod
    <2> QED BY <2>1, <2>2, <2>3
  <1>12. PICK g : g = With(ah, b, size, TRUE) /\ Written(g, ah, b, size, TRUE)
    <2>1. TRUE \in BOOLEAN /\ ah \in [DOMAIN ah -> Header]
      BY DEF Walked, Sound
    <2> QED BY <2>1, WithIs, Zenon
  <1>13. Sound(al, ah)
    BY DEF Walked
  <1>14. ASSUME NEW i \in 1 .. n
         PROVE  al[i] % PageSize = 0 /\ g[al[i]].free /\ g[al[i]].size % 16 = 8
    <2>1. CASE i = n
      <3>1. g[b] = [size |-> size, free |-> TRUE]
        BY <1>12, Zenon DEF Written
      <3>2. g[b].free /\ g[b].size = size
        BY <3>1
      <3> QED BY <1>4, <1>5, <1>11, <2>1, <3>2
    <2>2. CASE i # n
      <3>1. al[i] # b
        BY <1>4, <1>13, <2>2, Distinct
      <3>2. g[al[i]] = ah[al[i]]
        BY <1>4, <1>12, <1>13, <3>1 DEF Written, Sound
      <3>3. al[i] % PageSize = 0 /\ ah[al[i]].free /\ ah[al[i]].size % 16 = 8
        BY <1>4, <2>2 DEF Clean
      <3> QED BY <3>2, <3>3
    <2> QED BY <2>1, <2>2
  <1>15. ASSUME NEW j \in 1 .. p, l[j] % PageSize = 0 PROVE \E i \in 1 .. n : al[i] = l[j]
    <2>1. j # p
      BY <1>1, <1>3, <1>15
    <2>2. j \in 1 .. k
      BY <1>1, <2>1
    <2> QED BY <1>4, <1>15, <2>2 DEF Clean
  <1>16. Clean(l, h, p, al, g, a)
    BY <1>4, <1>14, <1>15 DEF Clean
  <1> QED BY <1>1, <1>4, <1>9, <1>11, <1>12, <1>16

LEMMA CleanStep ==
    ASSUME NEW l, NEW h, Sound(l, h), Snug(l, h), NEW k \in Nat, k < Len(l),
           NEW acc, Walked(l, h, k, acc.list, acc.hdr), NEW a, Clean(l, h, k, acc.list, acc.hdr, a),
           OnLoan(l, h, a), \A i \in 1 .. Len(l) : h[l[i]].free,
           NEW next, next = merge_next(acc, l[k + 1])
    PROVE  Clean(l, h, k + 1, next.list, next.hdr, a)
  <1>1. PICK al, ah : al = acc.list /\ ah = acc.hdr
    OBVIOUS
  <1>2. Last(al) = al[Len(al)] /\ k + 1 \in 1 .. Len(l) /\ h[l[k + 1]].free
    BY WalkAhead DEF Last
  <1>3. CASE RestAt(l, h, k + 1, a)
    <2>1. PICK nh : nh = With(ah, al[Len(al)], Merged(ah, al[Len(al)], l[k + 1]), TRUE)
      OBVIOUS
    <2>2. /\ al # <<>> /\ Mergeable(ah, al[Len(al)], l[k + 1]) /\ Clean(l, h, k + 1, al, nh, a)
      BY <1>1, <1>3, <2>1, CleanMerge
    <2>3. next = Mem(al, nh)
      BY <1>1, <1>2, <2>1, <2>2 DEF merge_next
    <2> QED BY <2>2, <2>3 DEF Mem
  <1>4. CASE WholeAt(l, h, k + 1) \/ LentAt(l, h, k + 1, a)
    <2>1. /\ ~(al # <<>> /\ Mergeable(ah, al[Len(al)], l[k + 1]))
          /\ Clean(l, h, k + 1, Append(al, l[k + 1]), ah, a)
      BY <1>1, <1>2, <1>4, CleanOn
    <2>2. next = Mem(Append(al, l[k + 1]), ah)
      BY <1>1, <1>2, <2>1 DEF merge_next
    <2> QED BY <2>1, <2>2 DEF Mem
  <1> QED BY <1>2, <1>3, <1>4 DEF OnLoan

\* All blocks of list k are whole regions, those of list l among them.
IsWhole(l, k, g) ==
    /\ Whole(k, g)
    /\ \A j \in 1 .. Len(l) : l[j] % PageSize = 0 => \E i \in 1 .. Len(k) : k[i] = l[j]

\* heap_coalesce makes the regions whole again.
LEMMA CoalesceWhole ==
    ASSUME NEW l, NEW h, NEW fs, fs \subseteq 1 .. FrameLimit - 1, Tiles(l, h, fs),
           NEW a, OnLoan(l, h, a), \A i \in 1 .. Len(l) : h[l[i]].free,
           NEW k, NEW g, k = heap_coalesce(Mem(l, h)).list, g = heap_coalesce(Mem(l, h)).hdr
    PROVE  IsWhole(l, k, g)
  <1>0. Sound(l, h) /\ Snug(l, h)
    BY TilesSnug DEF Tiles
  <1>1. PICK n \in Nat : n = Len(l)
    BY <1>0 DEF Sound
  <1>2. PICK f : Walks(f, l, Mem(<<>>, h), n) /\ heap_coalesce(Mem(l, h)) = f[n]
    <2>1. PICK m : m = Mem(l, h) /\ m.list = l /\ m.hdr = h
      BY MemIs
    <2> QED BY <1>1, <2>1, CoalesceIs
  <1>3. f[0] = Mem(<<>>, h) /\ \A j \in 0 .. n : j < n => f[j + 1] = merge_next(f[j], l[j + 1])
    BY <1>1, <1>2, WalkedOn
  <1> DEFINE Fine(j) == /\ f[j] = Mem(f[j].list, f[j].hdr) /\ Walked(l, h, j, f[j].list, f[j].hdr)
                        /\ Clean(l, h, j, f[j].list, f[j].hdr, a)
             S == {j \in Nat : j <= n => Fine(j)}
  <1>4. 0 \in S
    <2>1. Sound(<<>>, h) /\ Len(<<>>) = 0
      BY <1>0, EmptySeq DEF Sound
    <2>2. Walked(l, h, 0, <<>>, h)
      BY <2>1 DEF Walked, Covered
    <2>3. Clean(l, h, 0, <<>>, h, a)
      BY <2>1 DEF Clean
    <2> QED BY <1>3, <2>2, <2>3 DEF Mem
  <1>5. ASSUME NEW j \in Nat, j \in S PROVE j + 1 \in S
    <2> SUFFICES ASSUME j + 1 <= n PROVE Fine(j + 1)
      OBVIOUS
    <2>1. j < n /\ j \in 0 .. n
      BY <1>1
    <2>2. Fine(j)
      BY <1>5, <2>1
    <2>3. f[j + 1] = merge_next(f[j], l[j + 1])
      BY <1>3, <2>1
    <2>4. f[j + 1] = Mem(f[j + 1].list, f[j + 1].hdr) /\ Walked(l, h, j + 1, f[j + 1].list, f[j + 1].hdr)
      BY <1>0, <1>1, <2>1, <2>2, <2>3, WalkStep
    <2>5. Clean(l, h, j + 1, f[j + 1].list, f[j + 1].hdr, a)
      BY <1>0, <1>1, <2>1, <2>2, <2>3, CleanStep
    <2> QED BY <2>4, <2>5
  <1> HIDE DEF S
  <1>6. n \in S
    BY <1>1, <1>4, <1>5, Reaches
  <1>7. Clean(l, h, n, k, g, a)
    <2>1. n <= n
      BY <1>1
    <2>2. Clean(l, h, n, f[n].list, f[n].hdr, a)
      BY <1>6, <2>1 DEF S
    <2> QED BY <1>2, <2>2
  <1>8. ~(n + 1 \in 1 .. n)
    BY <1>1
  <1> QED BY <1>1, <1>7, <1>8 DEF Clean, IsWhole, Whole, WholeAt

\* Nothing is lent, or one block is.
Lone ==
    /\ \A a1, a2 \in live : a1 = a2
    /\ live = {} => Whole(list, hdr)
    /\ \A a \in live : OnLoan(list, hdr, a.ptr - 24)

LEMMA RestMod ==
    ASSUME NEW s \in Nat, NEW v \in Nat, NEW r \in Nat, r = s - v - 24, s % 16 = 8, v % 16 = 0
    PROVE  r % 16 = 0
  <1>1. PICK i \in Nat : s = 16 * i + 8
    OBVIOUS
  <1>2. PICK j \in Nat : v = 16 * j
    OBVIOUS
  <1>3. r = 16 * (i - j - 1)
    BY <1>1, <1>2
  <1> QED BY <1>3

\* A block of its own region is lent, at the start of the region.
LEMMA TakeLoan ==
    ASSUME NEW l, NEW h, NEW fs, Whole(l, h), NEW i, NEW b, NEW v, NEW n, NEW t,
           Takes(l, h, fs, i, b, v, n, t), IsTake(l, h, fs, b, t)
    PROVE  OnLoan(list', hdr', b) /\ \A j \in 1 .. Len(l) : \E q \in 1 .. Len(list') : list'[q] = l[j]
  <1>1. /\ CanCut(l, h, fs, i, b, v) /\ v % 16 = 0 /\ IsCut(l, h, fs, i, b, v, list', t)
    BY DEF Takes
  <1>2. PICK k, g : k = list' /\ g = hdr'
    OBVIOUS
  <1>3. /\ Sound(l, h) /\ i \in 1 .. Len(l) /\ b \in Nat /\ b = l[i] /\ v \in Nat
    BY <1>1 DEF CanCut, Tiles
  <1>4. /\ Sound(k, t) /\ Len(k) \in Nat
        /\ \A j \in 1 .. Len(l) : /\ \E q \in 1 .. Len(k) : k[q] = l[j]
                                  /\ j # i => t[l[j]] = h[l[j]]
        /\ \/ k = l /\ t = h
           \/ /\ Inserted(k, l, i + 1, End(t, b)) /\ t[End(t, b)].free /\ t[b].size = v
              /\ t[End(t, b)].size = h[b].size - v - 24
    BY <1>1, <1>2 DEF IsCut, Tiles, Sound
  <1>5. /\ \A q \in 1 .. Len(k) : g[k[q]].size = t[k[q]].size /\ (k[q] # b => g[k[q]] = t[k[q]])
    BY <1>2 DEF IsTake
  <1>6. b % PageSize = 0 /\ h[b].size % 16 = 8 /\ h[b].size \in Nat
    <2>1. h[b].size \in Nat
      BY <1>3, BlockIs
    <2> QED BY <1>3, <2>1 DEF Whole, WholeAt
  <1>7. g[b].size = t[b].size
    BY <1>3, <1>4, <1>5
  \* The other blocks are the whole regions they were.
  <1>8. ASSUME NEW q \in 1 .. Len(k), NEW j \in 1 .. Len(l), j # i, k[q] = l[j] PROVE WholeAt(k, g, q)
    <2>1. k[q] # b
      BY <1>3, <1>8, Distinct
    <2>2. g[k[q]] = h[l[j]]
      BY <1>4, <1>5, <1>8, <2>1
    <2> QED BY <1>8, <2>2 DEF Whole, WholeAt
  <1>9. CASE k = l /\ t = h
    <2>1. \A q \in 1 .. Len(k) : WholeAt(k, g, q) \/ LentAt(k, g, q, b)
      <3> TAKE q \in 1 .. Len(k)
      <3>1. CASE q = i
        BY <1>3, <1>6, <1>7, <1>9, <3>1 DEF LentAt
      <3>2. CASE q # i
        BY <1>8, <1>9, <3>2
      <3> QED BY <3>1, <3>2
    <2> QED BY <1>2, <1>4, <2>1 DEF OnLoan
  <1>10. CASE /\ Inserted(k, l, i + 1, End(t, b)) /\ t[End(t, b)].free /\ t[b].size = v
              /\ t[End(t, b)].size = h[b].size - v - 24
    <2>1. PICK p \in Nat, e \in Nat : p = i + 1 /\ p - 1 = i /\ e = End(t, b)
      <3>1. i + 1 \in Nat /\ (i + 1) - 1 = i
        BY <1>3
      <3>2. End(t, b) \in Nat
        <4>1. PICK q \in 1 .. Len(k) : k[q] = b
          BY <1>3, <1>4
        <4> QED BY <1>4, <4>1, BlockIs
      <3> QED BY <3>1, <3>2
    <2>2. /\ p \in 1 .. Len(k) /\ k[p] = e /\ i \in 1 .. Len(k) /\ k[i] = b
      <3>1. p \in 1 .. Len(k) /\ k[p] = e
        BY <1>10, <2>1, InsertedKeeps
      <3>2. i \in 1 .. Len(k)
        BY <1>3, <1>4, <2>1, <3>1
      <3>3. i < i + 1
        BY <1>3
      <3> QED BY <1>3, <1>10, <3>1, <3>2, <3>3 DEF Inserted
    <2>3. t[b].size \in Nat /\ e = b + 24 + t[b].size /\ t[e].size \in Nat
      <3>1. Sound(k, t) /\ i \in 1 .. Len(k) /\ p \in 1 .. Len(k)
        BY <1>4, <2>2
      <3>2. t[k[i]].size \in Nat /\ End(t, k[i]) = k[i] + 24 + t[k[i]].size /\ t[k[p]].size \in Nat
        BY <3>1, BlockIs
      <3> QED BY <2>1, <2>2, <3>2
    <2>4. e # b
      BY <1>3, <2>3
    <2>5. g[e] = t[e] /\ End(g, b) = e
      BY <1>5, <1>7, <2>1, <2>2, <2>4 DEF End
    <2>6. t[e].size % 16 = 0
      <3>1. PICK z \in Nat, r \in Nat : z = h[b].size /\ r = t[e].size /\ r = z - v - 24 /\ z % 16 = 8
        BY <1>6, <1>10, <2>1, <2>3
      <3>2. r % 16 = 0
        BY <1>1, <1>3, <3>1, RestMod
      <3> QED BY <3>1, <3>2
    <2>7. RestAt(k, g, p, b)
      BY <1>1, <1>6, <1>7, <1>10, <2>1, <2>2, <2>5, <2>6 DEF RestAt
    <2>8. LentAt(k, g, i, b)
      BY <1>6, <2>1, <2>2, <2>7 DEF LentAt
    <2>9. ASSUME NEW q \in 1 .. Len(k) PROVE WholeAt(k, g, q) \/ LentAt(k, g, q, b) \/ RestAt(k, g, q, b)
      <3>1. \/ q = p
            \/ q < p /\ q \in 1 .. Len(l) /\ k[q] = l[q]
            \/ p < q /\ q - 1 \in 1 .. Len(l) /\ p <= q - 1 /\ k[q] = l[q - 1]
        BY <1>10, <2>1, InsertedPlaces
      <3>2. CASE q = p
        BY <2>7, <3>2
      <3>3. CASE q < p /\ q \in 1 .. Len(l) /\ k[q] = l[q]
        BY <1>8, <2>8, <3>3
      <3>4. CASE p <= q - 1 /\ q - 1 \in 1 .. Len(l) /\ k[q] = l[q - 1]
        <4>1. q - 1 # i
          BY <1>3, <2>1, <3>4
        <4> QED BY <1>8, <3>4, <4>1
      <3> QED BY <3>1, <3>2, <3>3, <3>4
    <2> QED BY <1>2, <1>4, <2>9 DEF OnLoan
  <1> QED BY <1>4, <1>9, <1>10

\* A new region among whole regions.
LEMMA RegionWhole ==
    ASSUME Core, Whole(list, hdr), NEW s, NEW p, NEW b, NEW size, NEW k, NEW g, NEW q, NEW kk, NEW gg,
           Given(s, p), Region(s, p, b, size, k, g, q, kk, gg)
    PROVE  /\ Whole(kk, gg) /\ \E i \in 1 .. Len(kk) : kk[i] = b
           /\ \A j \in 1 .. Len(list) : list[j] % PageSize = 0 => \E i \in 1 .. Len(kk) : kk[i] = list[j]
  <1>1. /\ b \in Nat /\ b = s * PageSize /\ size \in Nat /\ size = p * PageSize - 24 /\ s \in Nat /\ p \in Nat
        /\ Written(g, hdr, b, size, TRUE) /\ Inserted(k, list, q, b)
        /\ Tiles(k, g, held \cup RunOf(s, p)) /\ \A i \in 1 .. Len(list) : list[i] # b
        /\ kk = heap_coalesce(Mem(k, g)).list /\ gg = heap_coalesce(Mem(k, g)).hdr
        /\ RunOf(s, p) \subseteq free
    BY DEF Region, Given
  <1>2. b % PageSize = 0 /\ size % 16 = 8
    <2>1. (s * PageSize) % PageSize = 0 /\ (p * PageSize) % PageSize = 0
      BY <1>1, PageMod
    <2>2. PICK z \in Nat : z = p * PageSize
      BY <1>1, PageIs
    <2>3. z % 16 = 0
      BY <2>1, <2>2, PageAligned
    <2>4. PICK y \in Nat : z = 16 * y
      BY <2>3
    <2>5. size = 16 * y - 24
      BY <1>1, <2>2, <2>4
    <2>6. PICK x \in Nat : x = size
      BY <1>1
    <2>7. x = 16 * y - 24
      BY <2>5, <2>6
    <2>8. x % 16 = 8
      <3> HIDE <1>1, <2>1, <2>2, <2>3, <2>4, <2>5, <2>6
      <3> QED BY <2>7
    <2> QED BY <1>1, <2>1, <2>6, <2>8
  <1>3. g[b].free /\ g[b].size = size
    <2>1. g[b] = [size |-> size, free |-> TRUE]
      BY <1>1, Zenon DEF Written
    <2> QED BY <2>1
  <1>4. \A i \in 1 .. Len(list) : g[list[i]] = hdr[list[i]]
    BY <1>1, CoreFrames DEF Written, Sound
  <1>5. ASSUME NEW i \in 1 .. Len(k) PROVE WholeAt(k, g, i)
    <2>1. CASE k[i] = b
      BY <1>2, <1>3, <2>1 DEF WholeAt
    <2>2. CASE k[i] # b
      <3>1. PICK j \in 1 .. Len(list) : k[i] = list[j]
        BY <1>1, <2>2, InsertedPlaces
      <3> QED BY <1>4, <3>1 DEF Whole, WholeAt
    <2> QED BY <2>1, <2>2
  <1>6. IsWhole(k, kk, gg)
    <2>1. OnLoan(k, g, b) /\ \A i \in 1 .. Len(k) : g[k[i]].free
      BY <1>5 DEF OnLoan, WholeAt
    <2>2. held \cup RunOf(s, p) \subseteq 1 .. FrameLimit - 1
      BY <1>1, CoreFrames
    <2> QED BY <1>1, <2>1, <2>2, CoalesceWhole
  <1>7. /\ q \in 1 .. Len(k) /\ k[q] = b
        /\ \A j \in 1 .. Len(list) : \E i \in 1 .. Len(k) : k[i] = list[j]
    BY <1>1, InsertedKeeps
  <1> QED BY <1>2, <1>6, <1>7 DEF IsWhole

\* A block is taken from a heap of whole regions: what the step keeps.
LEMMA TakeLone ==
    ASSUME NEW l, NEW h, NEW fs, Whole(l, h), NEW i, NEW b, NEW v, NEW n, NEW t, live = {},
           Takes(l, h, fs, i, b, v, n, t), IsTake(l, h, fs, b, t)
    PROVE  /\ Lone' /\ b \in Blocks'
           /\ \A j \in 1 .. Len(l) : l[j] \in Blocks'
  <1>1. OnLoan(list', hdr', b) /\ \A j \in 1 .. Len(l) : \E q \in 1 .. Len(list') : list'[q] = l[j]
    BY TakeLoan
  <1>2. i \in 1 .. Len(l) /\ b \in Nat /\ b = l[i] /\ live' = {[ptr |-> b + HeaderSize, asked |-> n]}
    BY DEF Takes, CanCut
  <1>3. \A a \in live' : a.ptr - 24 = b
    <2>1. \A a \in live' : a.ptr = b + 24
      BY <1>2 DEF HeaderSize
    <2>2. (b + 24) - 24 = b
      BY <1>2
    <2> QED BY <2>1, <2>2
  <1>4. live' # {} /\ \A a1, a2 \in live' : a1 = a2
    BY <1>2
  <1>5. Lone'
    BY <1>1, <1>3, <1>4 DEF Lone
  <1>6. list' \in Seq(Nat)
    BY DEF IsTake, Good, Tiles, Sound
  <1>7. \A j \in 1 .. Len(l) : l[j] \in Blocks'
    BY <1>1, <1>6, RangeIs DEF Blocks
  <1> QED BY <1>2, <1>5, <1>7

\* Every block of the list stays, or every region at least.
LEMMA KeptIs ==
    ASSUME Core, NewRegionKept,
           \A j \in 1 .. Len(list) : list[j] % PageSize = 0 => list[j] \in Blocks'
    PROVE  RegionsKept
  <1>1. \A b \in Blocks : \E j \in 1 .. Len(list) : list[j] = b
    BY CoreFrames, RangeIs DEF Blocks
  <1> QED BY <1>1 DEF RegionsKept

LEMMA LoneFit ==
    ASSUME Core, Lone, live = {}, NEW n \in Nat, n + 2 * PageSize <= Word, kmalloc_fit(n, n)
    PROVE  Lone' /\ RegionsKept
  <1>1. PICK i, b, t : Takes(list, hdr, held, i, b, align_up(n), n, t)
    BY FitTakes
  <1>2. IsTake(list, hdr, held, b, t)
    BY <1>1, CoreFrames, TakeStep DEF Core
  <1>3. Lone' /\ \A j \in 1 .. Len(list) : list[j] \in Blocks'
    BY <1>1, <1>2, TakeLone DEF Lone
  <1>4. NewRegionKept
    BY DEF NewRegionKept, kmalloc_fit, pool
  <1> QED BY <1>3, <1>4, KeptIs

LEMMA LoneExpand ==
    ASSUME Core, Lone, live = {}, NEW n \in Nat, n + 2 * PageSize <= Word, kmalloc_expand(n, n)
    PROVE  Lone' /\ RegionsKept
  <1>1. PICK s, p, b, size, k, g, q, kk, gg : Opens(n, s, p, b, size, k, g, q, kk, gg)
    BY ExpandOpens
  <1>2. Given(s, p) /\ Region(s, p, b, size, k, g, q, kk, gg) /\ b = reply'
    BY <1>1 DEF Opens, Given, Region
  <1>3. Whole(list, hdr)
    BY DEF Lone
  <1>4. /\ Whole(kk, gg) /\ \E i \in 1 .. Len(kk) : kk[i] = b
        /\ \A j \in 1 .. Len(list) : list[j] % PageSize = 0 => \E i \in 1 .. Len(kk) : kk[i] = list[j]
    BY <1>2, <1>3, RegionWhole
  <1>5. PICK i \in 1 .. Len(kk) : kk[i] = b
    BY <1>4
  <1>6. PICK t : Expands(n, s, p, b, size, k, g, q, kk, gg, i, t)
    BY <1>1, <1>5, OpensTakes
  <1>7. IsTake(kk, gg, held', b, t) /\ Takes(kk, gg, held', i, b, align_up(n), n, t)
    BY <1>6, ExpandTake DEF Expands
  <1>8. Lone' /\ b \in Blocks' /\ \A j \in 1 .. Len(kk) : kk[j] \in Blocks'
    BY <1>4, <1>7, TakeLone
  <1>9. NewRegionKept
    BY <1>2, <1>8 DEF NewRegionKept
  <1>10. \A j \in 1 .. Len(list) : list[j] % PageSize = 0 => list[j] \in Blocks'
    BY <1>4, <1>8
  <1> QED BY <1>8, <1>9, <1>10, KeptIs

LEMMA LoneFree ==
    ASSUME Core, Lone, NEW a \in live, kfree(a)
    PROVE  Lone' /\ RegionsKept
  <1>1. PICK b, w : b = a.ptr - HeaderSize /\ w = [hdr EXCEPT ![b].free = TRUE]
    OBVIOUS
  <1>2. PICK k, t, g : /\ k = heap_coalesce(Mem(list, w)).list /\ t = heap_coalesce(Mem(list, w)).hdr
                       /\ g = Readable(t, k, live \ {a})
    OBVIOUS
  <1>3. IsReturned(list, hdr, held, live, used_bytes, a, b, w, k, t, g)
    <2>1. Good(list, hdr, held, live, used_bytes) /\ held \subseteq 1 .. FrameLimit - 1
      BY CoreFrames DEF Core
    <2> QED BY <1>1, <1>2, <2>1, FreeIs
  <1>4. /\ ~hdr[b].free /\ Marked(w, hdr, b, TRUE) /\ Tiles(list, w, held)
        /\ k \in Seq(Nat) /\ \A i \in 1 .. Len(k) : g[k[i]] = t[k[i]]
    BY <1>3 DEF IsReturned, IsRead, Tiles, Sound
  <1>5. live' = live \ {a} /\ list' = k /\ hdr' = g /\ held' = held /\ live' = {}
    <2>1. live \ {a} = {}
      BY DEF Lone
    <2> QED BY <1>1, <1>2, <1>4, <2>1 DEF kfree, pool
  <1>6. OnLoan(list, hdr, b)
    BY <1>1 DEF Lone, HeaderSize
  <1>7. ASSUME NEW i \in 1 .. Len(list)
        PROVE  /\ w[list[i]].size = hdr[list[i]].size /\ End(w, list[i]) = End(hdr, list[i])
               /\ list[i] # b => w[list[i]] = hdr[list[i]]
    <2>1. list[i] \in DOMAIN hdr
      BY CoreFrames DEF Sound
    <2> QED BY <1>4, <2>1 DEF Marked
  <1>8. w[b].free /\ w[b].size = hdr[b].size
    BY <1>4 DEF Marked
  <1>9. \A i \in 1 .. Len(list) : w[list[i]].free
    <2> TAKE i \in 1 .. Len(list)
    <2>1. hdr[list[i]].free \/ list[i] = b
      BY <1>6 DEF OnLoan, WholeAt, LentAt, RestAt
    <2> QED BY <1>7, <1>8, <2>1
  <1>10. OnLoan(list, w, b)
    <2>1. ASSUME NEW i \in 1 .. Len(list), RestAt(list, hdr, i, b) PROVE RestAt(list, w, i, b)
      <3>1. PICK j \in 1 .. Len(list) : j = i - 1 /\ list[j] = b
        BY <2>1 DEF RestAt
      <3>2. End(w, b) = End(hdr, b)
        BY <1>7, <3>1
      <3> QED BY <1>7, <1>8, <1>9, <2>1, <3>2 DEF RestAt
    <2>2. ASSUME NEW i \in 1 .. Len(list) PROVE WholeAt(list, w, i) \/ LentAt(list, w, i, b) \/ RestAt(list, w, i, b)
      <3>1. CASE WholeAt(list, hdr, i)
        BY <1>7, <1>9, <3>1 DEF WholeAt
      <3>2. CASE LentAt(list, hdr, i, b)
        BY <1>8, <2>1, <3>2 DEF LentAt
      <3>3. CASE RestAt(list, hdr, i, b)
        BY <2>1, <3>3
      <3> QED BY <1>6, <3>1, <3>2, <3>3 DEF OnLoan
    <2> QED BY <2>2 DEF OnLoan
  <1>11. IsWhole(list, k, t)
    BY <1>2, <1>4, <1>9, <1>10, CoreFrames, CoalesceWhole
  <1>12. Whole(k, g)
    BY <1>4, <1>11 DEF IsWhole, Whole, WholeAt
  <1>13. Lone'
    BY <1>5, <1>12 DEF Lone
  <1>14. \A j \in 1 .. Len(list) : list[j] % PageSize = 0 => list[j] \in Blocks'
    BY <1>4, <1>5, <1>11, RangeIs DEF IsWhole, Blocks
  <1>15. NewRegionKept
    BY <1>5 DEF NewRegionKept
  <1> QED BY <1>13, <1>14, <1>15, KeptIs

\* A caller that holds at most one allocation at a time, as the only one in
\* the kernel does (cmd_allocdemo, src/shell.c).
OneCaller == use.maxLive <= 1

Alone == use \in Uses /\ (OneCaller => Core /\ Counted /\ Lone)

\* kmalloc is called when nothing is lent.
LEMMA NothingLent ==
    ASSUME Core, OneCaller, NEW n, kmalloc(n, n)
    PROVE  live = {}
  <1>1. use.maxLive \in Nat /\ Cardinality(live) < use.maxLive /\ use.maxLive <= 1
    BY UseAssumption DEF Core, kmalloc, OneCaller
  <1>2. IsFiniteSet(live) /\ Cardinality(live) \in Nat
    BY FS_CardinalityType DEF Core
  <1>3. Cardinality(live) = 0
    BY <1>1, <1>2
  <1> QED BY <1>2, <1>3, FS_EmptySet

\* With one caller the regions are kept.
LEMMA LoneStep ==
    ASSUME Modest, Core, Lone, OneCaller, Next
    PROVE  Lone' /\ RegionsKept
  <1>1. /\ UNCHANGED use
        /\ \/ \E n \in Nat : n + 2 * PageSize <= Word /\ kmalloc(n, n)
           \/ \E a \in live : kfree(a)
    BY StepIs DEF Core
  <1>2. ASSUME NEW n \in Nat, n + 2 * PageSize <= Word, kmalloc(n, n) PROVE Lone' /\ RegionsKept
    <2>1. live = {}
      BY <1>2, NothingLent
    <2>2. CASE kmalloc_fit(n, n)
      BY <1>2, <2>1, <2>2, LoneFit
    <2>3. CASE kmalloc_expand(n, n)
      BY <1>2, <2>1, <2>3, LoneExpand
    <2>4. CASE kmalloc_fail(n)
      <3>1. list' = list /\ hdr' = hdr /\ live' = live /\ held' = held
        BY <2>4 DEF kmalloc_fail, Pool!Refuse
      <3> QED BY <3>1 DEF Lone, RegionsKept, NewRegionKept, Blocks
    <2> QED BY <1>2, <2>2, <2>3, <2>4 DEF kmalloc
  <1>3. ASSUME NEW a \in live, kfree(a) PROVE Lone' /\ RegionsKept
    BY <1>3, LoneFree
  <1> QED BY <1>1, <1>2, <1>3

LEMMA AloneInit ==
    ASSUME Init
    PROVE  Alone
  <1>1. Lone
    <2>1. live = {} /\ list = <<>> /\ Len(<<>>) = 0
      BY EmptySeq DEF Init
    <2> QED BY <2>1 DEF Lone, Whole
  <1> QED BY <1>1, CoreInit, CountedInit DEF Alone, Init

LEMMA AloneStep ==
    ASSUME Modest, Alone, [Next]_vars
    PROVE  Alone'
  <1>1. CASE UNCHANGED vars
    <2>1. Core => Core'
      BY <1>1, IdleStep DEF vars, pool
    <2>2. Counted => Counted'
      BY <1>1 DEF vars, pool, Counted
    <2>3. (Lone => Lone') /\ use' = use
      BY <1>1 DEF vars, Lone
    <2> QED BY <2>1, <2>2, <2>3 DEF Alone, OneCaller
  <1>2. CASE Next
    <2>1. use' = use /\ use \in Uses
      BY <1>2 DEF Next, Alone
    <2>2. ASSUME OneCaller PROVE Core' /\ Counted' /\ Lone'
      <3>1. Core /\ Counted /\ Lone
        BY <2>2 DEF Alone
      <3>2. Lone' /\ RegionsKept
        BY <1>2, <2>2, <3>1, LoneStep
      <3>3. NewRegionKept
        BY <3>2 DEF RegionsKept
      <3> QED BY <1>2, <3>1, <3>2, <3>3, CoreStep, CountedStep
    <2> QED BY <2>1, <2>2 DEF Alone, OneCaller
  <1> QED BY <1>1, <1>2

\* Once a caller that holds one allocation at a time has freed it, no matter
\* how many it made before, the list holds whole regions only: heap_coalesce
\* undoes what heap_split_block did.
THEOREM NoFragments ==
    ASSUME Modest
    PROVE  Spec => []AllFreedIsWhole
  <1>1. Init => Alone
    BY AloneInit
  <1>2. Alone /\ [Next]_vars => Alone'
    BY AloneStep
  <1>3. Alone => AllFreedIsWhole
    <2> SUFFICES ASSUME Alone, use.maxLive = 1, live = {} PROVE \A b \in Blocks : b % PageSize = 0
      BY DEF AllFreedIsWhole
    <2>1. Core /\ Whole(list, hdr)
      <3>1. OneCaller
        BY DEF OneCaller
      <3> QED BY <3>1 DEF Alone, Lone
    <2>2. \A b \in Blocks : \E i \in 1 .. Len(list) : list[i] = b
      BY <2>1, CoreFrames, RangeIs DEF Blocks
    <2> QED BY <2>1, <2>2 DEF Whole, WholeAt
  <1> QED BY <1>1, <1>2, <1>3, PTL DEF Spec

\* For such a caller nothing has to be supposed about the regions: the blocks
\* fill the heap's frames, the pointer it holds is a block of its own, and the
\* two counters are right.
THEOREM OneAtATime ==
    ASSUME Modest
    PROVE  Spec => [](OneCaller => BlocksTile /\ LiveAreBlocks /\ UsedExact)
  <1>1. Init => Alone
    BY AloneInit
  <1>2. Alone /\ [Next]_vars => Alone'
    BY AloneStep
  <1>3. Alone => (OneCaller => BlocksTile /\ LiveAreBlocks /\ UsedExact)
    BY CoreTiles, CoreLive, CountedUsed DEF Alone
  <1> QED BY <1>1, <1>2, <1>3, PTL DEF Spec

\* And it keeps the regions: heap_coalesce, called by heap_expand or by kfree,
\* never makes one of them part of the block before it.
THEOREM OneKeepsRegions ==
    ASSUME Modest
    PROVE  Spec => [][OneCaller => RegionsKept]_vars
  <1>1. Init => Alone
    BY AloneInit
  <1>2. Alone /\ [Next]_vars => Alone'
    BY AloneStep
  <1>3. Alone /\ [Next]_vars => [OneCaller => RegionsKept]_vars
    BY LoneStep DEF Alone
  <1> QED BY <1>1, <1>2, <1>3, PTL DEF Spec
=============================================================================
