------------------------- MODULE ParamStore_proofs -------------------------
(***************************************************************************)
(* Theorems about ParamStore for any number of sectors, of slots in a      *)
(* sector, and of sequence numbers, and any values.                        *)
(***************************************************************************)
EXTENDS ParamStore, WellFoundedInduction, TLAPS

Slots == SectorCount * SlotsPerSector

\* Slots in the order in which they are written.
Index(p) == p[1] * SlotsPerSector + p[2]

\* How many writes before that of slot a the slot p was written last.
Dist(a, p) == IF Index(a) >= Index(p) THEN Index(a) - Index(p)
              ELSE Index(a) - Index(p) + Slots

\* The sequence number d writes before n; zero is left out.
Minus(n, d) == IF n > d THEN n - d ELSE n - d + SeqMod - 1

SlotTypes == [header : Cell, payload : Cell]

Flashes == [Position -> SlotTypes]

HasHeader(fl, p) == fl[p].header.kind = "header"

NoneValid(fl) == \A p \in Position : ~ValidSlot(fl[p])

\* The valid slots carry the numbers of the last writes, that of slot a being n.
Ordered(fl, a, n) ==
    \A p \in Position : ValidSlot(fl[p]) => fl[p].header.seq = Minus(n, Dist(a, p))

-----------------------------------------------------------------------------
(* Induction. *)

\* The least-number principle.
LEMMA Least ==
  ASSUME NEW T, T \subseteq Nat, T # {}
  PROVE  \E x \in T : \A y \in T : x <= y
<1> DEFINE R == OpToRel(<, Nat)
<1>1. IsWellFoundedOn(R, Nat)
  BY NatLessThanWellFounded
<1> HIDE DEF R
<1>2. PICK x \in T : \A y \in T : ~(<<y, x>> \in R)
  BY <1>1, WFMin
<1>3. \A y \in Nat : y < x => <<y, x>> \in R
  BY DEF R, OpToRel
<1>4. \A y \in T : ~(y < x)
  BY <1>2, <1>3
<1>5. x \in Nat /\ \A y \in T : y \in Nat
  OBVIOUS
<1> QED
  BY <1>4, <1>5

\* The loop of scan_for_active_slot() is well defined: for each number of slots
\* there is a list of what it has found after each of them.
LEMMA ScanDefined ==
  ASSUME NEW fl, NEW n \in Nat
  PROVE  \E g : g = [i \in 0 .. n |-> IF i = 0 THEN <<>> ELSE Better(fl, g[i - 1], At(i))]
<1> DEFINE Rule(g, m) == g = [i \in 0 .. m |-> IF i = 0 THEN <<>>
                                             ELSE Better(fl, g[i - 1], At(i))]
           T == {m \in Nat : ~ \E g : Rule(g, m)}
<1>1. SUFFICES ASSUME T # {}
               PROVE  FALSE
  OBVIOUS
<1>2. PICK m \in T : \A k \in T : m <= k
  <2>1. T \subseteq Nat
    OBVIOUS
  <2> HIDE DEF T
  <2> QED
    BY <1>1, <2>1, Least
<1>3. CASE m = 0
  <2> DEFINE g == [i \in 0 .. 0 |-> <<>>]
  <2>1. Rule(g, 0)
    OBVIOUS
  <2> QED
    BY <1>2, <1>3, <2>1
<1>4. CASE m # 0
  <2>1. m - 1 \in Nat /\ m - 1 \notin T /\ m \in Nat
    BY <1>2, <1>4
  <2>2. PICK g : Rule(g, m - 1)
    BY <2>1
  <2> DEFINE h == [i \in 0 .. m |-> IF i = m THEN Better(fl, g[m - 1], At(m)) ELSE g[i]]
             w == [i \in 0 .. m |-> IF i = 0 THEN <<>> ELSE Better(fl, h[i - 1], At(i))]
  <2>3. \A i \in 0 .. m - 1 : g[i] = IF i = 0 THEN <<>> ELSE Better(fl, g[i - 1], At(i))
    BY <2>2
  <2>4. \A i \in 0 .. m : h[i] = IF i = 0 THEN <<>> ELSE Better(fl, h[i - 1], At(i))
    <3> SUFFICES ASSUME NEW i \in 0 .. m
                 PROVE  h[i] = IF i = 0 THEN <<>> ELSE Better(fl, h[i - 1], At(i))
      OBVIOUS
    <3>1. i # 0 => i - 1 \in 0 .. m /\ h[i - 1] = g[i - 1]
      BY <2>1
    <3>2. CASE i = m
      BY <3>1, <3>2, <1>4, <2>1
    <3>3. CASE i # m
      <4>1. i \in 0 .. m - 1
        BY <3>3, <2>1
      <4> QED
        BY <3>1, <3>3, <4>1, <2>3
    <3> QED
      BY <3>2, <3>3
  <2>5. h = w
    <3> HIDE DEF Better, At
    <3>1. DOMAIN h = 0 .. m /\ DOMAIN w = 0 .. m
      OBVIOUS
    <3> QED
      BY <2>4
  <2>6. Rule(h, m)
    BY <2>5
  <2> QED
    BY <2>6, <1>2
<1> QED
  BY <1>3, <1>4

\* What the loop has found after each slot.
LEMMA ScanSteps ==
  ASSUME NEW fl, Slots \in Nat
  PROVE  \E g : /\ g[0] = <<>> /\ Scan(fl) = g[Slots]
                /\ \A i \in 1 .. Slots : g[i] = Better(fl, g[i - 1], At(i))
<1> DEFINE Rule(g) == g = [i \in 0 .. Slots |-> IF i = 0 THEN <<>>
                                               ELSE Better(fl, g[i - 1], At(i))]
           best == CHOOSE g : Rule(g)
<1>1. \E g : Rule(g)
  BY ScanDefined
<1>2. Rule(best)
  <2> HIDE DEF Rule
  <2> QED
    BY <1>1
<1>3. Scan(fl) = best[Slots]
  BY DEF Scan, Slots
<1> HIDE DEF best
<1>4. \A i \in 0 .. Slots : best[i] = IF i = 0 THEN <<>> ELSE Better(fl, best[i - 1], At(i))
  BY <1>2
<1>5. best[0] = <<>> /\ \A i \in 1 .. Slots : best[i] = Better(fl, best[i - 1], At(i))
  BY <1>4
<1> QED
  BY <1>3, <1>5

-----------------------------------------------------------------------------
(* Positions and their indices. *)

\* The geometry: at least one slot, and twice the slots fit the numbers.
LEMMA Sizes ==
  /\ SectorCount \in Nat \ {0} /\ SlotsPerSector \in Nat \ {0}
  /\ Slots \in Nat \ {0} /\ SeqMod \in Nat /\ 2 * (Slots + 1) <= SeqMod
<1>1. /\ SectorCount \in Nat \ {0} /\ SlotsPerSector \in Nat \ {0}
      /\ SeqMod \in Nat /\ 2 * (Slots + 1) <= SeqMod
  BY ParamAssumption DEF Slots
<1>2. Slots \in Nat \ {0}
  BY <1>1 DEF Slots
<1> QED
  BY <1>1, <1>2

\* Multiplication by a positive number keeps the order.
LEMMA Grows ==
  ASSUME NEW k \in Nat \ {0}, NEW x \in Int, NEW y \in Int, x < y
  PROVE  x * k + k <= y * k
  OBVIOUS

\* Quotient and remainder make up the number.
LEMMA DivMod ==
  ASSUME NEW k \in Nat \ {0}, NEW x \in Nat
  PROVE  /\ x \div k \in Nat /\ x % k \in 0 .. k - 1
         /\ x = (x \div k) * k + (x % k)
  OBVIOUS

\* A quotient and a remainder that fit are the ones.
LEMMA DivModUnique ==
  ASSUME NEW k \in Nat \ {0}, NEW q \in Nat, NEW r \in 0 .. k - 1
  PROVE  (q * k + r) \div k = q /\ (q * k + r) % k = r
<1> DEFINE x == q * k + r
           d == x \div k
           m == x % k
<1>1. x \in Nat
  OBVIOUS
<1>2. d \in Nat /\ m \in 0 .. k - 1 /\ x = d * k + m
  BY <1>1, DivMod
<1> HIDE DEF d, m
<1>3. q * k \in Nat /\ d * k \in Nat
  BY <1>2
<1>4. ~(d < q)
  <2> SUFFICES ASSUME d < q
               PROVE  FALSE
    OBVIOUS
  <2>1. d * k + k <= q * k
    BY <1>2, Grows
  <2> QED
    BY ONLY <1>2, <1>3, <2>1, r \in 0 .. k - 1, k \in Nat \ {0}
<1>5. ~(q < d)
  <2> SUFFICES ASSUME q < d
               PROVE  FALSE
    OBVIOUS
  <2>1. q * k + k <= d * k
    BY <1>2, Grows
  <2> QED
    BY ONLY <1>2, <1>3, <2>1, r \in 0 .. k - 1, k \in Nat \ {0}
<1>6. d = q
  BY ONLY <1>2, <1>4, <1>5, q \in Nat
<1>7. m = r
  BY ONLY <1>2, <1>3, <1>6, r \in 0 .. k - 1, k \in Nat \ {0}
<1> QED
  BY <1>6, <1>7 DEF d, m

\* A position is a sector and a slot in it, never the empty tuple.
LEMMA PositionParts ==
  ASSUME NEW p \in Position
  PROVE  /\ p[1] \in 0 .. SectorCount - 1 /\ p[2] \in 0 .. SlotsPerSector - 1
         /\ p = <<p[1], p[2]>> /\ p # <<>>
  BY DEF Position

\* Indices number the positions from 0 to Slots - 1.
LEMMA IndexRange ==
  ASSUME NEW p \in Position
  PROVE  Index(p) \in 0 .. Slots - 1
<1>1. p[1] \in Nat /\ p[1] < SectorCount /\ p[2] \in Nat /\ p[2] < SlotsPerSector
  BY PositionParts, Sizes
<1>2. p[1] * SlotsPerSector + SlotsPerSector <= SectorCount * SlotsPerSector
  BY <1>1, Grows, Sizes
<1>3. p[1] * SlotsPerSector \in Nat
  BY <1>1, Sizes
<1> QED
  BY <1>1, <1>2, <1>3, Sizes DEF Index, Slots

\* The scan reaches every position at its index ...
LEMMA AtIndex ==
  ASSUME NEW p \in Position
  PROVE  At(Index(p) + 1) = p
<1>1. p[1] \in Nat /\ p[2] \in 0 .. SlotsPerSector - 1 /\ p = <<p[1], p[2]>>
  BY PositionParts, Sizes
<1> DEFINE x == p[1] * SlotsPerSector + p[2]
           i == Index(p) + 1
<1>2. i - 1 = x
  BY IndexRange, Sizes DEF Index
<1>3. x \div SlotsPerSector = p[1] /\ x % SlotsPerSector = p[2]
  BY <1>1, DivModUnique, Sizes
<1> HIDE DEF x, i
<1>4. At(i) = <<(i - 1) \div SlotsPerSector, (i - 1) % SlotsPerSector>>
  BY DEF At
<1>5. At(i) = <<x \div SlotsPerSector, x % SlotsPerSector>>
  BY <1>2, <1>4, Zenon
<1> QED
  BY <1>1, <1>3, <1>5, Zenon DEF i

\* ... and every index it runs through is that of a position.
LEMMA IndexAt ==
  ASSUME NEW i \in 1 .. Slots
  PROVE  At(i) \in Position /\ Index(At(i)) = i - 1
<1> DEFINE d == (i - 1) \div SlotsPerSector
           m == (i - 1) % SlotsPerSector
<1>1. i - 1 \in Nat /\ i - 1 < SectorCount * SlotsPerSector
  BY Sizes DEF Slots
<1>2. d \in Nat /\ m \in 0 .. SlotsPerSector - 1 /\ i - 1 = d * SlotsPerSector + m
  BY <1>1, DivMod, Sizes
<1>3. At(i) = <<d, m>>
  BY DEF At
<1> HIDE DEF d, m
<1>4. d < SectorCount
  <2> SUFFICES ASSUME ~(d < SectorCount)
               PROVE  FALSE
    OBVIOUS
  <2>1. SectorCount < d + 1 /\ d + 1 \in Int
    BY <1>2, Sizes
  <2>2. SectorCount * SlotsPerSector + SlotsPerSector <= (d + 1) * SlotsPerSector
    BY <2>1, Grows, Sizes
  <2>3. (d + 1) * SlotsPerSector = d * SlotsPerSector + SlotsPerSector
    BY <1>2, Sizes
  <2>4. d * SlotsPerSector \in Nat /\ SectorCount * SlotsPerSector \in Nat
    BY <1>2, Sizes
  <2> QED
    BY ONLY <1>1, <1>2, <2>2, <2>3, <2>4, Sizes
<1> QED
  BY <1>2, <1>3, <1>4, Sizes DEF Position, Index

\* Different positions have different indices.
LEMMA IndexInjective ==
  ASSUME NEW p \in Position, NEW q \in Position, Index(p) = Index(q)
  PROVE  p = q
  BY AtIndex

\* Within a sector, indices go up with the slot number.
LEMMA SameSector ==
  ASSUME NEW p \in Position, NEW q \in Position, p[1] = q[1]
  PROVE  Index(q) - Index(p) = q[2] - p[2]
<1>1. p[1] \in Nat /\ p[2] \in Nat /\ q[2] \in Nat
  BY PositionParts, Sizes
<1>2. p[1] * SlotsPerSector \in Nat
  BY <1>1, Sizes
<1> QED
  BY <1>1, <1>2 DEF Index

\* Distances between slots.
LEMMA DistRange ==
  ASSUME NEW a \in Position, NEW p \in Position
  PROVE  /\ Dist(a, p) \in 0 .. Slots - 1
         /\ Dist(a, p) = 0 <=> p = a
<1>1. Index(a) \in 0 .. Slots - 1 /\ Index(p) \in 0 .. Slots - 1
  BY IndexRange
<1>2. Index(a) = Index(p) <=> p = a
  BY IndexInjective
<1> QED
  BY <1>1, <1>2, Sizes DEF Dist

\* The distances of two slots from a third one tell them apart.
LEMMA DistInjective ==
  ASSUME NEW a \in Position, NEW p \in Position, NEW q \in Position,
         Dist(a, p) = Dist(a, q)
  PROVE  p = q
<1>1. /\ Index(a) \in 0 .. Slots - 1 /\ Index(p) \in 0 .. Slots - 1
      /\ Index(q) \in 0 .. Slots - 1
  BY IndexRange
<1>2. Index(p) = Index(q)
  BY <1>1, Sizes DEF Dist
<1> QED
  BY <1>2, IndexInjective

\* Seen from a slot b, what is further from a than b is lies by so much nearer.
LEMMA DistFrom ==
  ASSUME NEW a \in Position, NEW b \in Position, NEW p \in Position,
         Dist(a, b) <= Dist(a, p)
  PROVE  Dist(b, p) = Dist(a, p) - Dist(a, b)
<1>1. /\ Index(a) \in 0 .. Slots - 1 /\ Index(b) \in 0 .. Slots - 1
      /\ Index(p) \in 0 .. Slots - 1
  BY IndexRange
<1> QED
  BY <1>1, Sizes DEF Dist

\* prepare_next_slot() goes through the slots in the order of their indices,
\* round and round.
LEMMA NextSlotIs ==
  ASSUME NEW st, st.active \in Position
  PROVE  /\ NextSlot(st) \in Position
         /\ Index(NextSlot(st)) =
              IF Index(st.active) + 1 < Slots THEN Index(st.active) + 1 ELSE 0
         /\ NextSlot(st)[2] # 0 =>
              /\ NextSlot(st)[1] = st.active[1]
              /\ NextSlot(st)[2] = st.active[2] + 1
         /\ NextSlot(st)[2] = 0 /\ SectorCount > 1 => NextSlot(st)[1] # st.active[1]
<1> DEFINE a == st.active
           s == a[1]
           t == a[2]
<1>1. /\ s \in Nat /\ s < SectorCount /\ t \in Nat /\ t < SlotsPerSector /\ a # <<>>
      /\ Index(a) = s * SlotsPerSector + t /\ Index(a) \in 0 .. Slots - 1
  BY PositionParts, IndexRange, Sizes DEF Index
<1>2. NextSlot(st) = IF t + 1 < SlotsPerSector THEN <<s, t + 1>>
                     ELSE <<(s + 1) % SectorCount, 0>>
  BY <1>1 DEF NextSlot
<1> HIDE DEF s, t
<1>3. /\ s * SlotsPerSector \in Nat /\ Slots = SectorCount * SlotsPerSector
      /\ (s + 1) * SlotsPerSector = s * SlotsPerSector + SlotsPerSector
  BY <1>1, Sizes DEF Slots
<1>4. CASE t + 1 < SlotsPerSector
  <2>1. NextSlot(st) = <<s, t + 1>>
    BY <1>2, <1>4
  <2>2. <<s, t + 1>> \in Position
    BY <1>1, <1>4, Sizes DEF Position
  <2>3. Index(<<s, t + 1>>) = Index(a) + 1
    BY <1>1, <1>3 DEF Index
  <2>4. Index(a) + 1 < Slots
    BY <2>2, <2>3, <1>1, IndexRange, Sizes
  <2> QED
    BY <2>1, <2>2, <2>3, <2>4, <1>1 DEF s, t
<1>5. CASE ~(t + 1 < SlotsPerSector)
  <2> DEFINE u == (s + 1) % SectorCount
  <2>1. NextSlot(st) = <<u, 0>>
    BY <1>2, <1>5
  <2>2. t = SlotsPerSector - 1
    BY <1>1, <1>5, Sizes
  <2>3. CASE s + 1 < SectorCount
    <3>1. u = s + 1
      BY <1>1, <2>3, Sizes
    <3> HIDE DEF u
    <3>2. <<u, 0>> \in Position
      BY <1>1, <2>3, <3>1, Sizes DEF Position
    <3>3. Index(<<u, 0>>) = Index(a) + 1
      <4>1. Index(<<u, 0>>) = (s + 1) * SlotsPerSector + 0
        BY <3>1 DEF Index
      <4> QED
        BY <1>1, <1>3, <2>2, <4>1, Sizes
    <3>4. Index(a) + 1 < Slots
      BY <3>2, <3>3, <1>1, IndexRange, Sizes
    <3> QED
      BY <2>1, <3>1, <3>2, <3>3, <3>4, <1>1 DEF s
  <2>4. CASE ~(s + 1 < SectorCount)
    <3>1. s + 1 = SectorCount
      BY <1>1, <2>4, Sizes
    <3>2. u = 0
      BY <3>1, Sizes
    <3> HIDE DEF u
    <3>3. <<u, 0>> \in Position /\ Index(<<u, 0>>) = 0
      BY <3>2, Sizes DEF Position, Index
    <3>4. Index(a) + 1 = Slots
      BY ONLY <1>1, <1>3, <2>2, <3>1, Sizes
    <3>5. SectorCount > 1 => s # 0
      BY <3>1, <1>1, Sizes
    <3> QED
      BY <2>1, <3>2, <3>3, <3>4, <3>5, <1>1, Sizes DEF s
  <2> QED
    BY <2>3, <2>4
<1> QED
  BY <1>4, <1>5

\* One write later every other slot is one write older.
LEMMA DistNext ==
  ASSUME NEW st, st.active \in Position, NEW p \in Position, p # NextSlot(st)
  PROVE  Dist(NextSlot(st), p) = Dist(st.active, p) + 1
<1> DEFINE a == st.active
           b == NextSlot(st)
<1>1. /\ b \in Position
      /\ Index(b) = IF Index(a) + 1 < Slots THEN Index(a) + 1 ELSE 0
  BY NextSlotIs
<1>2. /\ Index(a) \in 0 .. Slots - 1 /\ Index(p) \in 0 .. Slots - 1
      /\ Index(b) \in 0 .. Slots - 1
  BY <1>1, IndexRange
<1>3. Index(p) # Index(b)
  BY <1>1, IndexInjective
<1> HIDE DEF a, b
<1>4. Dist(b, p) = Dist(a, p) + 1
  BY <1>1, <1>2, <1>3, Sizes DEF Dist
<1> QED
  BY <1>4 DEF a, b

-----------------------------------------------------------------------------
(* Sequence numbers. *)

Seqs == 1 .. SeqMod - 1

\* Counting back on the circle of numbers, zero left out, adds up.
LEMMA MinusIs ==
  ASSUME NEW n \in Seqs, NEW d \in 0 .. Slots
  PROVE  /\ Minus(n, d) \in Seqs /\ Minus(n, 0) = n
         /\ \A e \in 0 .. Slots : d + e <= Slots => Minus(Minus(n, d), e) = Minus(n, d + e)
  BY Sizes DEF Seqs, Minus

\* Zero is left out when numbers are handed out.
LEMMA NextSeqIs ==
  ASSUME NEW n \in Seqs
  PROVE  /\ NextSeq(n) \in Seqs /\ Minus(NextSeq(n), 1) = n
         /\ \A d \in 0 .. Slots - 1 : Minus(NextSeq(n), d + 1) = Minus(n, d)
<1>1. NextSeq(n) = IF n + 1 = SeqMod THEN 1 ELSE n + 1
  <2>1. CASE n + 1 = SeqMod
    <3>1. (n + 1) % SeqMod = 0
      BY <2>1, Sizes
    <3> QED
      BY <2>1, <3>1 DEF NextSeq
  <2>2. CASE n + 1 # SeqMod
    <3>1. n + 1 \in 1 .. SeqMod - 1
      BY <2>2, Sizes DEF Seqs
    <3>2. (n + 1) % SeqMod = n + 1
      BY <3>1, Sizes
    <3> QED
      BY <2>2, <3>1, <3>2, Sizes DEF NextSeq
  <2> QED
    BY <2>1, <2>2
<1> QED
  BY <1>1, Sizes DEF Seqs, Minus

\* The comparison on the circle orders the numbers of the last writes, across
\* the wrap: this is where all slots together must span less than half of it.
LEMMA NewerIs ==
  ASSUME NEW n \in Seqs, NEW d \in 0 .. Slots - 1, NEW e \in 0 .. Slots - 1
  PROVE  Newer(Minus(n, d), Minus(n, e)) <=> d < e
<1> DEFINE x == Minus(n, d) - Minus(n, e)
<1>1. Minus(n, d) \in Seqs /\ Minus(n, e) \in Seqs
  BY MinusIs, Sizes
<1>2. x \in Int /\ (Newer(Minus(n, d), Minus(n, e)) <=>
                      (x % SeqMod) > 0 /\ 2 * (x % SeqMod) < SeqMod)
  BY <1>1 DEF Newer, Seqs
<1>3. \/ x = e - d \/ (d < e /\ x = e - d + 1 - SeqMod)
      \/ (e < d /\ x = e - d - 1 + SeqMod)
  BY Sizes DEF Minus, Seqs
<1> HIDE DEF x
<1>4. ASSUME NEW y \in 0 .. SeqMod - 1, x = y \/ x = y - SeqMod
      PROVE  x % SeqMod = y
  BY <1>2, <1>4, Sizes
<1>5. CASE d < e
  <2>1. PICK y \in {e - d, e - d + 1} : x = y \/ x = y - SeqMod
    BY <1>3, <1>5, Sizes
  <2>2. y \in 0 .. SeqMod - 1 /\ y > 0 /\ 2 * y < SeqMod
    BY <1>5, Sizes
  <2>3. x % SeqMod = y
    BY <2>1, <2>2, <1>4
  <2> QED
    BY <1>2, <1>5, <2>2, <2>3
<1>6. CASE e < d
  <2>1. PICK y \in {SeqMod - (d - e), SeqMod - (d - e) - 1} : x = y \/ x = y - SeqMod
    BY <1>3, <1>6, Sizes
  <2>2. y \in 0 .. SeqMod - 1 /\ ~(2 * y < SeqMod)
    BY <1>6, Sizes
  <2>3. x % SeqMod = y
    BY <2>1, <2>2, <1>4
  <2> QED
    BY <1>2, <1>6, <2>2, <2>3
<1>7. CASE d = e
  <2>1. x % SeqMod = 0
    BY <1>3, <1>4, <1>7, Sizes
  <2> QED
    BY <1>2, <1>7, <2>1
<1> QED
  BY <1>5, <1>6, <1>7

-----------------------------------------------------------------------------
(* What the scan finds. *)

\* The loop finds the slot written last among the valid ones.
LEMMA ScanNewest ==
  ASSUME NEW fl, NEW a \in Position, NEW n \in Seqs, Ordered(fl, a, n)
  PROVE  \/ Scan(fl) = <<>> /\ NoneValid(fl)
         \/ /\ Scan(fl) \in Position /\ ValidSlot(fl[Scan(fl)])
            /\ \A q \in Position : ValidSlot(fl[q]) => Dist(a, Scan(fl)) <= Dist(a, q)
<1>1. PICK g : /\ g[0] = <<>> /\ Scan(fl) = g[Slots]
               /\ \A i \in 1 .. Slots : g[i] = Better(fl, g[i - 1], At(i))
  BY ScanSteps, Sizes
<1> DEFINE Found(i) ==
             \/ g[i] = <<>> /\ \A j \in 1 .. i : ~ValidSlot(fl[At(j)])
             \/ /\ g[i] \in Position /\ ValidSlot(fl[g[i]])
                /\ \A j \in 1 .. i : ValidSlot(fl[At(j)]) => Dist(a, g[i]) <= Dist(a, At(j))
           T == {i \in 0 .. Slots : ~Found(i)}
<1>2. Found(0)
  BY <1>1
<1>3. ASSUME NEW i \in 1 .. Slots, Found(i - 1)
      PROVE  Found(i)
  <2> DEFINE b == g[i - 1]
             p == At(i)
  <2>1. p \in Position
    BY IndexAt
  <2>2. g[i] = Better(fl, b, p)
    BY <1>1
  <2>3. \A j \in 1 .. i : j \in 1 .. i - 1 \/ j = i
    BY Sizes
  <2>4. /\ Dist(a, p) \in 0 .. Slots - 1
        /\ ValidSlot(fl[p]) => fl[p].header.seq = Minus(n, Dist(a, p))
    BY <2>1, DistRange DEF Ordered
  <2> HIDE DEF p
  <2>5. CASE ~ValidSlot(fl[p])
    <3>1. g[i] = b
      BY <2>2, <2>5, Zenon DEF Better
    <3> QED
      BY <1>3, <2>3, <2>5, <3>1 DEF p
  <2>6. CASE ValidSlot(fl[p]) /\ b = <<>>
    <3>1. g[i] = p
      BY <2>2, <2>6, Zenon DEF Better
    <3>2. b \notin Position
      BY <2>6, PositionParts
    <3>3. \A j \in 1 .. i - 1 : ~ValidSlot(fl[At(j)])
      BY <1>3, <3>2
    <3>4. \A j \in 1 .. i : ValidSlot(fl[At(j)]) => Dist(a, p) <= Dist(a, At(j))
      BY <2>3, <2>4, <3>3 DEF p
    <3> QED
      BY <2>1, <2>6, <3>1, <3>4
  <2>7. CASE ValidSlot(fl[p]) /\ b # <<>>
    <3>1. /\ b \in Position /\ ValidSlot(fl[b])
          /\ \A j \in 1 .. i - 1 : ValidSlot(fl[At(j)]) => Dist(a, b) <= Dist(a, At(j))
      BY <1>3, <2>7
    <3>2. Dist(a, b) \in 0 .. Slots - 1 /\ fl[b].header.seq = Minus(n, Dist(a, b))
      BY <3>1, DistRange DEF Ordered
    <3>3. Newer(fl[p].header.seq, fl[b].header.seq) <=> Dist(a, p) < Dist(a, b)
      BY <2>4, <2>7, <3>2, NewerIs
    <3>4. g[i] = IF Dist(a, p) < Dist(a, b) THEN p ELSE b
      BY <2>2, <2>7, <3>3, Zenon DEF Better
    <3>5. \A j \in 1 .. i : At(j) \in Position /\ Dist(a, At(j)) \in 0 .. Slots - 1
      BY IndexAt, DistRange, Sizes
    <3>6. \A j \in 1 .. i : ValidSlot(fl[At(j)]) => Dist(a, g[i]) <= Dist(a, At(j))
      <4> SUFFICES ASSUME NEW j \in 1 .. i, ValidSlot(fl[At(j)])
                   PROVE  Dist(a, g[i]) <= Dist(a, At(j))
        OBVIOUS
      <4>1. CASE j = i
        BY <4>1, <3>2, <3>4, <2>4 DEF p
      <4>2. CASE j \in 1 .. i - 1
        <5>1. Dist(a, b) <= Dist(a, At(j)) /\ Dist(a, At(j)) \in 0 .. Slots - 1
          BY <4>2, <3>1, <3>5
        <5> QED
          BY <5>1, <3>2, <3>4, <2>4, Sizes
      <4> QED
        BY <4>1, <4>2, <2>3
    <3> QED
      BY <2>1, <2>7, <3>1, <3>4, <3>6
  <2> QED
    BY <2>5, <2>6, <2>7
<1>4. Found(Slots)
  <2> SUFFICES ASSUME T # {}
               PROVE  FALSE
    BY Sizes
  <2>1. PICK m \in T : \A k \in T : m <= k
    <3>1. T \subseteq Nat
      BY Sizes
    <3> HIDE DEF T
    <3> QED
      BY <3>1, Least
  <2> HIDE DEF Found
  <2>2. m \in 1 .. Slots
    BY <1>2, <2>1, Sizes
  <2>3. m - 1 \in 0 .. Slots /\ ~(m <= m - 1)
    BY <2>2, Sizes
  <2>4. Found(m - 1)
    BY <2>1, <2>3
  <2> QED
    BY <2>1, <2>2, <2>4, <1>3
<1>5. ASSUME NEW q \in Position
      PROVE  \E j \in 1 .. Slots : At(j) = q
  BY AtIndex, IndexRange, Sizes
<1>6. Scan(fl) = g[Slots]
  BY <1>1
<1> QED
  BY <1>4, <1>5, <1>6 DEF NoneValid

\* A valid slot that no valid one is newer than is what the scan finds.
LEMMA ScanIs ==
  ASSUME NEW fl, NEW a \in Position, NEW n \in Seqs, Ordered(fl, a, n),
         NEW p \in Position, ValidSlot(fl[p]),
         \A q \in Position : ValidSlot(fl[q]) => Dist(a, p) <= Dist(a, q)
  PROVE  Scan(fl) = p
<1>1. /\ Scan(fl) \in Position /\ ValidSlot(fl[Scan(fl)])
      /\ Dist(a, Scan(fl)) <= Dist(a, p)
  BY ScanNewest DEF NoneValid
<1>2. Dist(a, p) <= Dist(a, Scan(fl))
  BY <1>1
<1>3. Dist(a, p) \in Nat /\ Dist(a, Scan(fl)) \in Nat
  BY <1>1, DistRange, Sizes
<1>4. Dist(a, p) = Dist(a, Scan(fl))
  BY <1>1, <1>2, <1>3
<1> QED
  BY <1>1, <1>4, DistInjective

\* Where no slot is valid the scan finds none.
LEMMA ScanNothing ==
  ASSUME NEW fl, NoneValid(fl)
  PROVE  Scan(fl) = <<>>
<1>1. <<0, 0>> \in Position /\ 1 \in Seqs
  BY Sizes DEF Position, Seqs
<1>2. Ordered(fl, <<0, 0>>, 1)
  BY DEF Ordered, NoneValid
<1> QED
  BY <1>1, <1>2, ScanNewest DEF NoneValid

-----------------------------------------------------------------------------
(* The invariant. *)

\* A header is written only after the payload it describes.
WholeIn(fl) == \A p \in Position : HasHeader(fl, p) => ValidSlot(fl[p])

\* Slot a was the last to be written, with the number n, and those behind it in
\* its sector have not been written since the sector was erased.
Anchor(fl, a, n) ==
    /\ a \in Position /\ n \in Seqs /\ Ordered(fl, a, n)
    /\ \A p \in Position : p[1] = a[1] /\ p[2] > a[2] => ~HasHeader(fl, p)

PlacedIn(fl, st) ==
    IF st.active = <<>> THEN NoneValid(fl)
    ELSE Anchor(fl, st.active, Minus(st.next_seq, 1))

Whole == WholeIn(flash)

Placed == PlacedIn(flash, store)

\* The active slot is valid, unless a wipe may have reached it.  With a single
\* sector the erasure that precedes a save takes everything with it.
Anchored ==
    store.active # <<>> /\ ~unsure =>
        \/ ValidSlot(flash[store.active])
        \/ SectorCount = 1 /\ NoneValid(flash)

\* A save fills the slot after the active one.
OpPlace ==
    op.call = "save" =>
        /\ op.at = NextSlot(store) /\ op.value \in past
        /\ op.step = "erase" => op.at[2] = 0

\* Once the sector is prepared, the slot to be filled and those behind it hold
\* no header.
OpFree ==
    op.call = "save" /\ op.step # "erase" =>
        \A p \in Position : p[1] = op.at[1] /\ p[2] >= op.at[2] => ~HasHeader(flash, p)

OpPayload ==
    op.call = "save" /\ op.step = "header" => flash[op.at].payload = Payload(op.value)

OpWipe ==
    op.call = "wipe" =>
        unsure /\ \A p \in Position : p[1] < op.sector => ~ValidSlot(flash[p])

\* What is in flash was saved since the last completed wipe.
PastHolds == \A p \in Position : ValidSlot(flash[p]) => flash[p].payload.value \in past

IInv == /\ TypeOK /\ Whole /\ Placed /\ Anchored
        /\ OpPlace /\ OpFree /\ OpPayload /\ OpWipe /\ PastHolds

-----------------------------------------------------------------------------
(* Flash operations. *)

Stores == [active : Position \cup {<<>>}, next_seq : Seqs]

\* What becomes of the flash fl when no slot gains a header.
Loses(fl, new) ==
    /\ new \in Flashes
    /\ \A p \in Position : new[p] = fl[p] \/ ~HasHeader(new, p)

\* The contents of a cell and what tells them apart.
LEMMA CellKinds ==
  /\ Erased \in Cell /\ Torn \in Cell /\ \A v \in Values : Payload(v) \in Cell
  /\ \A n \in Seqs, v \in Values : Header(n, v) \in Cell
  /\ Erased.kind # "header" /\ Torn.kind # "header"
  /\ \A v \in Values : Payload(v).kind = "data" /\ Payload(v).value = v
  /\ \A n \in Seqs, v \in Values :
        /\ Header(n, v).kind = "header" /\ Header(n, v).seq = n
        /\ Header(n, v).crc = v
<1>1. Erased \in Cell /\ Torn \in Cell
  BY DEF Cell
<1>2. \A v \in Values : Payload(v) \in Cell
  BY DEF Cell
<1>3. \A n \in Seqs, v \in Values : Header(n, v) \in Cell
  BY DEF Cell, Seqs
<1>4. Erased.kind # "header" /\ Torn.kind # "header"
  BY DEF Erased, Torn
<1>5. \A v \in Values : Payload(v).kind = "data" /\ Payload(v).value = v
  BY DEF Payload
<1>6. \A n \in Seqs, v \in Values :
        /\ Header(n, v).kind = "header" /\ Header(n, v).seq = n
        /\ Header(n, v).crc = v
  BY DEF Header
<1> QED
  BY <1>1, <1>2, <1>3, <1>4, <1>5, <1>6

\* The number in a header is one that is handed out.
LEMMA HeaderSeq ==
  ASSUME NEW fl \in Flashes, NEW p \in Position, ValidSlot(fl[p])
  PROVE  fl[p].header.seq \in Seqs /\ fl[p].payload.value \in Values
<1>1. fl[p].header \in Cell /\ fl[p].payload \in Cell
  BY DEF Flashes, SlotTypes
<1>2. \A c \in Cell : c.kind = "header" => c.seq \in Seqs
  BY DEF Cell, Erased, Torn, Payload, Header, Seqs
<1>3. \A c \in Cell : c.kind = "data" => c.value \in Values
  BY DEF Cell, Erased, Torn, Payload, Header
<1> QED
  BY <1>1, <1>2, <1>3 DEF ValidSlot

\* Losing slots keeps what the invariant says of those that remain.
LEMMA LosesKeeps ==
  ASSUME NEW fl, NEW new, Loses(fl, new)
  PROVE  /\ WholeIn(fl) => WholeIn(new)
         /\ \A p \in Position : ValidSlot(new[p]) => new[p] = fl[p] /\ ValidSlot(fl[p])
         /\ \A p \in Position : ~HasHeader(fl, p) => ~HasHeader(new, p)
         /\ NoneValid(fl) => NoneValid(new)
         /\ \A a, n : Anchor(fl, a, n) => Anchor(new, a, n)
         /\ \A st : PlacedIn(fl, st) => PlacedIn(new, st)
<1>1. \A p \in Position : ValidSlot(new[p]) => new[p] = fl[p] /\ ValidSlot(fl[p])
  BY DEF Loses, ValidSlot, HasHeader
<1>2. \A p \in Position : ~HasHeader(fl, p) => ~HasHeader(new, p)
  BY DEF Loses, HasHeader
<1>3. \A p \in Position : HasHeader(new, p) => new[p] = fl[p] /\ HasHeader(fl, p)
  BY DEF Loses, HasHeader
<1>4. WholeIn(fl) => WholeIn(new)
  BY <1>3 DEF WholeIn
<1>5. NoneValid(fl) => NoneValid(new)
  BY <1>1 DEF NoneValid
<1>6. \A a, n : Anchor(fl, a, n) => Anchor(new, a, n)
  BY <1>1, <1>2 DEF Anchor, Ordered
<1>7. \A st : PlacedIn(fl, st) => PlacedIn(new, st)
  BY <1>5, <1>6 DEF PlacedIn
<1> QED
  BY <1>1, <1>2, <1>4, <1>5, <1>6, <1>7

\* Erasing a sector, to the end or not.
LEMMA EraseLoses ==
  ASSUME NEW fl \in Flashes, NEW sec, NEW new \in HalfErased(fl, sec)
  PROVE  /\ Loses(fl, new)
         /\ \A p \in Position : p[1] # sec => new[p] = fl[p]
         /\ new = fl \/ \A p \in Position : p[1] = sec => ~HasHeader(new, p)
<1> DEFINE torn == [p \in Position |-> IF p[1] = sec THEN [header |-> Torn, payload |-> Torn]
                                       ELSE fl[p]]
<1>1. new = fl \/ new = EraseSector(fl, sec) \/ new = torn
  BY DEF HalfErased
<1>2. CASE new = fl
  BY <1>2 DEF Loses
<1>3. CASE new = EraseSector(fl, sec)
  <2>1. \A p \in Position : new[p] = IF p[1] = sec THEN EmptySlot ELSE fl[p]
    BY <1>3 DEF EraseSector
  <2>2. EmptySlot \in SlotTypes /\ EmptySlot.header.kind # "header"
    BY CellKinds DEF EmptySlot, SlotTypes
  <2>3. new \in Flashes
    BY <1>3, <2>2 DEF EraseSector, Flashes
  <2> QED
    BY <2>1, <2>2, <2>3 DEF Loses, HasHeader
<1>4. CASE new = torn
  <2> DEFINE t == [header |-> Torn, payload |-> Torn]
  <2>1. \A p \in Position : new[p] = IF p[1] = sec THEN t ELSE fl[p]
    BY <1>4
  <2>2. t \in SlotTypes /\ t.header.kind # "header"
    BY CellKinds DEF SlotTypes
  <2>3. new \in Flashes
    BY <1>4, <2>2 DEF Flashes
  <2> HIDE DEF t, torn
  <2> QED
    BY <2>1, <2>2, <2>3 DEF Loses, HasHeader
<1> QED
  BY <1>1, <1>2, <1>3, <1>4

\* An erasure that completes leaves no header in its sector.
LEMMA EraseClears ==
  ASSUME NEW fl \in Flashes, NEW sec
  PROVE  /\ EraseSector(fl, sec) \in HalfErased(fl, sec)
         /\ \A p \in Position : p[1] = sec => ~HasHeader(EraseSector(fl, sec), p)
<1>1. \A p \in Position : p[1] = sec => EraseSector(fl, sec)[p] = EmptySlot
  BY DEF EraseSector
<1>2. EmptySlot.header.kind # "header"
  BY CellKinds DEF EmptySlot
<1>3. EraseSector(fl, sec) \in HalfErased(fl, sec)
  BY DEF HalfErased
<1> QED
  BY <1>1, <1>2, <1>3 DEF HasHeader

\* The call in progress, by its name.
LEMMA OpTyped ==
  ASSUME TypeOK
  PROVE  /\ op.call = "save" => /\ op \in [call : {"save"}, value : Values, at : Position,
                                           step : {"erase", "payload", "header"}]
                                /\ op.value \in Values /\ op.at \in Position
                                /\ op.step \in {"erase", "payload", "header"}
         /\ op.call = "wipe" => /\ op \in [call : {"wipe"}, sector : 0 .. SectorCount - 1]
                                /\ op.sector \in 0 .. SectorCount - 1
         /\ op.call \in {"none", "save", "wipe"}
         /\ op.call = "none" <=> op = Idle
<1>1. \/ op = Idle
      \/ op \in [call : {"wipe"}, sector : 0 .. SectorCount - 1]
      \/ op \in [call : {"save"}, value : Values, at : Position,
                 step : {"erase", "payload", "header"}]
  BY DEF TypeOK
<1>2. Idle.call = "none"
  BY DEF Idle
<1>3. CASE op = Idle
  BY <1>2, <1>3
<1>4. CASE op \in [call : {"wipe"}, sector : 0 .. SectorCount - 1]
  BY <1>2, <1>4
<1>5. CASE op \in [call : {"save"}, value : Values, at : Position,
                   step : {"erase", "payload", "header"}]
  BY <1>2, <1>5
<1> QED
  BY <1>1, <1>3, <1>4, <1>5

\* The type invariant in terms of the sets used here.
LEMMA StateTyped ==
  ASSUME TypeOK
  PROVE  /\ flash \in Flashes /\ store \in Stores /\ store.next_seq \in Seqs
         /\ store.active = <<>> \/ store.active \in Position
         /\ past \subseteq Values /\ unsure \in BOOLEAN
<1>1. flash \in Flashes
  BY DEF TypeOK, Flashes, SlotTypes
<1>2. store \in Stores
  BY DEF TypeOK, Stores, Seqs
<1>3. store.next_seq \in Seqs /\ (store.active = <<>> \/ store.active \in Position)
  BY <1>2 DEF Stores
<1> QED
  BY <1>1, <1>2, <1>3 DEF TypeOK

\* The slot a save fills.
LEMMA SaveSlot ==
  ASSUME IInv, op.call = "save"
  PROVE  /\ op.at \in Position /\ op.value \in Values /\ op.value \in past
         /\ op.at = NextSlot(store)
         /\ op.step # "erase" => ~HasHeader(flash, op.at)
         /\ store.active # <<>> =>
              /\ store.active \in Position
              /\ op.step # "erase" =>
                   op.at # store.active \/ (SectorCount = 1 /\ NoneValid(flash))
              /\ SectorCount > 1 /\ op.step = "erase" => op.at[1] # store.active[1]
<1>1. /\ op.at \in Position /\ op.value \in Values /\ op.value \in past
      /\ op.at = NextSlot(store)
  BY OpTyped DEF IInv, OpPlace
<1>2. op.at[2] \in Nat
  BY <1>1, PositionParts, Sizes
<1>3. op.step # "erase" => ~HasHeader(flash, op.at)
  BY <1>1, <1>2 DEF IInv, OpFree
<1>4. ASSUME store.active # <<>>
      PROVE  store.active \in Position
  BY <1>4, StateTyped DEF IInv
<1>5. ASSUME store.active # <<>>, SectorCount > 1, op.step = "erase"
      PROVE  op.at[1] # store.active[1]
  BY <1>1, <1>4, <1>5, NextSlotIs DEF IInv, OpPlace
<1>6. ASSUME store.active # <<>>, op.step # "erase", op.at = store.active
      PROVE  SectorCount = 1 /\ NoneValid(flash)
  <2>1. store.active \in Position /\ store.active[2] \in Nat
    BY <1>4, <1>6, PositionParts, Sizes
  <2>2. op.at[2] = 0
    <3>1. op.at[2] # 0 => op.at[2] = store.active[2] + 1
      BY <1>1, <2>1, NextSlotIs
    <3> QED
      BY <3>1, <2>1, <1>6
  <2>3. ~(SectorCount > 1)
    BY <1>1, <1>6, <2>1, <2>2, NextSlotIs
  <2>4. SectorCount = 1
    BY <2>3, Sizes
  <2>5. \A p \in Position : p[1] = op.at[1] /\ p[2] >= op.at[2]
    <3>1. \A p \in Position : p[1] \in 0 .. 0 /\ p[2] \in Nat
      BY <2>4, PositionParts, Sizes
    <3> QED
      BY <3>1, <2>2, <1>1
  <2>6. \A p \in Position : ~HasHeader(flash, p)
    BY <2>5, <1>6 DEF IInv, OpFree
  <2> QED
    BY <2>4, <2>6 DEF NoneValid, ValidSlot, HasHeader
<1> QED
  BY <1>1, <1>3, <1>4, <1>5, <1>6

\* A header that is written makes its slot the newest one.
LEMMA HeaderCompletes ==
  ASSUME IInv, op.call = "save", op.step = "header",
         NEW new, new = [flash EXCEPT ![op.at].header = Header(store.next_seq, op.value)]
  PROVE  /\ new \in Flashes /\ WholeIn(new) /\ Anchor(new, op.at, store.next_seq)
         /\ ValidSlot(new[op.at]) /\ new[op.at].payload.value = op.value
         /\ HasHeader(new, op.at)
         /\ \A p \in Position : p # op.at => new[p] = flash[p]
<1> DEFINE h == Header(store.next_seq, op.value)
           s == flash[op.at]
           w == [s EXCEPT !.header = h]
           at == op.at
           q == store.next_seq
<1>1. /\ at \in Position /\ op.value \in Values /\ q \in Seqs /\ flash \in Flashes
      /\ at = NextSlot(store)
  BY SaveSlot, StateTyped DEF IInv
<1>2. /\ h \in Cell /\ h.kind = "header" /\ h.seq = q /\ h.crc = op.value
  BY <1>1, CellKinds
<1>3. s \in SlotTypes /\ s.payload.kind = "data" /\ s.payload.value = op.value
  <2>1. s.payload = Payload(op.value)
    BY DEF IInv, OpPayload
  <2> QED
    BY <1>1, <2>1, CellKinds DEF Flashes
<1>4. new = [flash EXCEPT ![at] = w]
  OBVIOUS
<1> HIDE DEF h, s
<1>5. w \in SlotTypes /\ w.header = h /\ w.payload = s.payload
  BY <1>2, <1>3 DEF SlotTypes
<1> HIDE DEF w
<1>6. /\ new \in Flashes /\ new[at] = w
      /\ \A p \in Position : p # at => new[p] = flash[p]
  BY <1>1, <1>4, <1>5 DEF Flashes
<1>7. /\ ValidSlot(new[at]) /\ new[at].payload.value = op.value
      /\ HasHeader(new, at) /\ new[at].header.seq = q
  BY <1>2, <1>3, <1>5, <1>6 DEF ValidSlot, HasHeader
<1>8. WholeIn(new)
  BY <1>6, <1>7 DEF WholeIn, HasHeader, IInv, Whole
<1>9. \A p \in Position : p[1] = at[1] /\ p[2] > at[2] => ~HasHeader(new, p)
  <2> SUFFICES ASSUME NEW p \in Position, p[1] = at[1], p[2] > at[2]
               PROVE  ~HasHeader(new, p)
    OBVIOUS
  <2>1. p[2] \in Nat /\ at[2] \in Nat
    BY <1>1, PositionParts, Sizes
  <2>2. p # at /\ p[2] >= at[2]
    BY <2>1
  <2> QED
    BY <2>2, <1>6 DEF HasHeader, IInv, OpFree
<1>10. Ordered(new, at, q)
  <2> SUFFICES ASSUME NEW p \in Position, ValidSlot(new[p])
               PROVE  new[p].header.seq = Minus(q, Dist(at, p))
    BY DEF Ordered
  <2>1. CASE p = at
    <3>1. Dist(at, p) = 0
      BY <2>1, <1>1, DistRange
    <3>2. Minus(q, 0) = q
      BY <1>1, MinusIs, Sizes
    <3> QED
      BY <2>1, <3>1, <3>2, <1>7
  <2>2. CASE p # at
    <3>1. new[p] = flash[p] /\ ValidSlot(flash[p])
      BY <2>2, <1>6
    <3>2. store.active # <<>> /\ store.active \in Position
      BY <3>1, StateTyped DEF IInv, Placed, PlacedIn, NoneValid
    <3>3. flash[p].header.seq = Minus(Minus(q, 1), Dist(store.active, p))
      BY <3>1, <3>2 DEF IInv, Placed, PlacedIn, Anchor, Ordered
    <3>4. Dist(at, p) = Dist(store.active, p) + 1 /\ Dist(store.active, p) \in 0 .. Slots - 1
      BY <3>2, <2>2, <1>1, DistNext, DistRange
    <3> DEFINE d == Dist(store.active, p)
    <3>5. d \in 0 .. Slots /\ 1 + d <= Slots /\ 1 \in 0 .. Slots /\ 1 + d = d + 1
      BY <3>4, Sizes
    <3> HIDE DEF d
    <3>6. Minus(Minus(q, 1), d) = Minus(q, d + 1)
      BY <3>5, <1>1, MinusIs
    <3> QED
      BY <3>1, <3>3, <3>4, <3>6 DEF d
  <2> QED
    BY <2>1, <2>2
<1>11. Anchor(new, at, q)
  BY <1>1, <1>9, <1>10 DEF Anchor
<1> QED
  BY <1>6, <1>7, <1>8, <1>11

-----------------------------------------------------------------------------
(* Rebooting. *)

\* Seen from the newest valid slot the others have the numbers before its own,
\* and those behind it in its sector are free.
LEMMA Reanchored ==
  ASSUME NEW fl \in Flashes, WholeIn(fl), NEW a, NEW n, Anchor(fl, a, n),
         NEW b \in Position, ValidSlot(fl[b]),
         \A q \in Position : ValidSlot(fl[q]) => Dist(a, b) <= Dist(a, q)
  PROVE  Anchor(fl, b, fl[b].header.seq)
<1>1. a \in Position /\ n \in Seqs /\ Ordered(fl, a, n)
  BY DEF Anchor
<1> DEFINE k == fl[b].header.seq
<1>2. k \in Seqs /\ k = Minus(n, Dist(a, b)) /\ Dist(a, b) \in 0 .. Slots - 1
  BY <1>1, HeaderSeq, DistRange DEF Ordered
<1>3. Ordered(fl, b, k)
  <2> SUFFICES ASSUME NEW p \in Position, ValidSlot(fl[p])
               PROVE  fl[p].header.seq = Minus(k, Dist(b, p))
    BY DEF Ordered
  <2> DEFINE d == Dist(a, b)
             e == Dist(b, p)
             f == Dist(a, p)
  <2>1. /\ e = f - d /\ f \in 0 .. Slots - 1 /\ fl[p].header.seq = Minus(n, f)
    BY <1>1, DistFrom, DistRange DEF Ordered
  <2>2. d \in 0 .. Slots - 1 /\ k = Minus(n, d) /\ d <= f
    BY <1>2
  <2> HIDE DEF d, e, f, k
  <2>3. d \in 0 .. Slots /\ e \in 0 .. Slots /\ d + e <= Slots /\ d + e = f
    BY <2>1, <2>2, Sizes
  <2>4. Minus(Minus(n, d), e) = Minus(n, f)
    BY <2>3, <1>1, MinusIs
  <2> QED
    BY <2>1, <2>2, <2>4 DEF e
<1>4. ASSUME NEW p \in Position, p[1] = b[1], p[2] > b[2], HasHeader(fl, p)
      PROVE  FALSE
  <2>1. ValidSlot(fl[p])
    BY <1>4 DEF WholeIn
  <2>2. Dist(a, b) <= Dist(a, p)
    BY <2>1
  <2>3. Index(p) - Index(b) = p[2] - b[2]
    BY <1>4, SameSector
  <2>4. /\ p[2] \in Nat /\ b[2] \in Nat /\ a[2] \in Nat
        /\ Index(a) \in 0 .. Slots - 1
        /\ Index(b) \in 0 .. Slots - 1 /\ Index(p) \in 0 .. Slots - 1
    BY <1>1, PositionParts, IndexRange, Sizes
  <2>5. Index(b) <= Index(a) /\ Index(a) < Index(p)
    BY <1>4, <2>2, <2>3, <2>4, Sizes DEF Dist
  <2>6. a[1] = b[1]
    <3>1. /\ a[1] \in Nat /\ b[1] \in Nat
          /\ Index(a) = a[1] * SlotsPerSector + a[2]
          /\ Index(b) = b[1] * SlotsPerSector + b[2]
          /\ Index(p) = b[1] * SlotsPerSector + p[2]
          /\ p[2] < SlotsPerSector /\ a[2] < SlotsPerSector
      BY <1>1, <1>4, PositionParts, Sizes DEF Index
    <3>2. a[1] * SlotsPerSector \in Nat /\ b[1] * SlotsPerSector \in Nat
      BY <3>1, Sizes
    <3>3. a[1] < b[1] => a[1] * SlotsPerSector + SlotsPerSector <= b[1] * SlotsPerSector
      BY <3>1, Grows, Sizes
    <3>4. b[1] < a[1] => b[1] * SlotsPerSector + SlotsPerSector <= a[1] * SlotsPerSector
      BY <3>1, Grows, Sizes
    <3> QED
      BY ONLY <3>1, <3>2, <3>3, <3>4, <2>4, <2>5, Sizes
  <2>7. Index(p) - Index(a) = p[2] - a[2]
    BY <1>1, <1>4, <2>6, SameSector
  <2>8. p[2] > a[2]
    BY <2>4, <2>5, <2>7, Sizes
  <2> QED
    BY <1>4, <2>6, <2>8 DEF Anchor
<1> QED
  BY <1>2, <1>3, <1>4 DEF Anchor

\* What the ECU finds when it boots.
LEMMA Rebooted ==
  ASSUME NEW fl \in Flashes, WholeIn(fl),
         NoneValid(fl) \/ \E a, n : Anchor(fl, a, n)
  PROVE  /\ Boot(fl) \in Stores /\ PlacedIn(fl, Boot(fl))
         /\ Boot(fl).active # <<>> => ValidSlot(fl[Boot(fl).active])
<1> DEFINE b == Scan(fl)
           k == fl[b].header.seq
<1>1. /\ Boot(fl).active = b
      /\ Boot(fl).next_seq = IF b = <<>> THEN 1 ELSE NextSeq(k)
      /\ Boot(fl) = [active |-> b, next_seq |-> IF b = <<>> THEN 1 ELSE NextSeq(k)]
  BY DEF Boot
<1>2. CASE NoneValid(fl)
  <2>1. b = <<>>
    BY <1>2, ScanNothing
  <2>2. 1 \in Seqs
    BY Sizes DEF Seqs
  <2> QED
    BY <1>1, <1>2, <2>1, <2>2 DEF Stores, PlacedIn
<1>3. CASE ~NoneValid(fl)
  <2>1. PICK a, n : Anchor(fl, a, n)
    BY <1>3
  <2>2. a \in Position /\ n \in Seqs /\ Ordered(fl, a, n)
    BY <2>1 DEF Anchor
  <2>3. /\ b \in Position /\ ValidSlot(fl[b])
        /\ \A q \in Position : ValidSlot(fl[q]) => Dist(a, b) <= Dist(a, q)
    BY <2>2, <1>3, ScanNewest
  <2>4. Anchor(fl, b, k) /\ b # <<>> /\ k \in Seqs
    BY <2>1, <2>3, Reanchored, PositionParts, HeaderSeq
  <2>5. NextSeq(k) \in Seqs /\ Minus(NextSeq(k), 1) = k
    BY <2>4, NextSeqIs
  <2>6. Boot(fl) = [active |-> b, next_seq |-> NextSeq(k)]
    BY <1>1, <2>4
  <2> HIDE DEF b, k
  <2>7. Boot(fl) \in Stores
    BY <2>3, <2>5, <2>6 DEF Stores
  <2>8. Boot(fl).active = b /\ Boot(fl).next_seq = NextSeq(k)
    BY <2>6
  <2> QED
    BY <2>3, <2>4, <2>5, <2>7, <2>8 DEF PlacedIn
<1> QED
  BY <1>2, <1>3

-----------------------------------------------------------------------------
(* The steps. *)

\* The active slot is left alone, or everything is lost with the only sector.
Spares(new) ==
    store.active # <<>> =>
        \/ new[store.active] = flash[store.active]
        \/ SectorCount = 1 /\ NoneValid(new)

\* What spares the active slot leaves its value to be recovered.
LEMMA SparesAnchor ==
  ASSUME IInv, NEW new, Loses(flash, new), Spares(new), ~unsure, store.active # <<>>
  PROVE  ValidSlot(new[store.active]) \/ (SectorCount = 1 /\ NoneValid(new))
<1>1. ValidSlot(flash[store.active]) \/ (SectorCount = 1 /\ NoneValid(flash))
  BY DEF IInv, Anchored
<1>2. NoneValid(flash) => NoneValid(new)
  BY LosesKeeps
<1> QED
  BY <1>1, <1>2 DEF Spares

\* The erasure that precedes a save.
LEMMA EraseSpares ==
  ASSUME IInv, op.call = "save", op.step = "erase", NEW new \in HalfErased(flash, op.at[1])
  PROVE  Loses(flash, new) /\ Spares(new)
<1>1. /\ Loses(flash, new) /\ \A p \in Position : p[1] # op.at[1] => new[p] = flash[p]
      /\ new = flash \/ \A p \in Position : p[1] = op.at[1] => ~HasHeader(new, p)
  BY StateTyped, EraseLoses DEF IInv
<1>2. ASSUME store.active # <<>>
      PROVE  new[store.active] = flash[store.active] \/ (SectorCount = 1 /\ NoneValid(new))
  <2>1. store.active \in Position /\ op.at \in Position
    BY <1>2, SaveSlot
  <2>2. CASE SectorCount > 1
    BY <1>1, <1>2, <2>1, <2>2, SaveSlot
  <2>3. CASE ~(SectorCount > 1)
    <3>1. SectorCount = 1
      BY <2>3, Sizes
    <3>2. \A p \in Position : p[1] = 0
      BY <3>1, PositionParts
    <3>3. \A p \in Position : p[1] = op.at[1]
      BY <2>1, <3>2
    <3>4. new = flash \/ NoneValid(new)
      BY <1>1, <3>3 DEF NoneValid, ValidSlot, HasHeader
    <3> QED
      BY <3>1, <3>4
  <2> QED
    BY <2>2, <2>3
<1> QED
  BY <1>1, <1>2 DEF Spares

\* Writing to the slot that is to be filled, short of a complete header.
LEMMA WriteSpares ==
  ASSUME IInv, op.call = "save", op.step # "erase", NEW c \in Cell
  PROVE  /\ Loses(flash, [flash EXCEPT ![op.at].payload = c])
         /\ Spares([flash EXCEPT ![op.at].payload = c])
         /\ [flash EXCEPT ![op.at].payload = c][op.at].payload = c
         /\ c.kind # "header" =>
              /\ Loses(flash, [flash EXCEPT ![op.at].header = c])
              /\ Spares([flash EXCEPT ![op.at].header = c])
<1> DEFINE at == op.at
           s == flash[at]
           u == [s EXCEPT !.payload = c]
           w == [s EXCEPT !.header = c]
           x == [flash EXCEPT ![at] = u]
           y == [flash EXCEPT ![at] = w]
<1>1. at \in Position /\ ~HasHeader(flash, at) /\ flash \in Flashes
  BY SaveSlot, StateTyped DEF IInv
<1>2. s \in SlotTypes /\ s.header.kind # "header"
  BY <1>1 DEF Flashes, HasHeader
<1>3. /\ [flash EXCEPT ![op.at].payload = c] = x
      /\ [flash EXCEPT ![op.at].header = c] = y
  OBVIOUS
<1>4. store.active # <<>> =>
        /\ store.active \in Position
        /\ at # store.active \/ (SectorCount = 1 /\ NoneValid(flash))
  BY SaveSlot
<1> HIDE DEF at, s
<1>5. u \in SlotTypes /\ u.header = s.header /\ u.payload = c
  BY <1>2 DEF SlotTypes
<1>6. w \in SlotTypes /\ w.header = c
  BY <1>2 DEF SlotTypes
<1> HIDE DEF u, w
<1>7. /\ x \in Flashes /\ x[at] = u /\ y \in Flashes /\ y[at] = w
      /\ \A p \in Position : p # at => x[p] = flash[p] /\ y[p] = flash[p]
  BY <1>1, <1>5, <1>6 DEF Flashes
<1> HIDE DEF x, y
<1>8. Loses(flash, x) /\ x[at].payload = c
  BY <1>2, <1>5, <1>7 DEF Loses, HasHeader
<1>9. c.kind # "header" => Loses(flash, y)
  BY <1>6, <1>7 DEF Loses, HasHeader
<1>10. /\ NoneValid(flash) => NoneValid(x)
       /\ NoneValid(flash) /\ c.kind # "header" => NoneValid(y)
  BY <1>8, <1>9, LosesKeeps
<1>11. Spares(x) /\ (c.kind # "header" => Spares(y))
  BY <1>4, <1>7, <1>10 DEF Spares
<1>12. x[op.at].payload = c
  BY <1>8 DEF at
<1> QED
  BY <1>3, <1>8, <1>9, <1>11, <1>12

\* What an operation that does not complete can leave.
LEMMA UnfinishedIs ==
  ASSUME IInv, NEW new \in Unfinished
  PROVE  \/ Loses(flash, new) /\ (op.call # "wipe" => Spares(new))
         \/ /\ op.call = "save" /\ op.step = "header"
            /\ new = [flash EXCEPT ![op.at].header = Header(store.next_seq, op.value)]
<1>1. flash \in Flashes /\ op.call \in {"none", "save", "wipe"}
  BY StateTyped, OpTyped DEF IInv
<1>2. CASE op.call = "wipe"
  <2>1. new \in HalfErased(flash, op.sector)
    BY <1>2 DEF Unfinished
  <2> QED
    BY <1>1, <1>2, <2>1, EraseLoses
<1>3. CASE op.call = "none"
  <2>1. new = flash
    BY <1>3 DEF Unfinished
  <2> QED
    BY <1>1, <2>1 DEF Loses, Spares
<1>4. CASE op.call = "save"
  <2>1. /\ op.step \in {"erase", "payload", "header"} /\ op.value \in Values
        /\ op.at \in Position /\ store.next_seq \in Seqs
    BY <1>4, OpTyped, StateTyped DEF IInv
  <2>2. CASE op.step = "erase"
    BY <1>4, <2>2, EraseSpares DEF Unfinished
  <2>3. CASE op.step = "payload"
    <3>1. PICK c \in Interrupted(flash[op.at].payload, Payload(op.value)) :
             new = [flash EXCEPT ![op.at].payload = c]
      BY <1>4, <2>3 DEF Unfinished
    <3>2. c \in Cell
      <4>1. flash[op.at].payload \in Cell
        BY <1>1, <2>1 DEF Flashes, SlotTypes
      <4> QED
        BY <4>1, <2>1, CellKinds DEF Interrupted, Programmed
    <3> QED
      BY <1>4, <2>3, <3>1, <3>2, WriteSpares
  <2>4. CASE op.step = "header"
    <3>1. PICK c \in Interrupted(flash[op.at].header, Header(store.next_seq, op.value)) :
             new = [flash EXCEPT ![op.at].header = c]
      BY <1>4, <2>4 DEF Unfinished
    <3>2. \/ c = Header(store.next_seq, op.value)
          \/ c = Torn \/ c = flash[op.at].header
      BY DEF Interrupted, Programmed
    <3>3. flash[op.at].header \in Cell /\ flash[op.at].header.kind # "header"
      BY <1>1, <1>4, <2>1, <2>4, SaveSlot DEF Flashes, SlotTypes, HasHeader
    <3>4. c # Header(store.next_seq, op.value) => c \in Cell /\ c.kind # "header"
      BY <3>2, <3>3, CellKinds
    <3> QED
      BY <1>4, <2>4, <3>1, <3>4, WriteSpares
  <2> QED
    BY <2>1, <2>2, <2>3, <2>4
<1> QED
  BY <1>1, <1>2, <1>3, <1>4

\* The parts of the invariant that only concern the flash.
LEMMA LosesInv ==
  ASSUME IInv, Loses(flash, flash'), past \subseteq past'
  PROVE  /\ Whole' /\ PastHolds' /\ (store' = store => Placed')
         /\ flash' \in Flashes
<1>1. /\ WholeIn(flash')
      /\ \A p \in Position : ValidSlot(flash'[p]) => flash'[p] = flash[p] /\ ValidSlot(flash[p])
      /\ PlacedIn(flash', store)
  BY LosesKeeps DEF IInv, Whole, Placed
<1>2. PastHolds'
  BY <1>1 DEF IInv, PastHolds
<1>3. store' = store => Placed'
  BY <1>1 DEF Placed
<1> QED
  BY <1>1, <1>2, <1>3 DEF Whole, Loses

\* The parts that concern the call in progress, when there is none.
LEMMA IdleInv ==
  ASSUME op' = Idle
  PROVE  OpPlace' /\ OpFree' /\ OpPayload' /\ OpWipe'
  BY DEF Idle, OpPlace, OpFree, OpPayload, OpWipe

\* uds_param_save() chooses its slot.
LEMMA BeginSaveInv ==
  ASSUME IInv, NEW v \in Values, BeginSave(v)
  PROVE  IInv'
<1> DEFINE b == NextSlot(store)
<1>1. /\ flash' = flash /\ store' = store /\ unsure' = unsure /\ past' = past \cup {v}
      /\ op' = [call |-> "save", value |-> v, at |-> b,
                step |-> IF b[2] = 0 THEN "erase" ELSE "payload"]
  BY DEF BeginSave
<1>2. b \in Position
  <2>1. CASE store.active = <<>>
    BY <2>1, Sizes DEF NextSlot, Position
  <2>2. CASE store.active # <<>>
    BY <2>2, StateTyped, NextSlotIs DEF IInv
  <2> QED
    BY <2>1, <2>2
<1> HIDE DEF b
<1>3. /\ op' \in [call : {"save"}, value : Values, at : Position,
                  step : {"erase", "payload", "header"}]
      /\ op'.call = "save" /\ op'.value = v /\ op'.at = b
      /\ op'.step = IF b[2] = 0 THEN "erase" ELSE "payload"
  BY <1>1, <1>2
<1>4. TypeOK'
  BY <1>1, <1>3 DEF IInv, TypeOK
<1>5. Whole' /\ Placed' /\ Anchored' /\ PastHolds'
  BY <1>1 DEF IInv, Whole, Placed, Anchored, PastHolds
<1>6. OpPlace' /\ OpPayload' /\ OpWipe'
  BY <1>1, <1>3 DEF OpPlace, OpPayload, OpWipe, b
<1>7. OpFree'
  <2> SUFFICES ASSUME b[2] # 0, NEW p \in Position, p[1] = b[1], p[2] >= b[2]
               PROVE  ~HasHeader(flash, p)
    BY <1>1, <1>3 DEF OpFree, HasHeader
  <2>1. store.active # <<>>
    BY DEF b, NextSlot
  <2>2. store.active \in Position /\ Anchor(flash, store.active, Minus(store.next_seq, 1))
    BY <2>1, StateTyped DEF IInv, Placed, PlacedIn
  <2>3. b[1] = store.active[1] /\ b[2] = store.active[2] + 1
    BY <2>2, NextSlotIs DEF b
  <2>4. p[2] > store.active[2]
    BY <2>2, <2>3, PositionParts, Sizes
  <2> QED
    BY <2>2, <2>3, <2>4 DEF Anchor
<1> QED
  BY <1>4, <1>5, <1>6, <1>7 DEF IInv

\* prepare_next_slot() erases the sector it enters.
LEMMA EraseForSaveInv ==
  ASSUME IInv, EraseForSave
  PROVE  IInv'
<1>1. /\ op.call = "save" /\ op.step = "erase" /\ flash' = EraseSector(flash, op.at[1])
      /\ op' = [op EXCEPT !.step = "payload"]
      /\ store' = store /\ past' = past /\ unsure' = unsure
  BY DEF EraseForSave
<1>2. /\ flash' \in HalfErased(flash, op.at[1])
      /\ \A p \in Position : p[1] = op.at[1] => ~HasHeader(flash', p)
  BY <1>1, StateTyped, EraseClears DEF IInv
<1>3. Loses(flash, flash') /\ Spares(flash')
  BY <1>1, <1>2, EraseSpares
<1>4. /\ op' \in [call : {"save"}, value : Values, at : Position,
                  step : {"erase", "payload", "header"}]
      /\ op'.call = "save" /\ op'.value = op.value /\ op'.at = op.at
      /\ op'.step = "payload"
  <2>1. op \in [call : {"save"}, value : Values, at : Position,
                step : {"erase", "payload", "header"}]
    BY <1>1, OpTyped DEF IInv
  <2> QED
    BY <1>1, <2>1
<1>5. Whole' /\ PastHolds' /\ Placed' /\ flash' \in Flashes
  BY <1>1, <1>3, LosesInv
<1>6. TypeOK'
  BY <1>1, <1>4, <1>5 DEF IInv, TypeOK, Flashes, SlotTypes
<1>7. Anchored'
  BY <1>1, <1>3, SparesAnchor DEF Anchored
<1>8. OpPlace' /\ OpFree' /\ OpPayload' /\ OpWipe'
  <2>1. OpPlace'
    BY <1>1, <1>4 DEF OpPlace, IInv
  <2>2. OpFree'
    BY <1>2, <1>4 DEF OpFree
  <2> QED
    BY <1>4, <2>1, <2>2 DEF OpPayload, OpWipe
<1> QED
  BY <1>5, <1>6, <1>7, <1>8 DEF IInv

\* The payload is programmed.
LEMMA WritePayloadInv ==
  ASSUME IInv, WritePayload
  PROVE  IInv'
<1> DEFINE c == Payload(op.value)
<1>1. /\ op.call = "save" /\ op.step = "payload"
      /\ flash' = [flash EXCEPT ![op.at].payload = c]
      /\ op' = [op EXCEPT !.step = "header"]
      /\ store' = store /\ past' = past /\ unsure' = unsure
  BY DEF WritePayload, Programmed
<1>2. c \in Cell
  BY <1>1, OpTyped, CellKinds DEF IInv
<1> HIDE DEF c
<1>3. Loses(flash, flash') /\ Spares(flash') /\ flash'[op.at].payload = c
  BY <1>1, <1>2, WriteSpares
<1>4. /\ op' \in [call : {"save"}, value : Values, at : Position,
                  step : {"erase", "payload", "header"}]
      /\ op'.call = "save" /\ op'.value = op.value /\ op'.at = op.at
      /\ op'.step = "header"
  <2>1. op \in [call : {"save"}, value : Values, at : Position,
                step : {"erase", "payload", "header"}]
    BY <1>1, OpTyped DEF IInv
  <2> QED
    BY <1>1, <2>1
<1>5. Whole' /\ PastHolds' /\ Placed' /\ flash' \in Flashes
  BY <1>1, <1>3, LosesInv
<1>6. TypeOK'
  BY <1>1, <1>4, <1>5 DEF IInv, TypeOK, Flashes, SlotTypes
<1>7. Anchored'
  BY <1>1, <1>3, SparesAnchor DEF Anchored
<1>8. OpPlace'
  BY <1>1, <1>4 DEF OpPlace, IInv
<1>9. OpFree'
  <2>1. \A p \in Position : ~HasHeader(flash, p) => ~HasHeader(flash', p)
    BY <1>3, LosesKeeps
  <2> QED
    BY <1>1, <1>4, <2>1 DEF OpFree, IInv
<1>10. OpPayload' /\ OpWipe'
  BY <1>3, <1>4 DEF OpPayload, OpWipe, c
<1> QED
  BY <1>5, <1>6, <1>7, <1>8, <1>9, <1>10 DEF IInv

\* The header is programmed and the slot becomes the active one.
LEMMA WriteHeaderInv ==
  ASSUME IInv, WriteHeader
  PROVE  IInv'
<1> DEFINE q == store.next_seq
<1>1. /\ op.call = "save" /\ op.step = "header"
      /\ flash' = [flash EXCEPT ![op.at].header = Header(q, op.value)]
      /\ store' = [active |-> op.at, next_seq |-> NextSeq(q)]
      /\ op' = Idle /\ unsure' = FALSE /\ past' = past
  BY DEF WriteHeader, Programmed
<1>2. /\ flash' \in Flashes /\ WholeIn(flash') /\ Anchor(flash', op.at, q)
      /\ ValidSlot(flash'[op.at]) /\ flash'[op.at].payload.value = op.value
      /\ \A p \in Position : p # op.at => flash'[p] = flash[p]
  BY <1>1, HeaderCompletes
<1>3. op.at \in Position /\ op.value \in past /\ q \in Seqs /\ op.at # <<>>
  BY <1>1, SaveSlot, StateTyped, PositionParts DEF IInv
<1>4. NextSeq(q) \in Seqs /\ Minus(NextSeq(q), 1) = q
  BY <1>3, NextSeqIs
<1> HIDE DEF q
<1>5. store' \in Stores /\ store'.active = op.at /\ store'.next_seq = NextSeq(q)
  BY <1>1, <1>3, <1>4 DEF Stores
<1>6. TypeOK'
  BY <1>1, <1>2, <1>5 DEF IInv, TypeOK, Flashes, SlotTypes, Stores, Seqs
<1>7. Whole' /\ Placed' /\ Anchored'
  BY <1>2, <1>3, <1>4, <1>5 DEF Whole, Placed, PlacedIn, Anchored
<1>8. PastHolds'
  BY <1>1, <1>2, <1>3 DEF PastHolds, IInv
<1> QED
  BY <1>1, <1>6, <1>7, <1>8, IdleInv DEF IInv

\* uds_param_erase_all() begins.
LEMMA BeginWipeInv ==
  ASSUME IInv, BeginWipe
  PROVE  IInv'
<1>1. /\ flash' = flash /\ store' = store /\ past' = past /\ unsure' = TRUE
      /\ op' = [call |-> "wipe", sector |-> 0]
  BY DEF BeginWipe
<1>2. /\ op' \in [call : {"wipe"}, sector : 0 .. SectorCount - 1]
      /\ op'.call = "wipe" /\ op'.sector = 0
  BY <1>1, Sizes
<1>3. TypeOK'
  BY <1>1, <1>2 DEF IInv, TypeOK
<1>4. Whole' /\ Placed' /\ Anchored' /\ PastHolds'
  BY <1>1 DEF IInv, Whole, Placed, Anchored, PastHolds
<1>5. OpPlace' /\ OpFree' /\ OpPayload'
  BY <1>2 DEF OpPlace, OpFree, OpPayload
<1>6. OpWipe'
  <2>1. \A p \in Position : ~(p[1] < 0)
    BY PositionParts, Sizes
  <2> QED
    BY <1>1, <1>2, <2>1 DEF OpWipe
<1> QED
  BY <1>3, <1>4, <1>5, <1>6 DEF IInv

\* It erases a sector.
LEMMA WipeSectorInv ==
  ASSUME IInv, WipeSector
  PROVE  IInv'
<1>1. /\ op.call = "wipe" /\ flash' = EraseSector(flash, op.sector)
      /\ op.sector \in 0 .. SectorCount - 1
      /\ op \in [call : {"wipe"}, sector : 0 .. SectorCount - 1]
  BY OpTyped DEF WipeSector, IInv
<1>2. /\ flash' \in HalfErased(flash, op.sector)
      /\ \A p \in Position : p[1] = op.sector => ~HasHeader(flash', p)
  BY <1>1, StateTyped, EraseClears DEF IInv
<1>3. Loses(flash, flash')
  BY <1>2, StateTyped, EraseLoses DEF IInv
<1>4. \A p \in Position : p[1] < op.sector + 1 => ~ValidSlot(flash'[p])
  <2>1. \A p \in Position : p[1] < op.sector => ~ValidSlot(flash'[p])
    BY <1>1, <1>3, LosesKeeps DEF IInv, OpWipe
  <2>2. \A p \in Position : p[1] = op.sector => ~ValidSlot(flash'[p])
    BY <1>2 DEF ValidSlot, HasHeader
  <2>3. \A p \in Position : p[1] < op.sector + 1 => p[1] < op.sector \/ p[1] = op.sector
    BY <1>1, PositionParts, Sizes
  <2> QED
    BY <2>1, <2>2, <2>3
<1>5. CASE op.sector + 1 < SectorCount
  <2>1. /\ op' = [op EXCEPT !.sector = @ + 1]
        /\ store' = store /\ past' = past /\ unsure' = unsure
    BY <1>5 DEF WipeSector
  <2>2. /\ op' \in [call : {"wipe"}, sector : 0 .. SectorCount - 1]
        /\ op'.call = "wipe" /\ op'.sector = op.sector + 1
    <3>1. op.sector + 1 \in 0 .. SectorCount - 1
      BY <1>1, <1>5, Sizes
    <3> QED
      BY <1>1, <2>1, <3>1
  <2>3. Whole' /\ PastHolds' /\ Placed' /\ flash' \in Flashes
    BY <1>3, <2>1, LosesInv
  <2>4. TypeOK'
    BY <2>1, <2>2, <2>3 DEF IInv, TypeOK, Flashes, SlotTypes
  <2>5. OpPlace' /\ OpFree' /\ OpPayload'
    BY <2>2 DEF OpPlace, OpFree, OpPayload
  <2>6. OpWipe' /\ Anchored'
    BY <1>1, <1>4, <2>1, <2>2 DEF OpWipe, Anchored, IInv
  <2> QED
    BY <2>3, <2>4, <2>5, <2>6 DEF IInv
<1>6. CASE ~(op.sector + 1 < SectorCount)
  <2>1. /\ op' = Idle /\ past' = {} /\ unsure' = FALSE
        /\ store' = [active |-> <<>>, next_seq |-> 1]
    BY <1>6 DEF WipeSector
  <2>2. NoneValid(flash')
    <3>1. op.sector + 1 = SectorCount
      BY <1>1, <1>6, Sizes
    <3>2. \A p \in Position : p[1] < op.sector + 1
      BY <3>1, PositionParts, Sizes
    <3> QED
      BY <1>4, <3>2 DEF NoneValid
  <2>3. /\ flash' \in Flashes /\ WholeIn(flash')
    BY <1>3, LosesKeeps DEF Loses, IInv, Whole
  <2>4. store' \in Stores /\ store'.active = <<>>
    BY <2>1, Sizes DEF Stores, Seqs
  <2>5. TypeOK'
    BY <2>1, <2>3, <2>4 DEF TypeOK, Flashes, SlotTypes, Stores, Seqs
  <2>6. Whole' /\ Placed' /\ Anchored' /\ PastHolds'
    BY <2>2, <2>3, <2>4 DEF Whole, Placed, PlacedIn, Anchored, PastHolds, NoneValid
  <2> QED
    BY <2>1, <2>5, <2>6, IdleInv DEF IInv
<1> QED
  BY <1>5, <1>6

\* A port that fails has not completed a header.
LEMMA PortFailsLoses ==
  ASSUME IInv, PortFails
  PROVE  Loses(flash, flash') /\ (op.call # "wipe" => Spares(flash'))
<1>1. /\ flash' \in Unfinished
      /\ op.call = "save" => flash'[op.at].header \in {flash[op.at].header, Torn, Erased}
  BY DEF PortFails
<1>2. SUFFICES ASSUME op.call = "save", op.step = "header",
                      flash' = [flash EXCEPT ![op.at].header = Header(store.next_seq, op.value)]
               PROVE  FALSE
  BY <1>1, UnfinishedIs
<1>3. flash'[op.at].header.kind = "header"
  BY <1>2, HeaderCompletes DEF HasHeader
<1>4. flash[op.at].header.kind # "header"
  BY <1>2, SaveSlot DEF HasHeader
<1> QED
  BY <1>1, <1>2, <1>3, <1>4, CellKinds

\* The port reports an error in any of these operations.
LEMMA PortFailsInv ==
  ASSUME IInv, PortFails
  PROVE  IInv'
<1>1. op' = Idle /\ store' = store /\ past' = past /\ unsure' = unsure
  BY DEF PortFails
<1>2. Loses(flash, flash') /\ (op.call # "wipe" => Spares(flash'))
  BY PortFailsLoses
<1>3. Whole' /\ PastHolds' /\ Placed' /\ flash' \in Flashes
  BY <1>1, <1>2, LosesInv
<1>4. TypeOK'
  BY <1>1, <1>3 DEF IInv, TypeOK, Flashes, SlotTypes
<1>5. Anchored'
  BY <1>1, <1>2, SparesAnchor DEF Anchored, IInv, OpWipe
<1> QED
  BY <1>1, <1>3, <1>4, <1>5, IdleInv DEF IInv

\* Power is lost in any of them, and uds_param_init() scans.
LEMMA PowerLossInv ==
  ASSUME IInv, PowerLoss
  PROVE  IInv'
<1>1. /\ flash' \in Unfinished /\ store' = Boot(flash') /\ op' = Idle
      /\ unsure' = FALSE /\ past' = past
  BY DEF PowerLoss
<1>2. /\ flash' \in Flashes /\ WholeIn(flash') /\ PastHolds'
      /\ NoneValid(flash') \/ \E a, n : Anchor(flash', a, n)
  <2>1. CASE Loses(flash, flash')
    <3>1. Whole' /\ PastHolds' /\ flash' \in Flashes /\ PlacedIn(flash', store)
      BY <1>1, <2>1, LosesInv, LosesKeeps DEF IInv, Placed
    <3> QED
      BY <3>1 DEF PlacedIn, Whole
  <2>2. CASE /\ op.call = "save" /\ op.step = "header"
             /\ flash' = [flash EXCEPT ![op.at].header = Header(store.next_seq, op.value)]
    <3>1. /\ flash' \in Flashes /\ WholeIn(flash')
          /\ Anchor(flash', op.at, store.next_seq)
          /\ flash'[op.at].payload.value = op.value
          /\ \A p \in Position : p # op.at => flash'[p] = flash[p]
      BY <2>2, HeaderCompletes
    <3>2. op.value \in past
      BY <2>2, SaveSlot
    <3>3. PastHolds'
      BY <1>1, <3>1, <3>2 DEF PastHolds, IInv
    <3> QED
      BY <3>1, <3>3
  <2> QED
    BY <1>1, <2>1, <2>2, UnfinishedIs
<1>3. /\ store' \in Stores /\ PlacedIn(flash', store')
      /\ store'.active # <<>> => ValidSlot(flash'[store'.active])
  BY <1>1, <1>2, Rebooted
<1>4. TypeOK'
  BY <1>1, <1>2, <1>3 DEF IInv, TypeOK, Flashes, SlotTypes, Stores, Seqs
<1>5. Whole' /\ Placed' /\ Anchored'
  BY <1>2, <1>3 DEF Whole, Placed, Anchored
<1> QED
  BY <1>1, <1>2, <1>4, <1>5, IdleInv DEF IInv

-----------------------------------------------------------------------------
(* The theorems. *)

\* The initial state satisfies the invariant.
LEMMA InitIInv ==
  ASSUME Init
  PROVE  IInv
<1>1. /\ flash = [p \in Position |-> EmptySlot] /\ store = Boot(flash)
      /\ op = Idle /\ past = {} /\ unsure = FALSE
  BY DEF Init
<1>2. EmptySlot \in SlotTypes /\ EmptySlot.header.kind # "header"
  BY CellKinds DEF EmptySlot, SlotTypes
<1>3. flash \in Flashes /\ \A p \in Position : ~HasHeader(flash, p)
  BY <1>1, <1>2 DEF Flashes, HasHeader
<1>4. WholeIn(flash) /\ NoneValid(flash)
  BY <1>3 DEF WholeIn, NoneValid, ValidSlot, HasHeader
<1>5. /\ store \in Stores /\ PlacedIn(flash, store)
      /\ store.active # <<>> => ValidSlot(flash[store.active])
  BY <1>1, <1>3, <1>4, Rebooted
<1>6. TypeOK
  BY <1>1, <1>3, <1>5 DEF TypeOK, Flashes, SlotTypes, Stores, Seqs
<1>7. OpPlace /\ OpFree /\ OpPayload /\ OpWipe
  BY <1>1 DEF Idle, OpPlace, OpFree, OpPayload, OpWipe
<1> QED
  BY <1>4, <1>5, <1>6, <1>7
  DEF IInv, Whole, Placed, Anchored, PastHolds, NoneValid

\* Every step keeps the invariant.
LEMMA StepIInv ==
  ASSUME IInv, [Next]_vars
  PROVE  IInv'
<1>1. CASE Next
  BY <1>1, BeginSaveInv, EraseForSaveInv, WritePayloadInv, WriteHeaderInv,
     BeginWipeInv, WipeSectorInv, PortFailsInv, PowerLossInv DEF Next
<1>2. CASE UNCHANGED vars
  BY <1>2 DEF vars, IInv, TypeOK, Whole, Placed, Anchored, OpPlace, OpFree,
              OpPayload, OpWipe, PastHolds
<1> QED
  BY <1>1, <1>2

\* The invariant of the parameter store holds in every reachable state.
THEOREM InvariantHolds == Spec => []IInv
<1>1. Init => IInv
  BY InitIInv
<1>2. IInv /\ [Next]_vars => IInv'
  BY StepIInv
<1> QED
  BY <1>1, <1>2, PTL DEF Spec

\* Types; next_seq is never 0 and the active slot lies inside the store.
THEOREM TypeCorrect == Spec => []TypeOK
<1>1. IInv => TypeOK
  BY DEF IInv
<1> QED
  BY <1>1, InvariantHolds, PTL

\* A valid active slot is the one the scan finds.
LEMMA ActiveIsScanned ==
  ASSUME NEW fl, NEW a, NEW n, Anchor(fl, a, n), ValidSlot(fl[a])
  PROVE  Scan(fl) = a /\ Recovered(fl) = fl[a].payload.value
<1>1. a \in Position /\ n \in Seqs /\ Ordered(fl, a, n) /\ a # <<>>
  BY PositionParts DEF Anchor
<1>2. \A q \in Position : Dist(a, a) <= Dist(a, q)
  BY <1>1, DistRange, Sizes
<1>3. Scan(fl) = a
  BY <1>1, <1>2, ScanIs
<1> QED
  BY <1>1, <1>3 DEF Recovered

\* Without a valid slot a restart recovers nothing.
LEMMA NothingRecovered ==
  ASSUME NEW fl, NoneValid(fl)
  PROVE  Recovered(fl) = None
  BY ScanNothing DEF Recovered

\* Between calls uds_param_load() gives what a reboot would recover.
THEOREM LoadAlwaysAgrees == Spec => []LoadAgreesWithReboot
<1>1. IInv => LoadAgreesWithReboot
  <2> SUFFICES ASSUME IInv
               PROVE  \/ Load(flash, store) = Recovered(flash)
                      \/ unsure /\ Load(flash, store) = None
    BY DEF LoadAgreesWithReboot
  <2>1. CASE store.active = <<>>
    <3>1. Load(flash, store) = None
      BY <2>1 DEF Load
    <3>2. NoneValid(flash)
      BY <2>1 DEF IInv, Placed, PlacedIn
    <3> QED
      BY <3>1, <3>2, NothingRecovered
  <2>2. CASE store.active # <<>> /\ ValidSlot(flash[store.active])
    <3>1. Load(flash, store) = flash[store.active].payload.value
      BY <2>2 DEF Load
    <3>2. Anchor(flash, store.active, Minus(store.next_seq, 1))
      BY <2>2 DEF IInv, Placed, PlacedIn
    <3> QED
      BY <2>2, <3>1, <3>2, ActiveIsScanned
  <2>3. CASE store.active # <<>> /\ ~ValidSlot(flash[store.active])
    <3>1. Load(flash, store) = None
      BY <2>3 DEF Load
    <3>2. unsure \/ NoneValid(flash)
      BY <2>3 DEF IInv, Anchored
    <3> QED
      BY <3>1, <3>2, NothingRecovered
  <2> QED
    BY <2>1, <2>2, <2>3
<1> QED
  BY <1>1, InvariantHolds, PTL

-----------------------------------------------------------------------------
(* The store implements a durable register. *)

\* What a reboot recovers was saved since the last completed wipe.
LEMMA RecoveredIn ==
  ASSUME NEW fl, NEW st, NEW set, PlacedIn(fl, st),
         \A p \in Position : ValidSlot(fl[p]) => fl[p].payload.value \in set
  PROVE  Recovered(fl) \in set \cup {None}
<1>1. CASE st.active = <<>>
  BY <1>1, NothingRecovered DEF PlacedIn
<1>2. CASE st.active # <<>>
  <2>1. /\ st.active \in Position /\ Minus(st.next_seq, 1) \in Seqs
        /\ Ordered(fl, st.active, Minus(st.next_seq, 1))
    BY <1>2 DEF PlacedIn, Anchor
  <2>2. Scan(fl) = <<>> \/ (Scan(fl) \in Position /\ ValidSlot(fl[Scan(fl)]))
    BY <2>1, ScanNewest
  <2> QED
    BY <2>2 DEF Recovered
<1> QED
  BY <1>1, <1>2

\* An operation that spares the active slot does not change what is recovered.
LEMMA ValueKept ==
  ASSUME SectorCount > 1, IInv, ~unsure, NEW new, Loses(flash, new), Spares(new)
  PROVE  Recovered(new) = Recovered(flash)
<1>1. CASE store.active = <<>>
  <2>1. NoneValid(flash) /\ NoneValid(new)
    BY <1>1, LosesKeeps DEF IInv, Placed, PlacedIn
  <2> QED
    BY <2>1, NothingRecovered
<1>2. CASE store.active # <<>>
  <2>1. SectorCount # 1
    BY Sizes
  <2>2. ValidSlot(flash[store.active]) /\ new[store.active] = flash[store.active]
    BY <1>2, <2>1 DEF IInv, Anchored, Spares
  <2>3. Anchor(flash, store.active, Minus(store.next_seq, 1))
    BY <1>2 DEF IInv, Placed, PlacedIn
  <2>4. Anchor(new, store.active, Minus(store.next_seq, 1))
    BY <2>3, LosesKeeps
  <2>5. Recovered(flash) = flash[store.active].payload.value
    BY <2>2, <2>3, ActiveIsScanned
  <2>6. Recovered(new) = new[store.active].payload.value
    BY <2>2, <2>4, ActiveIsScanned
  <2> QED
    BY <2>2, <2>5, <2>6
<1> QED
  BY <1>1, <1>2

Saving == IF op.call = "save" THEN op.value ELSE None

\* The value being saved, None when no save is under way.
LEMMA SavingIs ==
  ASSUME TypeOK
  PROVE  /\ op.call = "save" => Saving = op.value /\ Saving # None
         /\ op.call # "save" => Saving = None
  BY OpTyped, ParamAssumption DEF Saving

\* Every step of the store is one of the register, or none.
LEMMA StepRefines ==
  ASSUME SectorCount > 1, IInv, IInv', Next
  PROVE  Register!Next \/ UNCHANGED Register!vars
<1> DEFINE value == Recovered(flash)
           Uncovers == /\ unsure /\ unsure' \in BOOLEAN
                       /\ Saving' \in {Saving, None} /\ past' = past
                       /\ value' \in past \cup {None}
           Fails == /\ Saving # None /\ Saving' = None
                    /\ past' = past /\ unsure' = unsure
                    /\ value' \in {value, Saving}
<1>1. TypeOK /\ (op.call = "save" => Saving = op.value /\ Saving # None)
        /\ (op.call # "save" => Saving = None)
  BY SavingIs DEF IInv
<1>2. op' = Idle => Saving' = None
  BY DEF Saving, Idle
<1>3. value' \in past' \cup {None}
  BY RecoveredIn DEF IInv, Placed, PastHolds
<1>4. unsure' \in BOOLEAN
  BY DEF IInv, TypeOK
<1>5. Uncovers => Register!Next
  BY DEF Register!Next, Register!Uncover, Saving
<1>6. Fails => Register!Next
  BY DEF Register!Next, Register!Fail, Saving
<1>7. unsure /\ past' = past /\ Saving' \in {Saving, None} => Register!Next
  BY <1>3, <1>4, <1>5
<1>8. value' = value /\ Saving' = Saving /\ past' = past /\ unsure' = unsure
        => UNCHANGED Register!vars
  BY DEF Register!vars, Saving
<1> HIDE DEF Uncovers, Fails
<1>9. ASSUME NEW v \in Values, BeginSave(v)
      PROVE  Register!Next
  <2>1. /\ Saving = None /\ Saving' = v /\ past' = past \cup {v}
        /\ unsure' = unsure /\ value' = value
    BY <1>1, <1>9 DEF BeginSave, Saving, Idle
  <2>2. Register!Save(v)
    BY <2>1 DEF Register!Save, Saving
  <2> QED
    BY <2>2 DEF Register!Next
<1>10. CASE EraseForSave \/ WritePayload
  <2>1. /\ past' = past /\ unsure' = unsure /\ Saving' = Saving
    <3>1. /\ op.call = "save" /\ past' = past /\ unsure' = unsure
          /\ op' = [op EXCEPT !.step = "payload"] \/ op' = [op EXCEPT !.step = "header"]
      BY <1>10 DEF EraseForSave, WritePayload
    <3>2. op \in [call : {"save"}, value : Values, at : Position,
                  step : {"erase", "payload", "header"}]
      BY <1>1, <3>1, OpTyped
    <3>3. op'.call = "save" /\ op'.value = op.value
      BY <3>1, <3>2
    <3> QED
      BY <3>1, <3>3 DEF Saving
  <2>2. Loses(flash, flash') /\ Spares(flash')
    <3>1. CASE EraseForSave
      <4>1. /\ op.call = "save" /\ op.step = "erase"
            /\ flash' = EraseSector(flash, op.at[1])
        BY <3>1 DEF EraseForSave
      <4>2. flash' \in HalfErased(flash, op.at[1])
        BY <4>1, StateTyped, EraseClears DEF IInv
      <4> QED
        BY <4>1, <4>2, EraseSpares
    <3>2. CASE WritePayload
      <4>1. /\ op.call = "save" /\ op.step = "payload"
            /\ flash' = [flash EXCEPT ![op.at].payload = Payload(op.value)]
        BY <3>2 DEF WritePayload, Programmed
      <4>2. Payload(op.value) \in Cell
        BY <1>1, <4>1, OpTyped, CellKinds
      <4> QED
        BY <4>1, <4>2, WriteSpares
    <3> QED
      BY <1>10, <3>1, <3>2
  <2>3. CASE unsure
    BY <1>7, <2>1, <2>3
  <2>4. CASE ~unsure
    <3>1. value' = value
      BY <2>2, <2>4, ValueKept
    <3> QED
      BY <1>8, <2>1, <3>1
  <2> QED
    BY <2>3, <2>4
<1>11. CASE WriteHeader
  <2>1. /\ op.call = "save" /\ op.step = "header" /\ op' = Idle
        /\ unsure' = FALSE /\ past' = past
        /\ flash' = [flash EXCEPT ![op.at].header = Header(store.next_seq, op.value)]
    BY <1>11 DEF WriteHeader, Programmed
  <2>2. /\ Anchor(flash', op.at, store.next_seq) /\ ValidSlot(flash'[op.at])
        /\ flash'[op.at].payload.value = op.value
    BY <2>1, HeaderCompletes
  <2>3. value' = op.value
    BY <2>2, ActiveIsScanned
  <2>4. Saving # None /\ Saving' = None /\ value' = Saving
    BY <1>1, <1>2, <2>1, <2>3
  <2>5. Register!Succeed
    BY <2>1, <2>4 DEF Register!Succeed, Saving
  <2> QED
    BY <2>5 DEF Register!Next
<1>12. CASE BeginWipe
  <2>1. /\ Saving = None /\ Saving' = Saving /\ past' = past /\ unsure' = TRUE
        /\ value' = value
    BY <1>12 DEF BeginWipe, Saving, Idle
  <2>2. Register!Wipe
    BY <2>1 DEF Register!Wipe, Saving
  <2> QED
    BY <2>2 DEF Register!Next
<1>13. CASE WipeSector
  <2>1. op.call = "wipe" /\ unsure /\ op \in [call : {"wipe"}, sector : 0 .. SectorCount - 1]
    BY <1>1, <1>13, OpTyped DEF WipeSector, IInv, OpWipe
  <2>2. Saving = None
    BY <1>1, <2>1
  <2>3. CASE op.sector + 1 < SectorCount
    <3>1. op' = [op EXCEPT !.sector = @ + 1] /\ past' = past
      BY <1>13, <2>3 DEF WipeSector
    <3>2. op'.call = "wipe"
      BY <2>1, <3>1
    <3>3. Saving' = None
      BY <3>2 DEF Saving
    <3> QED
      BY <1>7, <2>1, <3>1, <3>3
  <2>4. CASE ~(op.sector + 1 < SectorCount)
    <3>1. op' = Idle /\ past' = {} /\ unsure' = FALSE
      BY <1>13, <2>4 DEF WipeSector
    <3>2. value' = None
      BY <1>3, <3>1
    <3>3. Register!Wiped
      BY <1>2, <2>1, <2>2, <3>1, <3>2 DEF Register!Wiped, Saving
    <3> QED
      BY <3>3 DEF Register!Next
  <2> QED
    BY <2>3, <2>4
<1>14. CASE PortFails
  <2>1. op' = Idle /\ past' = past /\ unsure' = unsure /\ op # Idle
    BY <1>14 DEF PortFails
  <2>2. CASE unsure
    BY <1>2, <1>7, <2>1, <2>2
  <2>3. CASE ~unsure
    <3>1. op.call = "save"
      BY <1>1, <2>1, <2>3, OpTyped DEF IInv, OpWipe
    <3>2. Loses(flash, flash') /\ Spares(flash')
      BY <1>14, <3>1, PortFailsLoses
    <3>3. value' = value
      BY <2>3, <3>2, ValueKept
    <3> QED
      BY <1>1, <1>2, <1>6, <2>1, <3>1, <3>3 DEF Fails
  <2> QED
    BY <2>2, <2>3
<1>15. CASE PowerLoss
  <2>1. flash' \in Unfinished /\ op' = Idle /\ past' = past /\ unsure' = FALSE
    BY <1>15 DEF PowerLoss
  <2>2. CASE unsure
    BY <1>2, <1>7, <2>1, <2>2
  <2>3. CASE ~unsure
    <3>1. op.call # "wipe" /\ unsure' = unsure
      BY <2>1, <2>3 DEF IInv, OpWipe, TypeOK
    <3>2. value' = value \/ (op.call = "save" /\ value' = op.value)
      <4>1. CASE Loses(flash, flash') /\ Spares(flash')
        BY <2>3, <4>1, ValueKept
      <4>2. CASE /\ op.call = "save" /\ op.step = "header"
                 /\ flash' = [flash EXCEPT ![op.at].header = Header(store.next_seq, op.value)]
        <5>1. /\ Anchor(flash', op.at, store.next_seq) /\ ValidSlot(flash'[op.at])
              /\ flash'[op.at].payload.value = op.value
          BY <4>2, HeaderCompletes
        <5> QED
          BY <4>2, <5>1, ActiveIsScanned
      <4> QED
        BY <2>1, <3>1, <4>1, <4>2, UnfinishedIs
    <3>3. CASE op.call = "save"
      BY <1>1, <1>2, <1>6, <2>1, <3>1, <3>2, <3>3 DEF Fails
    <3>4. CASE op.call # "save"
      BY <1>1, <1>2, <1>8, <2>1, <3>1, <3>2, <3>4
    <3> QED
      BY <3>3, <3>4
  <2> QED
    BY <2>2, <2>3
<1> QED
  BY <1>9, <1>10, <1>11, <1>12, <1>13, <1>14, <1>15 DEF Next

\* A store of two or more sectors is a durable register: a save is atomic across
\* power losses and port errors, and what was acknowledged is recovered.  With a
\* single sector it is not: the erasure that precedes a save takes the only copy.
THEOREM StoreIsRegister == SectorCount > 1 => (Spec => RegisterSpec)
<1> SUFFICES ASSUME SectorCount > 1
             PROVE  Spec => RegisterSpec
  OBVIOUS
<1>1. Init => Register!Init
  <2> SUFFICES ASSUME Init
               PROVE  Register!Init
    OBVIOUS
  <2>1. op = Idle /\ past = {} /\ unsure = FALSE /\ IInv
    BY InitIInv DEF Init
  <2>2. Recovered(flash) = None
    BY <2>1, RecoveredIn DEF IInv, Placed, PastHolds
  <2> QED
    BY <2>1, <2>2 DEF Register!Init, Idle
<1>2. IInv /\ IInv' /\ [Next]_vars => [Register!Next]_(Register!vars)
  <2>1. ASSUME UNCHANGED vars
        PROVE  UNCHANGED Register!vars
    BY <2>1 DEF vars, Register!vars
  <2> QED
    BY <2>1, StepRefines
<1> QED
  BY <1>1, <1>2, InvariantHolds, PTL DEF Spec, RegisterSpec, Register!Spec
=============================================================================
