---------------------------- MODULE FlattenProofs ----------------------------
(***************************************************************************)
(* Proofs about Images and Flatten, for every image, increments and        *)
(* geometry.  Reading a range of a disk gives its bytes one by one, across *)
(* sectors, blocks and layers; the order of the directory makes no         *)
(* difference; the dynamic VHD that is written opens, and shows the input's*)
(* bytes, or zeros where the run was interrupted; a run that fails leaves  *)
(* the output path as it found it.                                         *)
(***************************************************************************)
EXTENDS Flatten, FiniteSetTheorems, WellFoundedInduction, TLAPS

-----------------------------------------------------------------------------
(* Least elements, and what a loop puts together *)

\* A set of natural numbers that is not empty has a least element.
LEMMA LeastNat ==
    ASSUME NEW T \in SUBSET Nat, T # {}
    PROVE  \E x \in T : \A y \in T : x <= y
  <1> DEFINE R == OpToRel(<, Nat)
  <1>1. IsWellFoundedOn(R, Nat)
    BY NatLessThanWellFounded
  <1>2. \A a, b \in Nat : a < b => <<a, b>> \in R
    BY DEF OpToRel
  <1> HIDE DEF R
  <1>3. PICK x \in T : \A y \in T : ~ (<<y, x>> \in R)
    BY <1>1, WFMin
  <1>4. ASSUME NEW y \in T PROVE x <= y
    <2>1. x \in Nat /\ y \in Nat /\ ~ (y < x)
      BY <1>2, <1>3
    <2> QED
      BY <2>1
  <1> QED
    BY <1>4

\* The least of two numbers.
LEMMA LeastPair ==
    ASSUME NEW a \in Int, NEW b \in Int
    PROVE  Least({a, b}) = IF a <= b THEN a ELSE b
  BY DEF Least

\* Least picks the least element of a set of natural numbers.
LEMMA LeastOf ==
    ASSUME NEW S \in SUBSET Nat, S # {}
    PROVE  Least(S) \in S /\ \A y \in S : Least(S) <= y
  BY LeastNat DEF Least

\* The results one[d], ..., one[d + n - 1] of reading a byte each, put
\* together: an error if one of them is an error.
Part(one, d, n) ==
    IF \A k \in d .. d + n - 1 : one[k].ok
    THEN Ok([j \in 1 .. n |-> one[d + j - 1].bytes[1]])
    ELSE Err

\* The elements of a concatenation.
LEMMA Catenate ==
    ASSUME NEW n \in Nat, NEW m \in Nat, NEW f, NEW g,
           f = [k \in 1 .. n |-> f[k]], g = [k \in 1 .. m |-> g[k]]
    PROVE  f \o g = [k \in 1 .. n + m |-> IF k <= n THEN f[k] ELSE g[k - n]]
  <1> DEFINE S == {f[k] : k \in 1 .. n} \cup {g[k] : k \in 1 .. m}
  <1>1. f \in [1 .. n -> S] /\ g \in [1 .. m -> S]
    BY Zenon
  <1> HIDE DEF S
  <1>2. f \in Seq(S) /\ g \in Seq(S) /\ Len(f) = n /\ Len(g) = m
    BY <1>1
  <1> QED
    BY <1>1, <1>2

\* A part followed by the next one is the part of both.
LEMMA PartThen ==
    ASSUME NEW d \in Nat, NEW n \in Nat, NEW m \in Nat, NEW e \in Nat, NEW s \in Nat,
           e = d + n, s = n + m, NEW one
    PROVE  Then(Part(one, d, n), Part(one, e, m)) = Part(one, d, s)
  <1> DEFINE f == [j \in 1 .. n |-> one[d + j - 1].bytes[1]]
             g == [j \in 1 .. m |-> one[(d + n) + j - 1].bytes[1]]
  <1>1. f \o g = [j \in 1 .. n + m |-> one[d + j - 1].bytes[1]]
    <2>1. f \o g = [k \in 1 .. n + m |-> IF k <= n THEN f[k] ELSE g[k - n]]
      <3>1. f = [k \in 1 .. n |-> f[k]] /\ g = [k \in 1 .. m |-> g[k]]
        OBVIOUS
      <3> HIDE DEF f, g
      <3> QED
        BY <3>1, Catenate, SMTT(30)
    <2>2. \A k \in 1 .. n + m : (IF k <= n THEN f[k] ELSE g[k - n]) = one[d + k - 1].bytes[1]
      <3> TAKE k \in 1 .. n + m
      <3>1. CASE k <= n
        BY <3>1
      <3>2. CASE ~ (k <= n)
        <4>1. k - n \in 1 .. m /\ (d + n) + (k - n) - 1 = d + k - 1
          BY <3>2
        <4> QED
          BY <3>2, <4>1
      <3> QED
        BY <3>1, <3>2
    <2> QED
      BY <2>1, <2>2
  <1>2. (\A k \in d .. d + s - 1 : one[k].ok)
          <=> /\ \A k \in d .. d + n - 1 : one[k].ok
              /\ \A k \in e .. e + m - 1 : one[k].ok
    <2>1. d .. d + s - 1 = (d .. d + n - 1) \cup (e .. e + m - 1)
      OBVIOUS
    <2> QED
      BY <2>1
  <1> QED
    BY <1>1, <1>2 DEF Part, Then, Ok, Err

\* Every step of a loop over len bytes goes on by at least one byte, not past
\* the end, and reads what the single bytes are.
Steps(len, take, piece, one) ==
    \A d \in 0 .. len - 1 : take[d] \in 1 .. len - d /\ piece[d] = Part(one, d, take[d])

\* A loop whose steps read what the single bytes are fills the buffer with the
\* single bytes. By the least number of remaining bytes for which it does not.
LEMMA FillPart ==
    ASSUME NEW len \in Nat, NEW take, NEW piece, NEW one,
           Steps(len, take, piece, one)
    PROVE  Fill(len, take, piece) = Part(one, 0, len)
  <1> DEFINE Loop[done \in 0 .. len] ==
               IF done = len THEN Ok(<<>>)
               ELSE Then(piece[done], Loop[done + take[done]])
             Step(L) == [done \in 0 .. len |->
               IF done = len THEN Ok(<<>>)
               ELSE Then(piece[done], L[done + take[done]])]
             Sol == [done \in 0 .. len |-> Part(one, done, len - done)]
  <1>1. Fill(len, take, piece) = Loop[0]
    BY DEF Fill
  <1>2. Sol = Step(Sol)
    <2>1. ASSUME NEW d \in 0 .. len
          PROVE  Sol[d] = IF d = len THEN Ok(<<>>) ELSE Then(piece[d], Sol[d + take[d]])
      <3>1. CASE d = len
        BY <3>1 DEF Part, Ok
      <3>2. CASE d # len
        <4>1. PICK n \in Nat : n = take[d] /\ d + n \in 0 .. len /\ piece[d] = Part(one, d, n)
          BY <3>2 DEF Steps
        <4>2. PICK m \in Nat, e \in Nat, s \in Nat : m = len - e /\ e = d + n /\ s = len - d
          BY <4>1
        <4>3. Then(Part(one, d, n), Part(one, e, m)) = Part(one, d, s)
          BY <4>2, PartThen
        <4> QED
          BY <3>2, <4>1, <4>2, <4>3
      <3> QED
        BY <3>1, <3>2
    <2> QED
      BY <2>1
  <1>3. Loop = Step(Loop)
    <2>1. Loop = CHOOSE L : L = Step(L)
      OBVIOUS
    <2> HIDE DEF Sol, Step, Loop
    <2> QED
      BY <1>2, <2>1
  <1>4. Loop[0] = Part(one, 0, len)
    <2> DEFINE T == {n \in 0 .. len : Loop[len - n] # Part(one, len - n, n)}
    <2>1. CASE T = {}
      <3>1. len \in 0 .. len /\ len - len = 0
        OBVIOUS
      <3> QED
        BY <2>1, <3>1
    <2>2. CASE T # {}
      <3>1. PICK n \in T : \A x \in T : n <= x
        <4> HIDE DEF Loop
        <4>1. T \in SUBSET Nat
          OBVIOUS
        <4> HIDE DEF T
        <4> QED
          BY <2>2, <4>1, LeastNat
      <3> HIDE DEF Loop
      <3>2. n \in 0 .. len /\ len - n \in 0 .. len
        OBVIOUS
      <3>3. CASE n = 0
        <4>1. Loop[len] = Ok(<<>>)
          BY <1>3
        <4>2. Part(one, len, 0) = Ok(<<>>)
          BY DEF Part, Ok
        <4> QED
          BY <3>3, <4>1, <4>2
      <3>4. CASE n # 0
        <4>1. PICK d \in 0 .. len - 1, t \in 1 .. n :
                 d = len - n /\ t = take[d] /\ piece[d] = Part(one, d, t)
          BY <3>2, <3>4 DEF Steps
        <4>2. Loop[d] = Then(piece[d], Loop[d + t])
          <5>1. d \in 0 .. len /\ d # len /\ d + t = d + take[d]
            BY <4>1
          <5>2. \A x \in 0 .. len :
                   Loop[x] = IF x = len THEN Ok(<<>>) ELSE Then(piece[x], Loop[x + take[x]])
            BY <1>3, Zenon
          <5> QED
            BY <5>1, <5>2
        <4>3. n - t \in 0 .. len /\ n - t < n /\ d + t = len - (n - t) /\ t + (n - t) = n
          BY <4>1, <3>2
        <4>4. n - t \notin T
          BY <3>1, <4>3
        <4>5. Loop[d + t] = Part(one, d + t, n - t)
          BY <4>3, <4>4
        <4>6. PICK m \in Nat, e \in Nat : m = n - t /\ e = d + t /\ n = t + m
          BY <4>1, <4>3
        <4>7. Then(Part(one, d, t), Part(one, e, m)) = Part(one, d, n)
          BY <4>6, PartThen
        <4> QED
          BY <4>1, <4>2, <4>3, <4>5, <4>6, <4>7
      <3> QED
        BY <3>3, <3>4
    <2> QED
      BY <2>1, <2>2
  <1> QED
    BY <1>1, <1>4

\* The results of a single read.
Single(r) == [k \in {0} |-> r]

\* A loop over one byte reads that byte.
LEMMA FillOne ==
    ASSUME NEW take, NEW piece, take[0] = 1,
           piece[0] = Part(Single(piece[0]), 0, 1)
    PROVE  Fill(1, take, piece) = piece[0]
  <1>1. Steps(1, take, piece, Single(piece[0]))
    BY DEF Steps
  <1>2. Fill(1, take, piece) = Part(Single(piece[0]), 0, 1)
    BY <1>1, FillPart
  <1> QED
    BY <1>2

-----------------------------------------------------------------------------
(* Positions in units *)

\* A position is its unit and its place in the unit.
LEMMA DivMod ==
    ASSUME NEW p \in Nat, NEW u \in Nat \ {0}
    PROVE  /\ p \div u \in Nat
           /\ p % u \in Nat
           /\ p % u < u
           /\ p = (p \div u) * u + (p % u)
           /\ (p \div u) <= p
           /\ (p \div u) * u \in Nat
  <1>1. /\ p \div u \in Nat
        /\ p % u \in Nat
        /\ p % u < u
        /\ p = (p \div u) * u + (p % u)
    BY SMT
  <1>2. PICK q \in Nat : q = p \div u
    BY <1>1
  <1>3. q * u \in Nat /\ q <= q * u
    BY SMT
  <1> QED
    BY <1>1, <1>2, <1>3

\* The unit and the place in it are determined by the position.
LEMMA DivModUnique ==
    ASSUME NEW p \in Nat, NEW u \in Nat \ {0}, NEW q \in Nat, NEW r \in Nat,
           p = q * u + r, r < u
    PROVE  p \div u = q /\ p % u = r
  <1>1. q * u \in Nat /\ q * u <= p /\ p < q * u + u
    BY SMT
  <1>2. p \div u = q
    BY <1>1, SMT
  <1>3. p = (p \div u) * u + (p % u) /\ p % u \in Nat
    BY DivMod
  <1>4. PICK x \in Nat : x = q * u
    BY <1>1
  <1> QED
    BY <1>2, <1>3, <1>4

\* The n positions from pos on are in the unit of pos.
SameUnit(pos, unit, n) ==
    \A k \in 0 .. n - 1 : /\ pos + k \in Nat
                          /\ (pos + k) \div unit = pos \div unit
                          /\ (pos + k) % unit = (pos % unit) + k

\* One iteration of a loop over units takes at least one byte and stays in its
\* unit, and in what is left to read.
LEMMA TakeFacts ==
    ASSUME NEW pos \in Nat, NEW unit \in Nat \ {0}, NEW rest \in Nat \ {0}
    PROVE  /\ TakeAt(pos, unit, rest) \in 1 .. rest
           /\ SameUnit(pos, unit, TakeAt(pos, unit, rest))
  <1>1. PICK q \in Nat, r \in Nat : q = pos \div unit /\ r = pos % unit /\ r < unit /\ pos = q * unit + r
    BY DivMod
  <1>2. PICK n \in Nat : n = TakeAt(pos, unit, rest) /\ n \in 1 .. rest /\ n <= unit - r
    <2>1. TakeAt(pos, unit, rest) = IF unit - r <= rest THEN unit - r ELSE rest
      BY <1>1, LeastPair DEF TakeAt
    <2> QED
      BY <1>1, <2>1
  <1>3. ASSUME NEW k \in 0 .. n - 1
        PROVE  pos + k \in Nat /\ (pos + k) \div unit = q /\ (pos + k) % unit = r + k
    <2>1. PICK p \in Nat, s \in Nat : p = pos + k /\ s = r + k /\ s < unit
      BY <1>2
    <2>2. p = q * unit + s
      <3>1. PICK x \in Nat : x = q * unit
        OBVIOUS
      <3> QED
        BY <1>1, <2>1, <3>1
    <2> QED
      BY <2>1, <2>2, DivModUnique
  <1>4. SameUnit(pos, unit, n)
    BY <1>1, <1>3 DEF SameUnit
  <1> QED
    BY <1>2, <1>4

-----------------------------------------------------------------------------
(* Reads of a unit, and read_units *)

\* Reading a range of a file is reading its bytes one by one.
LEMMA ExactSplit ==
    ASSUME NEW f, FileLen(f) \in Nat, NEW a \in Nat, NEW n \in Nat, NEW one,
           \A k \in 0 .. n - 1 : one[k] = ReadExactAt(f, a + k, 1)
    PROVE  ReadExactAt(f, a, n) = Part(one, 0, n)
  <1>1. ASSUME NEW k \in 0 .. n - 1
        PROVE  /\ one[k].ok <=> a + k + 1 <= FileLen(f)
               /\ one[k].ok => one[k].bytes[1] = ByteAt(f, a + k)
    <2>1. PICK p \in Nat : p = a + k /\ one[k] = ReadExactAt(f, p, 1)
      OBVIOUS
    <2>2. one[k] = IF p + 1 <= FileLen(f) THEN Ok([x \in 1 .. 1 |-> ByteAt(f, p + x - 1)]) ELSE Err
      BY <2>1 DEF ReadExactAt
    <2>3. [x \in 1 .. 1 |-> ByteAt(f, p + x - 1)][1] = ByteAt(f, p)
      <3>1. p + 1 - 1 = p
        BY <2>1
      <3> QED
        BY <3>1
    <2> QED
      BY <2>1, <2>2, <2>3 DEF Ok, Err
  <1>2. CASE n = 0
    BY <1>2 DEF ReadExactAt, Part
  <1>3. CASE n # 0
    <2>1. (\A k \in 0 .. 0 + n - 1 : one[k].ok) <=> a + n <= FileLen(f)
      <3>1. n - 1 \in 0 .. n - 1 /\ a + (n - 1) + 1 = a + n
        BY <1>3
      <3> QED
        BY <1>1, <3>1
    <2>2. ASSUME \A k \in 0 .. n - 1 : one[k].ok
          PROVE  [j \in 1 .. n |-> one[0 + j - 1].bytes[1]] = [j \in 1 .. n |-> ByteAt(f, a + j - 1)]
      BY <1>1, <2>2
    <2>3. CASE a + n <= FileLen(f)
      <3>1. ReadExactAt(f, a, n) = Ok([j \in 1 .. n |-> ByteAt(f, a + j - 1)])
        BY <2>3 DEF ReadExactAt
      <3>2. Part(one, 0, n) = Ok([j \in 1 .. n |-> one[0 + j - 1].bytes[1]])
        BY <2>1, <2>3 DEF Part
      <3>3. \A k \in 0 .. n - 1 : one[k].ok
        BY <2>1, <2>3
      <3>4. [j \in 1 .. n |-> one[0 + j - 1].bytes[1]] = [j \in 1 .. n |-> ByteAt(f, a + j - 1)]
        BY <2>2, <3>3
      <3> QED
        BY <3>1, <3>2, <3>4
    <2>4. CASE ~ (a + n <= FileLen(f))
      BY <1>3, <2>1, <2>4 DEF ReadExactAt, Part
    <2> QED
      BY <2>3, <2>4
  <1> QED
    BY <1>2, <1>3

\* The bytes of a range within a unit, read one by one.
UnitBytes(f, at, w, n) == [k \in 0 .. n - 1 |-> UnitPart(f, at, w + k, 1)]

\* Reading a range within a unit is reading its bytes one by one.
LEMMA UnitSplit ==
    ASSUME NEW f, FileLen(f) \in Nat, NEW at \in Numbers \cup {Beyond}, NEW w \in Nat, NEW n \in Nat \ {0}
    PROVE  UnitPart(f, at, w, n) = Part(UnitBytes(f, at, w, n), 0, n)
  <1> DEFINE one == UnitBytes(f, at, w, n)
  <1>0. \A k \in 0 .. n - 1 : one[k] = UnitPart(f, at, w + k, 1)
    BY DEF UnitBytes
  <1> HIDE DEF one
  <1>1. UnitPart(f, at, w, n) = Part(one, 0, n)
    <2>1. CASE at = Hole
      <3>1. \A k \in 0 .. n - 1 : one[k].ok /\ one[k].bytes[1] = 0
        BY <1>0, <2>1 DEF UnitPart, Ok, Hole, Beyond
      <3>2. [j \in 1 .. n |-> one[0 + j - 1].bytes[1]] = [j \in 1 .. n |-> 0]
        BY <3>1
      <3> QED
        BY <2>1, <3>1, <3>2 DEF UnitPart, Part, Hole, Beyond
    <2>2. CASE at = Beyond
      <3>1. 0 \in 0 .. n - 1 /\ ~ one[0].ok
        BY <1>0, <2>2 DEF UnitPart, Err, Hole, Beyond
      <3> QED
        BY <2>2, <3>1 DEF UnitPart, Part, Hole, Beyond
    <2>3. CASE at # Hole /\ at # Beyond
      <3>1. at \in Nat
        BY <2>3 DEF Numbers
      <3>2. PICK a \in Nat : a = at + w
        BY <3>1
      <3>3. \A x, m : UnitPart(f, at, x, m) = ReadExactAt(f, at + x, m)
        BY <2>3 DEF UnitPart
      <3>4. \A k \in 0 .. n - 1 : one[k] = ReadExactAt(f, a + k, 1)
        <4> TAKE k \in 0 .. n - 1
        <4>1. one[k] = ReadExactAt(f, at + (w + k), 1) /\ at + (w + k) = a + k
          BY <1>0, <3>1, <3>2, <3>3
        <4> QED
          BY <4>1
      <3>5. ReadExactAt(f, a, n) = Part(one, 0, n)
        BY <3>4, ExactSplit
      <3> QED
        BY <3>2, <3>3, <3>5
    <2> QED
      BY <2>1, <2>2, <2>3
  <1> QED
    BY <1>1 DEF one

\* What an iteration of the loop over units reads is what the single bytes are.
Pieces(off, len, unit, piece, one) ==
    \A d \in 0 .. len - 1, n \in 1 .. len :
        n = TakeAt(off + d, unit, len - d) => piece[d] = Part(one, d, n)

\* A loop over units whose iterations read what the single bytes are fills the
\* buffer with the single bytes.
LEMMA LoopSplit ==
    ASSUME NEW off \in Nat, NEW len \in Nat, NEW unit \in Nat \ {0}, NEW one, NEW piece,
           Pieces(off, len, unit, piece, one)
    PROVE  Fill(len, [d \in 0 .. len - 1 |-> TakeAt(off + d, unit, len - d)], piece) = Part(one, 0, len)
  <1> DEFINE take == [d \in 0 .. len - 1 |-> TakeAt(off + d, unit, len - d)]
  <1>1. ASSUME NEW d \in 0 .. len - 1
        PROVE  take[d] \in 1 .. len - d /\ piece[d] = Part(one, d, take[d])
    <2>1. PICK pos \in Nat, rest \in Nat \ {0} : pos = off + d /\ rest = len - d
      OBVIOUS
    <2>2. TakeAt(pos, unit, rest) \in 1 .. rest
      BY TakeFacts
    <2>3. take[d] = TakeAt(pos, unit, rest)
      BY <2>1
    <2>4. take[d] \in 1 .. len - d /\ take[d] \in 1 .. len
      BY <2>1, <2>2, <2>3
    <2> QED
      BY <2>1, <2>3, <2>4 DEF Pieces
  <1> HIDE DEF take
  <1>2. Steps(len, take, piece, one)
    BY <1>1 DEF Steps
  <1>3. Fill(len, take, piece) = Part(one, 0, len)
    BY <1>2, FillPart
  <1> QED
    BY <1>3 DEF take

\* From d on, one is two.
Shifted(one, two, d, n) == \A k \in 0 .. n - 1 : one[d + k] = two[k]

\* Parts of the same results are equal.
LEMMA PartShift ==
    ASSUME NEW one, NEW two, NEW d \in Nat, NEW n \in Nat, Shifted(one, two, d, n)
    PROVE  Part(one, d, n) = Part(two, 0, n)
  <1>0. \A k \in 0 .. n - 1 : one[d + k] = two[k]
    BY DEF Shifted
  <1>1. (\A k \in d .. d + n - 1 : one[k].ok) <=> (\A k \in 0 .. 0 + n - 1 : two[k].ok)
    <2>1. ASSUME \A k \in d .. d + n - 1 : one[k].ok, NEW k \in 0 .. 0 + n - 1 PROVE two[k].ok
      <3>1. d + k \in d .. d + n - 1 /\ one[d + k] = two[k]
        BY <1>0
      <3> QED
        BY <2>1, <3>1
    <2>2. ASSUME \A k \in 0 .. 0 + n - 1 : two[k].ok, NEW k \in d .. d + n - 1 PROVE one[k].ok
      <3>1. k - d \in 0 .. n - 1 /\ d + (k - d) = k
        OBVIOUS
      <3>2. one[d + (k - d)] = two[k - d]
        BY <1>0, <3>1
      <3> QED
        BY <2>2, <3>1, <3>2
    <2> QED
      BY <2>1, <2>2
  <1>2. ASSUME NEW j \in 1 .. n PROVE one[d + j - 1].bytes[1] = two[0 + j - 1].bytes[1]
    <2>1. j - 1 \in 0 .. n - 1 /\ d + (j - 1) = d + j - 1 /\ 0 + j - 1 = j - 1
      OBVIOUS
    <2>2. one[d + (j - 1)] = two[j - 1]
      BY <1>0, <2>1
    <2> QED
      BY <2>1, <2>2
  <1> QED
    BY <1>1, <1>2 DEF Part

\* Reading a byte of a unit gives one byte or an error.
LEMMA UnitSingle ==
    ASSUME NEW f, FileLen(f) \in Nat, NEW at \in Numbers \cup {Beyond}, NEW w \in Nat
    PROVE  UnitPart(f, at, w, 1) = Part(Single(UnitPart(f, at, w, 1)), 0, 1)
  <1>1. UnitPart(f, at, w, 1) = Part(UnitBytes(f, at, w, 1), 0, 1)
    BY UnitSplit
  <1>2. Shifted(UnitBytes(f, at, w, 1), Single(UnitPart(f, at, w, 1)), 0, 1)
    BY DEF Shifted, UnitBytes, Single
  <1> QED
    BY <1>1, <1>2, PartShift

\* Every unit of the disk begins at an offset of the file, is a hole, or has no
\* place.
Located(locate, size) == \A u \in 0 .. size : locate[u] \in Numbers \cup {Beyond}

\* read_units of one byte reads it from its unit.
LEMMA UnitsByte ==
    ASSUME NEW f, FileLen(f) \in Nat, NEW pos \in Nat, NEW size \in Nat, pos < size,
           NEW unit \in Nat \ {0}, NEW locate, Located(locate, size)
    PROVE  ReadUnits(f, pos, 1, size, unit, locate) = UnitPart(f, locate[pos \div unit], pos % unit, 1)
  <1> DEFINE take == [d \in 0 .. 1 - 1 |-> TakeAt(pos + d, unit, 1 - d)]
             piece == [d \in 0 .. 1 - 1 |->
                         UnitPart(f, locate[(pos + d) \div unit], (pos + d) % unit, take[d])]
  <1>1. ReadUnits(f, pos, 1, size, unit, locate) = Fill(1, take, piece)
    BY DEF ReadUnits
  <1>2. TakeAt(pos, unit, 1) = 1
    <2>1. TakeAt(pos, unit, 1) \in 1 .. 1
      BY TakeFacts
    <2> QED
      BY <2>1
  <1>3. take[0] = 1
    BY <1>2
  <1>4. piece[0] = UnitPart(f, locate[pos \div unit], pos % unit, 1)
    <2>1. 0 \in 0 .. 1 - 1 /\ pos + 0 = pos
      OBVIOUS
    <2> HIDE DEF take
    <2> QED
      BY <1>3, <2>1
  <1>5. PICK at \in Numbers \cup {Beyond}, w \in Nat : at = locate[pos \div unit] /\ w = pos % unit
    BY DivMod DEF Located
  <1> HIDE DEF take, piece
  <1>6. piece[0] = Part(Single(piece[0]), 0, 1)
    BY <1>4, <1>5, UnitSingle
  <1> QED
    BY <1>1, <1>3, <1>4, <1>6, FillOne

\* The bytes of a range, read one by one by read_units.
UnitsBytes(f, off, len, size, unit, locate) ==
    [k \in 0 .. len - 1 |-> ReadUnits(f, off + k, 1, size, unit, locate)]

\* read_units of a range reads its bytes one by one, whatever unit boundaries
\* it crosses.
LEMMA UnitsSplit ==
    ASSUME NEW f, FileLen(f) \in Nat, NEW off \in Nat, NEW len \in Nat, NEW size \in Nat, off + len <= size,
           NEW unit \in Nat \ {0}, NEW locate, Located(locate, size)
    PROVE  ReadUnits(f, off, len, size, unit, locate)
             = Part(UnitsBytes(f, off, len, size, unit, locate), 0, len)
  <1> DEFINE take == [d \in 0 .. len - 1 |-> TakeAt(off + d, unit, len - d)]
             one == UnitsBytes(f, off, len, size, unit, locate)
             piece == [d \in 0 .. len - 1 |->
                         UnitPart(f, locate[(off + d) \div unit], (off + d) % unit, take[d])]
  <1>1. ReadUnits(f, off, len, size, unit, locate) = Fill(len, take, piece)
    BY DEF ReadUnits
  <1>2. ASSUME NEW d \in 0 .. len - 1, NEW n \in 1 .. len, n = TakeAt(off + d, unit, len - d)
        PROVE  piece[d] = Part(one, d, n)
    <2>1. PICK pos \in Nat, rest \in Nat \ {0} : pos = off + d /\ rest = len - d
      OBVIOUS
    <2>2. n \in 1 .. rest /\ n = TakeAt(pos, unit, rest)
      BY <1>2, <2>1, TakeFacts
    <2>3. PICK at \in Numbers \cup {Beyond}, w \in Nat :
             at = locate[pos \div unit] /\ w = pos % unit
      <3>1. pos \div unit \in 0 .. size
        BY <2>1, DivMod
      <3> QED
        BY <3>1, DivMod DEF Located
    <2>4. piece[d] = UnitPart(f, at, w, n)
      BY <1>2, <2>1, <2>3
    <2> DEFINE two == UnitBytes(f, at, w, n)
    <2>5. ASSUME NEW k \in 0 .. n - 1 PROVE one[d + k] = two[k]
      <3>1. PICK p \in Nat : p = pos + k /\ p \div unit = pos \div unit /\ p % unit = (pos % unit) + k
        <4>1. SameUnit(pos, unit, n)
          BY <2>2, TakeFacts
        <4> QED
          BY <4>1 DEF SameUnit
      <3>2. p < size /\ d + k \in 0 .. len - 1 /\ off + (d + k) = p
        BY <2>1, <2>2, <3>1
      <3>3. one[d + k] = ReadUnits(f, p, 1, size, unit, locate)
        BY <3>2 DEF UnitsBytes
      <3>4. ReadUnits(f, p, 1, size, unit, locate) = UnitPart(f, at, w + k, 1)
        <4>1. ReadUnits(f, p, 1, size, unit, locate) = UnitPart(f, locate[p \div unit], p % unit, 1)
          BY <3>2, UnitsByte
        <4> QED
          BY <2>3, <3>1, <4>1
      <3> QED
        BY <3>3, <3>4 DEF UnitBytes
    <2>6. UnitPart(f, at, w, n) = Part(two, 0, n)
      BY <2>2, UnitSplit
    <2>7. Part(one, d, n) = Part(two, 0, n)
      BY <2>5, PartShift DEF Shifted
    <2> QED
      BY <2>4, <2>6, <2>7
  <1>3. Fill(len, take, piece) = Part(one, 0, len)
    <2> HIDE DEF piece, one
    <2>1. Pieces(off, len, unit, piece, one)
      BY <1>2 DEF Pieces
    <2> QED
      BY <2>1, LoopSplit
  <1> QED
    BY <1>1, <1>3

-----------------------------------------------------------------------------
(* Reads of the stores *)

\* The stores that are not chains, as opening a file gives them.
PlainOk(v) ==
    /\ v.kind \in {"raw", "fixed", "dynamic", "vhdx"}
    /\ v.size \in Nat /\ FileLen(v.file) \in Nat
    /\ v.kind = "dynamic" =>
          /\ v.block \in Nat \ {0} /\ v.bitmap \in Nat
          /\ v.bat \in Seq(Numbers)
    /\ v.kind = "vhdx" =>
          /\ v.block \in Nat \ {0} /\ v.chunk \in Nat \ {0}
          /\ v.bat \in Seq([state : Nat, at : Nat])

\* A chain: dynamic layers over a base of the same size.
ChainOk(v) ==
    /\ v.kind = "chain"
    /\ v.size \in Nat
    /\ PlainOk(v.base) /\ v.base.size = v.size
    /\ DOMAIN v.overlays \subseteq Nat \ {0}
    /\ \A k \in DOMAIN v.overlays : PlainOk(v.overlays[k]) /\ v.overlays[k].kind = "dynamic"

\* A store as open_backing gives it.
StoreOk(v) == PlainOk(v) \/ ChainOk(v)

\* The product of natural numbers is one.
LEMMA NatProduct ==
    ASSUME NEW a \in Nat, NEW b \in Nat
    PROVE  a * b \in Nat
  BY SMT

\* The sector lookups of a dynamic VHD give an offset, a hole or nothing.
LEMMA OffsetTypes ==
    ASSUME NEW v, PlainOk(v), v.kind = "dynamic", NEW s \in Nat
    PROVE  /\ BlockSectorOffset(v, s) \in Numbers \cup {Beyond}
           /\ SectorOffset(v, s) \in Numbers \cup {Beyond}
  <1>1. PICK b \in Nat, r \in Nat : b = s \div v.block /\ r = s % v.block
    BY DivMod DEF PlainOk
  <1>2. BlockSectorOffset(v, s) \in Numbers \cup {Beyond}
    <2>1. CASE b >= Len(v.bat)
      BY <1>1, <2>1 DEF BlockSectorOffset
    <2>2. CASE ~ (b >= Len(v.bat)) /\ v.bat[b + 1] = Hole
      BY <1>1, <2>2 DEF BlockSectorOffset, Numbers
    <2>3. CASE ~ (b >= Len(v.bat)) /\ v.bat[b + 1] # Hole
      <3>1. v.bat \in Seq(Numbers) /\ v.bitmap \in Nat
        BY DEF PlainOk
      <3>2. v.bat[b + 1] \in Nat
        BY <1>1, <2>3, <3>1 DEF Numbers
      <3>3. PICK m \in Nat : m = v.bat[b + 1] + v.bitmap + r
        BY <1>1, <3>1, <3>2
      <3>4. SectorLen * m \in Nat
        BY SectorAssumption, NatProduct
      <3>5. BlockSectorOffset(v, s) = SectorLen * m
        BY <1>1, <2>3, <3>3 DEF BlockSectorOffset
      <3> QED
        BY <3>4, <3>5 DEF Numbers
    <2> QED
      BY <2>1, <2>2, <2>3
  <1> QED
    BY <1>2 DEF SectorOffset, Numbers

\* The block lookup of a VHDX gives an offset, a hole or nothing.
LEMMA VhdxTypes ==
    ASSUME NEW v, PlainOk(v), v.kind = "vhdx", NEW b \in Nat
    PROVE  VhdxLocate(v, b) \in Numbers \cup {Beyond}
  <1>1. PICK idx \in Nat : idx = b + (b \div v.chunk)
    BY DivMod DEF PlainOk
  <1>2. CASE idx >= Len(v.bat)
    BY <1>1, <1>2 DEF VhdxLocate
  <1>3. CASE ~ (idx >= Len(v.bat))
    <2>1. v.bat[idx + 1] \in [state : Nat, at : Nat]
      <3> DEFINE Entries == [state : Nat, at : Nat]
      <3>1. v.bat \in Seq(Entries)
        BY DEF PlainOk
      <3>2. v.bat \in [1 .. Len(v.bat) -> Entries] /\ Len(v.bat) \in Nat
        <4> HIDE DEF Entries
        <4> QED
          BY <3>1
      <3>3. idx + 1 \in 1 .. Len(v.bat)
        BY <1>3, <3>2
      <3> HIDE DEF Entries
      <3>4. v.bat[idx + 1] \in Entries
        BY <3>2, <3>3
      <3> QED
        BY <3>4 DEF Entries
    <2>2. SectorLen * v.bat[idx + 1].at \in Nat
      BY <2>1, SectorAssumption, NatProduct
    <2> QED
      BY <1>1, <1>3, <2>2 DEF VhdxLocate, Numbers
  <1> QED
    BY <1>2, <1>3

\* The bytes of a range of a store that is not a chain, read one by one.
PlainBytes(v, off, len) == [k \in 0 .. len - 1 |-> PlainReadAt(v, off + k, 1)]

\* A raw image or a fixed VHD reads a range byte by byte.
LEMMA FlatSplit ==
    ASSUME NEW v, PlainOk(v), v.kind \in {"raw", "fixed"},
           NEW off \in Nat, NEW len \in Nat, off + len <= v.size
    PROVE  PlainReadAt(v, off, len) = Part(PlainBytes(v, off, len), 0, len)
  <1>1. v.size \in Nat /\ FileLen(v.file) \in Nat
    BY DEF PlainOk
  <1>2. \A o, n : PlainReadAt(v, o, n) = FlatReadAt(v, o, n)
    BY DEF PlainReadAt
  <1>3. ASSUME NEW k \in 0 .. len - 1
        PROVE  PlainBytes(v, off, len)[k] = ReadExactAt(v.file, off + k, 1)
    <2>1. ~ (off + k + 1 > v.size)
      BY <1>1
    <2> QED
      BY <1>2, <2>1 DEF PlainBytes, FlatReadAt
  <1>4. PlainReadAt(v, off, len) = ReadExactAt(v.file, off, len)
    BY <1>1, <1>2 DEF FlatReadAt
  <1>5. ReadExactAt(v.file, off, len) = Part(PlainBytes(v, off, len), 0, len)
    BY <1>1, <1>3, ExactSplit
  <1> QED
    BY <1>4, <1>5

\* Where the sectors of a dynamic VHD are.
SectorTable(v) == [s \in 0 .. v.size |-> SectorOffset(v, s)]

\* A dynamic VHD reads a range byte by byte.
LEMMA DynamicSplit ==
    ASSUME NEW v, PlainOk(v), v.kind = "dynamic",
           NEW off \in Nat, NEW len \in Nat, off + len <= v.size
    PROVE  PlainReadAt(v, off, len) = Part(PlainBytes(v, off, len), 0, len)
  <1> DEFINE table == SectorTable(v)
  <1>1. v.size \in Nat /\ FileLen(v.file) \in Nat
    BY DEF PlainOk
  <1>2. \A o, n : PlainReadAt(v, o, n) = ReadUnits(v.file, o, n, v.size, SectorLen, table)
    BY DEF PlainReadAt, DynamicReadAt, SectorTable
  <1>3. Located(table, v.size)
    BY <1>1, OffsetTypes DEF Located, SectorTable
  <1> HIDE DEF table
  <1>4. ReadUnits(v.file, off, len, v.size, SectorLen, table)
          = Part(UnitsBytes(v.file, off, len, v.size, SectorLen, table), 0, len)
    BY <1>1, <1>3, SectorAssumption, UnitsSplit
  <1>5. UnitsBytes(v.file, off, len, v.size, SectorLen, table) = PlainBytes(v, off, len)
    BY <1>2 DEF UnitsBytes, PlainBytes
  <1> QED
    BY <1>2, <1>4, <1>5

\* Where the blocks of a VHDX are.
BlockTable(v) == [b \in 0 .. v.size |-> VhdxLocate(v, b)]

\* A VHDX reads a range byte by byte.
LEMMA VhdxSplit ==
    ASSUME NEW v, PlainOk(v), v.kind = "vhdx",
           NEW off \in Nat, NEW len \in Nat, off + len <= v.size
    PROVE  PlainReadAt(v, off, len) = Part(PlainBytes(v, off, len), 0, len)
  <1> DEFINE table == BlockTable(v)
  <1>1. v.size \in Nat /\ FileLen(v.file) \in Nat /\ v.block \in Nat \ {0}
    BY DEF PlainOk
  <1>2. \A o, n : PlainReadAt(v, o, n) = ReadUnits(v.file, o, n, v.size, v.block, table)
    BY DEF PlainReadAt, VhdxReadAt, BlockTable
  <1>3. Located(table, v.size)
    BY <1>1, VhdxTypes DEF Located, BlockTable
  <1> HIDE DEF table
  <1>4. ReadUnits(v.file, off, len, v.size, v.block, table)
          = Part(UnitsBytes(v.file, off, len, v.size, v.block, table), 0, len)
    BY <1>1, <1>3, UnitsSplit
  <1>5. UnitsBytes(v.file, off, len, v.size, v.block, table) = PlainBytes(v, off, len)
    BY <1>2 DEF UnitsBytes, PlainBytes
  <1> QED
    BY <1>2, <1>4, <1>5

\* A store that is not a chain reads a range byte by byte.
LEMMA PlainSplit ==
    ASSUME NEW v, PlainOk(v), NEW off \in Nat, NEW len \in Nat, off + len <= v.size
    PROVE  PlainReadAt(v, off, len) = Part(PlainBytes(v, off, len), 0, len)
  BY FlatSplit, DynamicSplit, VhdxSplit DEF PlainOk

-----------------------------------------------------------------------------
(* Reads of a chain *)

\* The first hit is a layer that does not pass the sector on.
LEMMA FirstHitIn ==
    ASSUME NEW offs, DOMAIN offs \subseteq Nat \ {0}
    PROVE  FirstHit(offs) # 0 => FirstHit(offs) \in DOMAIN offs /\ offs[FirstHit(offs)] # Hole
  <1> DEFINE hits == {k \in DOMAIN offs : offs[k] # Hole}
  <1>1. hits # {} => Least(hits) \in hits
    <2>1. hits \in SUBSET Nat
      OBVIOUS
    <2> HIDE DEF hits
    <2> QED
      BY <2>1, LeastOf
  <1> QED
    BY <1>1 DEF FirstHit

\* Where the layers have sector s if its bit is set.
Bitset(c, s) == [k \in DOMAIN c.overlays |-> SectorOffset(c.overlays[k], s)]

\* Where the layers have sector s if its block is allocated.
Alloc(c, s) == [k \in DOMAIN c.overlays |-> BlockSectorOffset(c.overlays[k], s)]

\* Which layer a chain reads a sector from, as a conditional.
LEMMA ChainPartIs ==
    ASSUME NEW c, NEW pos, NEW n
    PROVE  ChainPart(c, pos, n) =
             LET bitset == Bitset(c, pos \div SectorLen)
                 alloc == Alloc(c, pos \div SectorLen)
                 i1 == FirstHit(bitset)
                 i2 == FirstHit(alloc)
             IN  IF i1 # 0 THEN UnitPart(c.overlays[i1].file, bitset[i1], pos % SectorLen, n)
                 ELSE IF i2 # 0 THEN UnitPart(c.overlays[i2].file, alloc[i2], pos % SectorLen, n)
                 ELSE PlainReadAt(c.base, pos, n)
  BY DEF ChainPart, Bitset, Alloc

\* The bytes of a range within a sector of a chain, read one by one.
SectorBytes(c, pos, n) == [k \in 0 .. n - 1 |-> ChainPart(c, pos + k, 1)]

\* Within a sector, a chain reads a range byte by byte, all of them from the
\* same layer.
LEMMA ChainPartSplit ==
    ASSUME NEW c, ChainOk(c), NEW pos \in Nat, NEW n \in Nat \ {0}, pos + n <= c.size,
           SameUnit(pos, SectorLen, n)
    PROVE  ChainPart(c, pos, n) = Part(SectorBytes(c, pos, n), 0, n)
  <1>1. PICK s \in Nat, w \in Nat : s = pos \div SectorLen /\ w = pos % SectorLen
    BY DivMod, SectorAssumption
  <1>2. ASSUME NEW k \in 0 .. n - 1
        PROVE  (pos + k) \div SectorLen = s /\ (pos + k) % SectorLen = w + k
    BY <1>1 DEF SameUnit
  <1> DEFINE bitset == Bitset(c, s)
             alloc == Alloc(c, s)
             one == SectorBytes(c, pos, n)
  <1>3. /\ DOMAIN bitset = DOMAIN c.overlays
        /\ DOMAIN alloc = DOMAIN c.overlays
        /\ DOMAIN c.overlays \subseteq Nat \ {0}
    BY DEF Bitset, Alloc, ChainOk
  <1>4. ASSUME NEW k \in DOMAIN c.overlays
        PROVE  /\ bitset[k] \in Numbers \cup {Beyond}
               /\ alloc[k] \in Numbers \cup {Beyond}
               /\ FileLen(c.overlays[k].file) \in Nat
    <2>1. PlainOk(c.overlays[k]) /\ c.overlays[k].kind = "dynamic"
      BY DEF ChainOk
    <2> QED
      BY <2>1, OffsetTypes DEF Bitset, Alloc, PlainOk
  <1>5. CASE FirstHit(bitset) # 0
    <2>1. PICK x \in DOMAIN c.overlays : x = FirstHit(bitset)
      BY <1>3, <1>5, FirstHitIn
    <2> DEFINE f == c.overlays[x].file
               at == bitset[x]
    <2>2. ChainPart(c, pos, n) = UnitPart(f, at, w, n)
      BY <1>1, <1>5, <2>1, ChainPartIs
    <2>3. ASSUME NEW k \in 0 .. n - 1 PROVE one[0 + k] = UnitBytes(f, at, w, n)[k]
      BY <1>2, <1>5, <2>1, ChainPartIs DEF SectorBytes, UnitBytes
    <2>4. at \in Numbers \cup {Beyond} /\ FileLen(f) \in Nat
      BY <1>4
    <2> HIDE DEF f, at, one
    <2>5. UnitPart(f, at, w, n) = Part(UnitBytes(f, at, w, n), 0, n)
      BY <2>4, UnitSplit
    <2>6. Part(one, 0, n) = Part(UnitBytes(f, at, w, n), 0, n)
      BY <2>3, PartShift DEF Shifted
    <2> QED
      BY <2>2, <2>5, <2>6 DEF one
  <1>6. CASE FirstHit(bitset) = 0 /\ FirstHit(alloc) # 0
    <2>1. PICK x \in DOMAIN c.overlays : x = FirstHit(alloc)
      BY <1>3, <1>6, FirstHitIn
    <2> DEFINE f == c.overlays[x].file
               at == alloc[x]
    <2>2. ChainPart(c, pos, n) = UnitPart(f, at, w, n)
      BY <1>1, <1>6, <2>1, ChainPartIs
    <2>3. ASSUME NEW k \in 0 .. n - 1 PROVE one[0 + k] = UnitBytes(f, at, w, n)[k]
      BY <1>2, <1>6, <2>1, ChainPartIs DEF SectorBytes, UnitBytes
    <2>4. at \in Numbers \cup {Beyond} /\ FileLen(f) \in Nat
      BY <1>4
    <2> HIDE DEF f, at, one
    <2>5. UnitPart(f, at, w, n) = Part(UnitBytes(f, at, w, n), 0, n)
      BY <2>4, UnitSplit
    <2>6. Part(one, 0, n) = Part(UnitBytes(f, at, w, n), 0, n)
      BY <2>3, PartShift DEF Shifted
    <2> QED
      BY <2>2, <2>5, <2>6 DEF one
  <1>7. CASE FirstHit(bitset) = 0 /\ FirstHit(alloc) = 0
    <2>1. ChainPart(c, pos, n) = PlainReadAt(c.base, pos, n)
      BY <1>1, <1>7, ChainPartIs
    <2>2. ASSUME NEW k \in 0 .. n - 1 PROVE one[0 + k] = PlainBytes(c.base, pos, n)[k]
      BY <1>2, <1>7, ChainPartIs DEF SectorBytes, PlainBytes
    <2>3. PlainReadAt(c.base, pos, n) = Part(PlainBytes(c.base, pos, n), 0, n)
      BY PlainSplit DEF ChainOk
    <2> HIDE DEF one
    <2>4. Part(one, 0, n) = Part(PlainBytes(c.base, pos, n), 0, n)
      BY <2>2, PartShift DEF Shifted
    <2> QED
      BY <2>1, <2>3, <2>4 DEF one
  <1> QED
    BY <1>5, <1>6, <1>7

\* The bytes of a range, read one by one.
StoreBytes(v, off, len) == [k \in 0 .. len - 1 |-> ReadAt(v, off + k, 1)]

\* A chain reads one byte from the layer of its sector.
LEMMA ChainByte ==
    ASSUME NEW c, ChainOk(c), NEW pos \in Nat, pos < c.size
    PROVE  ChainReadAt(c, pos, 1) = ChainPart(c, pos, 1)
  <1> DEFINE take == [d \in 0 .. 1 - 1 |-> TakeAt(pos + d, SectorLen, 1 - d)]
             piece == [d \in 0 .. 1 - 1 |-> ChainPart(c, pos + d, take[d])]
  <1>1. ChainReadAt(c, pos, 1) = Fill(1, take, piece)
    <2>1. ~ (pos + 1 > c.size)
      BY DEF ChainOk
    <2> QED
      BY <2>1 DEF ChainReadAt
  <1>2. TakeAt(pos, SectorLen, 1) \in 1 .. 1 /\ SameUnit(pos, SectorLen, TakeAt(pos, SectorLen, 1))
    BY SectorAssumption, TakeFacts
  <1>3. take[0] = 1 /\ SameUnit(pos, SectorLen, 1)
    BY <1>2
  <1>4. piece[0] = ChainPart(c, pos, 1)
    <2>1. 0 \in 0 .. 1 - 1 /\ pos + 0 = pos
      OBVIOUS
    <2> HIDE DEF take
    <2> QED
      BY <1>3, <2>1
  <1> HIDE DEF take, piece
  <1>5. piece[0] = Part(Single(piece[0]), 0, 1)
    <2>1. pos + 1 <= c.size
      BY DEF ChainOk
    <2>2. ChainPart(c, pos, 1) = Part(SectorBytes(c, pos, 1), 0, 1)
      BY <1>3, <2>1, ChainPartSplit
    <2>3. Shifted(SectorBytes(c, pos, 1), Single(piece[0]), 0, 1)
      BY <1>4 DEF Shifted, SectorBytes, Single
    <2>4. Part(SectorBytes(c, pos, 1), 0, 1) = Part(Single(piece[0]), 0, 1)
      BY <2>3, PartShift
    <2> QED
      BY <1>4, <2>2, <2>4
  <1> QED
    BY <1>1, <1>3, <1>4, <1>5, FillOne

\* A chain reads a range byte by byte, across its sectors and layers.
LEMMA ChainSplit ==
    ASSUME NEW c, ChainOk(c), NEW off \in Nat, NEW len \in Nat, off + len <= c.size
    PROVE  ReadAt(c, off, len) = Part(StoreBytes(c, off, len), 0, len)
  <1> DEFINE take == [d \in 0 .. len - 1 |-> TakeAt(off + d, SectorLen, len - d)]
             piece == [d \in 0 .. len - 1 |-> ChainPart(c, off + d, take[d])]
             one == StoreBytes(c, off, len)
  <1>1. \A o, n : ReadAt(c, o, n) = ChainReadAt(c, o, n)
    BY DEF ReadAt, ChainOk
  <1>2. c.size \in Nat
    BY DEF ChainOk
  <1>3. ReadAt(c, off, len) = Fill(len, take, piece)
    <2>1. ~ (off + len > c.size)
      BY <1>2
    <2> QED
      BY <1>1, <2>1 DEF ChainReadAt
  <1>4. ASSUME NEW d \in 0 .. len - 1, NEW n \in 1 .. len, n = TakeAt(off + d, SectorLen, len - d)
        PROVE  piece[d] = Part(one, d, n)
    <2>1. PICK pos \in Nat, rest \in Nat \ {0} : pos = off + d /\ rest = len - d
      OBVIOUS
    <2>2. n \in 1 .. rest /\ SameUnit(pos, SectorLen, n)
      BY <1>4, <2>1, SectorAssumption, TakeFacts
    <2>3. pos + n <= c.size
      BY <1>2, <2>1, <2>2
    <2>4. piece[d] = ChainPart(c, pos, n)
      BY <1>4, <2>1
    <2>5. ASSUME NEW k \in 0 .. n - 1 PROVE one[d + k] = SectorBytes(c, pos, n)[k]
      <3>1. PICK p \in Nat : p = pos + k /\ p < c.size
        BY <1>2, <2>3
      <3>2. d + k \in 0 .. len - 1 /\ off + (d + k) = p
        BY <2>1, <2>2, <3>1
      <3>3. one[d + k] = ReadAt(c, p, 1)
        BY <3>2 DEF StoreBytes
      <3>4. ChainReadAt(c, p, 1) = ChainPart(c, p, 1)
        BY <3>1, ChainByte
      <3> QED
        BY <1>1, <3>1, <3>3, <3>4 DEF SectorBytes
    <2>6. ChainPart(c, pos, n) = Part(SectorBytes(c, pos, n), 0, n)
      BY <2>2, <2>3, ChainPartSplit
    <2>7. Part(one, d, n) = Part(SectorBytes(c, pos, n), 0, n)
      <3> HIDE DEF one
      <3> QED
        BY <2>5, PartShift DEF Shifted
    <2> QED
      BY <2>4, <2>6, <2>7
  <1>5. Fill(len, take, piece) = Part(one, 0, len)
    <2> HIDE DEF piece, one
    <2>1. Pieces(off, len, SectorLen, piece, one)
      BY <1>4 DEF Pieces
    <2> QED
      BY <2>1, SectorAssumption, LoopSplit
  <1> QED
    BY <1>3, <1>5

\* However a range is cut up into sectors, blocks and layers, every store reads
\* it as its bytes one by one, and fails exactly if one of them cannot be read
\* (read_at of every store, read_units).
THEOREM ReadsSplit ==
    ASSUME NEW v, StoreOk(v), NEW off \in Nat, NEW len \in Nat, off + len <= v.size
    PROVE  ReadAt(v, off, len) = Part(StoreBytes(v, off, len), 0, len)
  <1>1. CASE PlainOk(v)
    <2>1. \A o, n : ReadAt(v, o, n) = PlainReadAt(v, o, n)
      BY <1>1 DEF PlainOk, ReadAt
    <2>2. StoreBytes(v, off, len) = PlainBytes(v, off, len)
      BY <2>1 DEF StoreBytes, PlainBytes
    <2> QED
      BY <1>1, <2>1, <2>2, PlainSplit
  <1>2. CASE ChainOk(v)
    BY <1>2, ChainSplit
  <1> QED
    BY <1>1, <1>2 DEF StoreOk

-----------------------------------------------------------------------------
(* What opening a file gives *)

\* A file is a sequence of sectors.
LEMMA FileIs ==
    ASSUME NEW f, FileOk(f)
    PROVE  /\ Len(f) \in Nat
           /\ DOMAIN f = 1 .. Len(f)
           /\ \A k \in 1 .. Len(f) : SectorOk(f[k])
  <1> DEFINE S == {f[k] : k \in DOMAIN f}
  <1>1. f \in Seq(S) /\ \A k \in DOMAIN f : SectorOk(f[k])
    BY DEF FileOk
  <1>2. Len(f) \in Nat /\ DOMAIN f = 1 .. Len(f)
    <2> HIDE DEF S
    <2> QED
      BY <1>1
  <1> QED
    BY <1>1, <1>2

\* What is read at a sector number, or at the end of the file, is a sector.
LEMMA SectorsOk ==
    ASSUME NEW f, FileOk(f)
    PROVE  /\ \A n : SectorOk(SectorAt(f, n))
           /\ SectorOk(Trailing(f))
  <1>1. SectorOk(Eof)
    BY DEF SectorOk, Eof
  <1>2. ASSUME NEW n PROVE SectorOk(SectorAt(f, n))
    <2>1. CASE n \in 0 .. Len(f) - 1
      <3>1. n + 1 \in 1 .. Len(f)
        BY <2>1, FileIs
      <3> QED
        BY <2>1, <3>1, FileIs DEF SectorAt
    <2>2. CASE n \notin 0 .. Len(f) - 1
      BY <1>1, <2>2 DEF SectorAt
    <2> QED
      BY <2>1, <2>2
  <1>3. SectorOk(Trailing(f))
    <2>1. CASE f # <<>> /\ SecBytes(f[Len(f)]) = SectorLen
      <3>1. Len(f) \in 1 .. Len(f)
        BY <2>1, FileIs DEF FileOk
      <3> QED
        BY <2>1, <3>1, FileIs DEF Trailing
    <2>2. CASE ~ (f # <<>> /\ SecBytes(f[Len(f)]) = SectorLen)
      BY <1>1, <2>2 DEF Trailing
    <2> QED
      BY <2>1, <2>2
  <1> QED
    BY <1>2, <1>3

\* The length of a file is a natural number.
LEMMA FileLenNat ==
    ASSUME NEW f, FileOk(f)
    PROVE  FileLen(f) \in Nat
  <1>1. CASE f = <<>>
    BY <1>1 DEF FileLen
  <1>2. CASE f # <<>>
    <2>1. Len(f) \in 1 .. Len(f) /\ Len(f) \in Nat
      BY <1>2, FileIs DEF FileOk
    <2>2. SectorOk(f[Len(f)])
      BY <2>1, FileIs
    <2>3. SecBytes(f[Len(f)]) \in Nat
      BY <2>2, SectorAssumption DEF SectorOk, SecBytes
    <2>4. Len(f) - 1 \in Nat
      BY <2>1
    <2>5. SectorLen * (Len(f) - 1) \in Nat
      BY <2>4, SectorAssumption, SMT
    <2> QED
      BY <1>2, <2>3, <2>5 DEF FileLen
  <1> QED
    BY <1>1, <1>2

\* Division rounded up gives a natural number.
LEMMA CeilDivNat ==
    ASSUME NEW a \in Nat, NEW b \in Nat \ {0}
    PROVE  CeilDiv(a, b) \in Nat
  <1>1. PICK x \in Nat : x = a + b - 1
    OBVIOUS
  <1>2. x \div b \in Nat
    BY SMT
  <1> QED
    BY <1>1, <1>2 DEF CeilDiv

\* What FixedVhd::open gives.
LEMMA FixedOpens ==
    ASSUME NEW f, FileOk(f), FixedOpen(f).ok
    PROVE  PlainOk(FixedOpen(f)) /\ FixedOpen(f).kind = "fixed"
  <1>1. FooterOk(Trailing(f)) /\ FixedOpen(f) = [ok |-> TRUE, kind |-> "fixed", size |-> Trailing(f).size, file |-> f]
    BY DEF FixedOpen, NoStore
  <1>2. Trailing(f).size \in Nat
    BY <1>1, SectorsOk DEF FooterOk, SectorOk
  <1> QED
    BY <1>1, <1>2, FileLenNat DEF PlainOk

\* What DynamicVhd::open gives.
LEMMA DynamicOpens ==
    ASSUME NEW f, FileOk(f), DynamicOpen(f).ok
    PROVE  PlainOk(DynamicOpen(f)) /\ DynamicOpen(f).kind = "dynamic"
  <1> DEFINE v == DynamicOpen(f)
             foot == Trailing(f)
             hdr == SectorAt(f, foot.data)
             table == SectorAt(f, hdr.table)
  <1>1. /\ FooterOk(foot) /\ hdr.tag = "header" /\ hdr.block # 0
        /\ hdr.entries > 0 => table.tag = "bat" /\ hdr.entries <= Len(table.bat)
        /\ v.kind = "dynamic" /\ v.size = foot.size /\ v.file = f
        /\ v.block = hdr.block /\ v.bitmap = CeilDiv(hdr.block, BitsPerSector)
        /\ v.bat = IF hdr.entries = 0 THEN <<>> ELSE SubSeq(table.bat, 1, hdr.entries)
    BY DEF DynamicOpen, NoStore
  <1>2. SectorOk(foot) /\ SectorOk(hdr) /\ SectorOk(table)
    BY SectorsOk
  <1> HIDE DEF v, foot, hdr, table
  <1>3. foot.size \in Nat
    BY <1>1, <1>2 DEF FooterOk, SectorOk
  <1>4. hdr.entries \in Nat /\ hdr.block \in Nat \ {0}
    BY <1>1, <1>2 DEF SectorOk
  <1>5. v.bat \in Seq(Numbers)
    <2>1. CASE hdr.entries = 0
      BY <1>1, <2>1
    <2>2. CASE hdr.entries # 0
      <3>1. table.bat \in Seq(Numbers) /\ hdr.entries \in 1 .. Len(table.bat)
        BY <1>1, <1>2, <1>4, <2>2 DEF SectorOk
      <3>2. SubSeq(table.bat, 1, hdr.entries) \in Seq(Numbers)
        BY <3>1
      <3> QED
        BY <1>1, <2>2, <3>2
    <2> QED
      BY <2>1, <2>2
  <1>6. v.bitmap \in Nat
    BY <1>1, <1>4, CeilDivNat, BitmapAssumption
  <1>7. FileLen(v.file) \in Nat
    BY <1>1, FileLenNat
  <1>8. PlainOk(v) /\ v.kind = "dynamic"
    BY <1>1, <1>3, <1>4, <1>5, <1>6, <1>7 DEF PlainOk
  <1> QED
    BY <1>8 DEF v

\* What Vhdx::open gives.
LEMMA VhdxOpens ==
    ASSUME NEW f, FileOk(f), VhdxOpen(f).ok
    PROVE  PlainOk(VhdxOpen(f)) /\ VhdxOpen(f).kind = "vhdx"
  <1> DEFINE v == VhdxOpen(f)
             m == SectorAt(f, Regions(f).metadata)
             table == SectorAt(f, Regions(f).bat)
  <1>1. /\ MetadataOk(m) /\ (ChunkBits * m.lss) \div m.block # 0
        /\ table.tag = "vhdxbat"
        /\ v.kind = "vhdx" /\ v.size = m.size /\ v.file = f
        /\ v.block = m.block /\ v.chunk = (ChunkBits * m.lss) \div m.block
        /\ v.bat = table.bat
    BY DEF VhdxOpen, NoStore
  <1>2. SectorOk(m) /\ SectorOk(table)
    BY SectorsOk
  <1> HIDE DEF v, m, table
  <1>3. m.size \in Nat /\ m.block \in Nat \ {0} /\ m.lss \in Nat
    BY <1>1, <1>2 DEF MetadataOk, SectorOk, Numbers
  <1>4. v.chunk \in Nat \ {0}
    <2>1. PICK x \in Nat : x = ChunkBits * m.lss
      BY <1>3, ChunkAssumption, SMT
    <2>2. PICK b \in Nat \ {0} : b = m.block
      BY <1>3
    <2>3. x \div b \in Nat
      BY SMT
    <2> QED
      BY <1>1, <2>1, <2>2, <2>3
  <1>5. v.bat \in Seq([state : Nat, at : Nat])
    BY <1>1, <1>2 DEF SectorOk
  <1>6. FileLen(v.file) \in Nat
    BY <1>1, FileLenNat
  <1>7. PlainOk(v) /\ v.kind = "vhdx"
    BY <1>1, <1>3, <1>4, <1>5, <1>6 DEF PlainOk
  <1> QED
    BY <1>7 DEF v

\* What Vhd::open gives.
LEMMA PlainOpens ==
    ASSUME NEW f, FileOk(f), VhdOpen(f).ok
    PROVE  PlainOk(VhdOpen(f))
  BY FixedOpens, DynamicOpens DEF VhdOpen, NoStore

-----------------------------------------------------------------------------
(* The increments of a chain *)

\* The directory entries that are increments of the base.
Matches(stem, ext, entries) ==
    {k \in DOMAIN entries : /\ entries[k].stem = stem /\ entries[k].ext = ext
                            /\ entries[k].num \in 0 .. MaxNumber}

\* The order of the increments: by number, and as listed if the numbers are
\* equal.
Older(entries, j, k) ==
    \/ entries[j].num < entries[k].num
    \/ entries[j].num = entries[k].num /\ j < k

\* The place of an increment in that order.
RankOf(found, entries, k) == Cardinality({j \in found : Older(entries, j, k)}) + 1

\* Every place in the order is taken: the increments that come before a given
\* one are fewer than those of any later one.
LEMMA RankOnto ==
    ASSUME NEW N \in Nat, NEW found \in SUBSET (1 .. N), NEW entries,
           \A k \in found : entries[k].num \in Int,
           NEW r \in 1 .. Cardinality(found)
    PROVE  \E k \in found : RankOf(found, entries, k) = r
  <1>0. ASSUME NEW k \in found
        PROVE  k \in Int /\ entries[k].num \in Int /\ ~ Older(entries, k, k)
    <2>1. PICK a \in Int, u \in Int : a = k /\ u = entries[k].num
      <3>1. k \in 1 .. N /\ N \in Nat
        OBVIOUS
      <3>2. k \in Int
        BY <3>1
      <3>3. entries[k].num \in Int
        OBVIOUS
      <3> QED
        BY <3>2, <3>3
    <2>2. ~ (a < a) /\ ~ (u < u)
      BY <2>1
    <2> QED
      BY <2>1, <2>2 DEF Older
  <1> DEFINE B(k) == {j \in found : Older(entries, j, k)}
             rank == [k \in found |-> RankOf(found, entries, k)]
  <1>1. IsFiniteSet(found) /\ Cardinality(found) \in Nat
    <2>1. IsFiniteSet(1 .. N)
      BY FS_Interval
    <2> QED
      BY <2>1, FS_Subset, FS_CardinalityType
  <1>2. ASSUME NEW k \in found
        PROVE  /\ IsFiniteSet(B(k)) /\ Cardinality(B(k)) \in Nat
               /\ Cardinality(B(k)) < Cardinality(found)
               /\ RankOf(found, entries, k) = Cardinality(B(k)) + 1
    <2>1. k \notin B(k)
      BY <1>0
    <2>2. B(k) \subseteq found /\ B(k) # found
      BY <2>1
    <2> HIDE DEF B
    <2>3. IsFiniteSet(B(k)) /\ Cardinality(B(k)) \in Nat /\ Cardinality(B(k)) < Cardinality(found)
      BY <1>1, <2>2, FS_Subset, FS_CardinalityType
    <2> QED
      BY <2>3 DEF RankOf, B
  <1>3. rank \in [found -> 1 .. Cardinality(found)]
    <2>1. ASSUME NEW k \in found PROVE RankOf(found, entries, k) \in 1 .. Cardinality(found)
      <3> HIDE DEF B
      <3> QED
        BY <1>1, <1>2
    <2> QED
      BY <2>1
  <1>4. ASSUME NEW x \in found, NEW y \in found, Older(entries, x, y)
        PROVE  rank[x] # rank[y]
    <2>0. Cardinality(B(x)) \in Nat /\ Cardinality(B(y)) \in Nat
      BY <1>2
    <2>1. B(x) \subseteq B(y)
      <3>1. ASSUME NEW j \in B(x) PROVE j \in B(y)
        <4>1. j \in found
          OBVIOUS
        <4>2. /\ j \in Int /\ x \in Int /\ y \in Int
              /\ entries[j].num \in Int /\ entries[x].num \in Int /\ entries[y].num \in Int
          BY <1>0, <4>1
        <4>3. Older(entries, j, x)
          OBVIOUS
        <4>4. Older(entries, j, y)
          BY <1>4, <4>2, <4>3 DEF Older
        <4> QED
          BY <4>1, <4>4
      <3> QED
        BY <3>1
    <2>2. x \in B(y) /\ x \notin B(x)
      <3>1. x \in B(y)
        BY <1>4
      <3>2. ~ Older(entries, x, x)
        BY <1>0
      <3> QED
        BY <3>1, <3>2
    <2>3. Cardinality(B(x)) < Cardinality(B(y))
      <3>1. IsFiniteSet(B(y)) /\ B(x) # B(y)
        BY <1>2, <2>2
      <3> HIDE DEF B
      <3> QED
        BY <2>1, <2>0, <3>1, FS_Subset
    <2>4. rank[x] = Cardinality(B(x)) + 1 /\ rank[y] = Cardinality(B(y)) + 1
      BY <1>2
    <2> HIDE DEF B, rank
    <2> QED
      BY <2>0, <2>3, <2>4
  <1>5. ASSUME NEW x \in found, NEW y \in found, x # y
        PROVE  Older(entries, x, y) \/ Older(entries, y, x)
    <2>1. PICK a \in Int, b \in Int, u \in Int, w \in Int :
             a = x /\ b = y /\ u = entries[x].num /\ w = entries[y].num
      BY <1>0
    <2>2. (u < w \/ w < u \/ u = w) /\ (a < b \/ b < a)
      BY <1>5, <2>1
    <2> QED
      BY <2>1, <2>2 DEF Older
  <1>6. \A x, y \in found : x # y => rank[x] # rank[y]
    BY <1>4, <1>5
  <1>7. \E k \in found : rank[k] = r
    <2> DEFINE S == {rank[k] : k \in found}
               T == 1 .. Cardinality(found)
    <2>1. S \subseteq T
      BY <1>3
    <2>2. IsFiniteSet(T) /\ Cardinality(T) = Cardinality(found)
      <3>1. T = 1 .. Cardinality(found) /\ 1 \in Int /\ Cardinality(found) \in Int
        BY <1>1
      <3> QED
        BY <1>1, FS_Interval
    <2>3. Cardinality(S) = Cardinality(found)
      <3>1. rank \in Bijection(found, S)
        BY <1>3, <1>6 DEF Bijection, Injection, Surjection, IsInjective
      <3> HIDE DEF rank, S
      <3> QED
        BY <1>1, <3>1, FS_Bijection DEF ExistsBijection
    <2>4. S = T
      <3> HIDE DEF S, T
      <3> QED
        BY <2>1, <2>2, <2>3, FS_Subset
    <2> QED
      BY <2>4
  <1> QED
    BY <1>7

\* find_increments returns directory entries, none if there are none.
LEMMA IncrementsAre ==
    ASSUME NEW N \in Nat, NEW S, NEW entries \in [1 .. N -> S], NEW stem, NEW ext
    PROVE  /\ FindIncrements(stem, ext, entries) \in Seq(S)
           /\ N = 0 => FindIncrements(stem, ext, entries) = <<>>
  <1> DEFINE found == Matches(stem, ext, entries)
             incs == FindIncrements(stem, ext, entries)
             n == Cardinality(found)
  <1>1. found \in SUBSET (1 .. N) /\ \A k \in found : entries[k].num \in Int
    BY DEF Matches
  <1>2. incs = [r \in 1 .. n |-> entries[CHOOSE k \in found : RankOf(found, entries, k) = r]]
    BY DEF FindIncrements, Matches, RankOf, Older
  <1> HIDE DEF found, incs
  <1>3. n \in Nat /\ (N = 0 => n = 0)
    <2>1. IsFiniteSet(1 .. N)
      BY FS_Interval
    <2>2. IsFiniteSet(found)
      BY <1>1, <2>1, FS_Subset
    <2>3. N = 0 => found = {}
      BY <1>1
    <2> QED
      BY <2>2, <2>3, FS_CardinalityType, FS_EmptySet
  <1>4. ASSUME NEW r \in 1 .. n PROVE incs[r] \in S
    <2>1. \E k \in found : RankOf(found, entries, k) = r
      BY <1>1, RankOnto
    <2>2. (CHOOSE k \in found : RankOf(found, entries, k) = r) \in found
      BY <2>1
    <2> QED
      BY <1>1, <1>2, <2>2
  <1>5. incs \in [1 .. n -> S]
    BY <1>2, <1>4
  <1> HIDE DEF n
  <1>6. incs \in Seq(S)
    BY <1>3, <1>5
  <1>7. N = 0 => incs = <<>>
    BY <1>3, <1>5
  <1> QED
    BY <1>6, <1>7 DEF incs

\* What ChainedVhd::open gives.
LEMMA ChainOpens ==
    ASSUME NEW base, PlainOk(base), NEW S, \A e \in S : FileOk(e.file), NEW incs \in Seq(S),
           ChainOpen(base, incs).ok
    PROVE  ChainOk(ChainOpen(base, incs))
  <1> DEFINE layers == [k \in DOMAIN incs |-> DynamicOpen(incs[Len(incs) + 1 - k].file)]
             v == ChainOpen(base, incs)
  <1>1. /\ v = [ok |-> TRUE, kind |-> "chain", size |-> base.size, overlays |-> layers, base |-> base]
        /\ \A k \in DOMAIN layers : layers[k].ok
    BY DEF ChainOpen, NoStore
  <1>2. DOMAIN layers = 1 .. Len(incs) /\ Len(incs) \in Nat
    OBVIOUS
  <1>3. ASSUME NEW k \in DOMAIN layers PROVE PlainOk(layers[k]) /\ layers[k].kind = "dynamic"
    <2>1. Len(incs) + 1 - k \in 1 .. Len(incs)
      BY <1>2
    <2>2. PICK e \in S : e = incs[Len(incs) + 1 - k]
      BY <2>1
    <2>3. layers[k] = DynamicOpen(e.file) /\ layers[k].ok
      BY <1>1, <2>2
    <2> QED
      BY <2>3, DynamicOpens
  <1> HIDE DEF layers
  <1>4. v.kind = "chain" /\ v.size = base.size /\ v.overlays = layers /\ v.base = base
    BY <1>1
  <1> HIDE DEF v
  <1>5. ChainOk(v)
    BY <1>2, <1>3, <1>4 DEF ChainOk, PlainOk
  <1> QED
    BY <1>5 DEF v

\* Whatever the files contain, a store that open_backing opens is one that can
\* be read.
LEMMA StoresOpen ==
    ASSUME NEW stem, NEW ext, NEW f, FileOk(f), NEW S, \A e \in S : FileOk(e.file),
           NEW N \in Nat, NEW entries \in [1 .. N -> S],
           OpenBacking(stem, ext, f, entries).ok
    PROVE  StoreOk(OpenBacking(stem, ext, f, entries))
  <1> DEFINE v == OpenBacking(stem, ext, f, entries)
             incs == FindIncrements(stem, ext, entries)
             base == VhdOpen(f)
  <1>1. CASE SectorAt(f, 0).tag = "vhdxident"
    <2>1. v = VhdxOpen(f)
      BY <1>1 DEF OpenBacking
    <2> QED
      BY <2>1, VhdxOpens DEF StoreOk
  <1>2. CASE SectorAt(f, 0).tag # "vhdxident" /\ Trailing(f).tag = "footer"
    <2>1. v = IF ~ base.ok \/ incs = <<>> THEN base ELSE ChainOpen(base, incs)
      BY <1>2 DEF OpenBacking
    <2>2. CASE ~ base.ok \/ incs = <<>>
      BY <2>1, <2>2, PlainOpens DEF StoreOk
    <2>3. CASE base.ok /\ incs # <<>>
      <3>1. incs \in Seq(S) /\ PlainOk(base) /\ v = ChainOpen(base, incs) /\ v.ok
        BY <2>1, <2>3, IncrementsAre, PlainOpens
      <3> HIDE DEF incs, base, v
      <3>2. ChainOk(v)
        BY <3>1, ChainOpens
      <3> QED
        BY <3>2 DEF StoreOk, v
    <2> QED
      BY <2>2, <2>3
  <1>3. CASE SectorAt(f, 0).tag # "vhdxident" /\ Trailing(f).tag # "footer"
    <2>1. v = [ok |-> TRUE, kind |-> "raw", size |-> FileLen(f), file |-> f]
      BY <1>3 DEF OpenBacking, RawOpen
    <2>2. PlainOk(v)
      BY <2>1, FileLenNat DEF PlainOk
    <2> QED
      BY <2>2 DEF StoreOk
  <1> QED
    BY <1>1, <1>2, <1>3

-----------------------------------------------------------------------------
(* The geometry of the copy *)

\* Multiplication by a natural number is monotone.
LEMMA ProductMonotone ==
    ASSUME NEW a \in Nat, NEW b \in Nat, NEW c \in Nat, a <= b
    PROVE  a * c <= b * c
  <1>1. PICK d \in Nat : b = a + d
    <2>1. b - a \in Nat /\ b = a + (b - a)
      OBVIOUS
    <2> QED
      BY <2>1
  <1>2. (a + d) * c = a * c + d * c
    BY SMT
  <1>3. PICK x \in Nat, y \in Nat : x = a * c /\ y = d * c
    BY NatProduct
  <1> QED
    BY <1>1, <1>2, <1>3

\* Division rounded up: so many units cover a, and every one of them holds some
\* of it.
LEMMA CeilDivFacts ==
    ASSUME NEW a \in Nat, NEW b \in Nat \ {0}
    PROVE  /\ CeilDiv(a, b) \in Nat
           /\ CeilDiv(a, b) * b \in Nat
           /\ a <= CeilDiv(a, b) * b
           /\ \A e \in Nat : e < CeilDiv(a, b) => e * b < a
           /\ a > 0 => CeilDiv(a, b) > 0
  <1>1. PICK x \in Nat : x = a + b - 1
    OBVIOUS
  <1>2. PICK q \in Nat, r \in Nat : q = x \div b /\ r = x % b /\ r < b /\ x = q * b + r
    BY DivMod
  <1>3. PICK y \in Nat : y = q * b
    BY NatProduct
  <1>4. a <= y
    BY <1>1, <1>2, <1>3
  <1>5. ASSUME NEW e \in Nat, e < q PROVE e * b < a
    <2>1. (e + 1) * b <= q * b
      BY <1>5, ProductMonotone
    <2>2. (e + 1) * b = e * b + b
      BY SMT
    <2>3. PICK z \in Nat : z = e * b
      BY NatProduct
    <2> QED
      BY <1>1, <1>2, <1>3, <2>1, <2>2, <2>3
  <1>6. a > 0 => q > 0
    BY <1>3, <1>4
  <1>7. CeilDiv(a, b) = q
    BY <1>1, <1>2 DEF CeilDiv
  <1> QED
    BY <1>3, <1>4, <1>5, <1>6, <1>7

\* The sectors of a stored block, its bitmap included.
Stride == BitmapSecs + BlockSecs

\* The sector after the BAT, where the first block goes.
Start(v) == TableSector + BatSecs(v)

\* The sizes are positive, and a bitmap has a bit for every sector of a block.
LEMMA Constants ==
    /\ SectorLen \in Nat \ {0} /\ BlockSecs \in Nat \ {0} /\ BlockBytes \in Nat \ {0}
    /\ BitmapSecs \in Nat \ {0} /\ Stride \in Nat \ {0}
    /\ BlockBytes = BlockSecs * SectorLen
    /\ BlockSecs <= BitmapSecs * BitsPerSector
  <1>1. SectorLen \in Nat \ {0} /\ BlockSecs \in Nat \ {0} /\ BitsPerSector \in Nat \ {0}
    BY SectorAssumption, WriterAssumption, BitmapAssumption
  <1>2. BlockBytes \in Nat \ {0}
    BY <1>1, SMT DEF BlockBytes
  <1>3. BitmapSecs \in Nat \ {0} /\ BlockSecs <= BitmapSecs * BitsPerSector
    BY <1>1, CeilDivFacts DEF BitmapSecs
  <1> QED
    BY <1>1, <1>2, <1>3 DEF Stride, BlockBytes

\* The blocks cover the disk; the BAT is there if there are blocks.
LEMMA Counts ==
    ASSUME NEW v, v.size \in Nat
    PROVE  /\ NBlocks(v) \in Nat /\ BatSecs(v) \in Nat /\ Start(v) \in Nat /\ Start(v) >= 3
           /\ NBlocks(v) > 0 => Start(v) >= 4
           /\ v.size <= NBlocks(v) * BlockBytes
           /\ NBlocks(v) * BlockBytes \in Nat
  <1>1. /\ NBlocks(v) \in Nat /\ v.size <= NBlocks(v) * BlockBytes
        /\ NBlocks(v) * BlockBytes \in Nat
    BY Constants, CeilDivFacts DEF NBlocks
  <1>2. BatSecs(v) \in Nat /\ (NBlocks(v) > 0 => BatSecs(v) > 0)
    BY <1>1, WriterAssumption, CeilDivFacts DEF BatSecs
  <1> QED
    BY <1>1, <1>2 DEF Start, TableSector

\* The bytes of block b: the last block may be short.
Span(v, b) == Least({BlockBytes, v.size - b * BlockBytes})

\* The bytes of a block lie within the disk, and those in both are no more than
\* these.
LEMMA SpanFacts ==
    ASSUME NEW v, v.size \in Nat, NEW b \in 0 .. NBlocks(v) - 1
    PROVE  /\ b * BlockBytes \in Nat
           /\ Span(v, b) \in 1 .. BlockBytes
           /\ b * BlockBytes + Span(v, b) <= v.size
           /\ \A k \in Nat : /\ k < BlockBytes
                             /\ b * BlockBytes + k < v.size
                             => k < Span(v, b)
  <1>1. b \in Nat /\ b < NBlocks(v)
    BY Counts
  <1>2. b * BlockBytes < v.size
    BY <1>1, Constants, CeilDivFacts DEF NBlocks
  <1>3. PICK x \in Nat : x = b * BlockBytes
    BY <1>1, Constants, NatProduct
  <1>4. Span(v, b) = IF BlockBytes <= v.size - x THEN BlockBytes ELSE v.size - x
    BY <1>3, Constants, LeastPair DEF Span
  <1>5. PICK bb \in Nat \ {0}, size \in Nat, s \in Nat \ {0} :
            bb = BlockBytes /\ size = v.size /\ s = Span(v, b) /\ s <= bb /\ x + s <= size
            /\ (s = bb \/ x + s = size)
    BY <1>2, <1>3, <1>4, Constants
  <1> QED
    BY <1>3, <1>5

-----------------------------------------------------------------------------
(* The blocks the writer reads *)

\* The buffer of a block holds the block's bytes, and zeros after the end of
\* the disk.
LEMMA BlockReadIs ==
    ASSUME NEW v, StoreOk(v), NEW b \in 0 .. NBlocks(v) - 1
    PROVE  LET off == b * BlockBytes
           IN  /\ BlockRead(v, b).ok <=> \A k \in 0 .. Span(v, b) - 1 : ReadAt(v, off + k, 1).ok
               /\ BlockRead(v, b).ok => ReadAt(v, off, Span(v, b)).ok
               /\ BlockRead(v, b).ok =>
                     BlockRead(v, b).bytes =
                        [k \in 1 .. BlockBytes |->
                            IF k <= Span(v, b) THEN ReadAt(v, off + k - 1, 1).bytes[1] ELSE 0]
  <1>1. v.size \in Nat
    BY DEF StoreOk, PlainOk, ChainOk
  <1>2. PICK off \in Nat, n \in Nat : off = b * BlockBytes /\ n = Span(v, b) /\ n \in 1 .. BlockBytes /\ off + n <= v.size
    BY <1>1, SpanFacts
  <1> DEFINE r == ReadAt(v, off, n)
             one == StoreBytes(v, off, n)
             f == [j \in 1 .. n |-> one[0 + j - 1].bytes[1]]
             z == [k \in 1 .. BlockBytes - n |-> 0]
  <1>3. BlockRead(v, b) = [ok |-> r.ok, bytes |-> r.bytes \o z]
    BY <1>2 DEF BlockRead, Span
  <1>4. r = Part(one, 0, n)
    BY <1>2, ReadsSplit
  <1>5. \A k \in 0 .. n - 1 : one[k] = ReadAt(v, off + k, 1)
    BY DEF StoreBytes
  <1>6. r.ok <=> \A k \in 0 .. n - 1 : ReadAt(v, off + k, 1).ok
    <2> HIDE DEF r, one
    <2> QED
      BY <1>2, <1>4, <1>5 DEF Part, Ok, Err
  <1>7. ASSUME r.ok
        PROVE  r.bytes \o z = [k \in 1 .. BlockBytes |->
                                 IF k <= n THEN ReadAt(v, off + k - 1, 1).bytes[1] ELSE 0]
    <2>1. r.bytes = f
      <3> HIDE DEF r, one
      <3> QED
        BY <1>4, <1>7 DEF Part, Ok, Err
    <2>2. PICK m \in Nat : m = BlockBytes - n /\ n + m = BlockBytes
      BY <1>2, Constants
    <2>3. f = [k \in 1 .. n |-> f[k]] /\ z = [k \in 1 .. m |-> z[k]]
      BY <2>2
    <2>4. f \o z = [k \in 1 .. n + m |-> IF k <= n THEN f[k] ELSE z[k - n]]
      <3> HIDE DEF f, z
      <3> QED
        BY <2>3, Catenate
    <2>5. ASSUME NEW k \in 1 .. n + m
          PROVE  (IF k <= n THEN f[k] ELSE z[k - n])
                   = (IF k <= n THEN ReadAt(v, off + k - 1, 1).bytes[1] ELSE 0)
      <3>1. CASE k <= n
        <4>1. k - 1 \in 0 .. n - 1 /\ 0 + k - 1 = k - 1 /\ off + (k - 1) = off + k - 1
          BY <3>1
        <4>2. f[k] = one[k - 1].bytes[1]
          BY <3>1, <4>1
        <4>3. one[k - 1] = ReadAt(v, off + (k - 1), 1)
          BY <1>5, <4>1
        <4> QED
          BY <3>1, <4>1, <4>2, <4>3
      <3>2. CASE ~ (k <= n)
        BY <2>2, <3>2
      <3> QED
        BY <3>1, <3>2
    <2> HIDE DEF f, z, r
    <2> QED
      BY <2>1, <2>2, <2>4, <2>5
  <1> HIDE DEF r, one, f, z
  <1>8. BlockRead(v, b).ok = r.ok /\ BlockRead(v, b).bytes = r.bytes \o z
    BY <1>3
  <1> QED
    BY <1>2, <1>6, <1>7, <1>8 DEF r

-----------------------------------------------------------------------------
(* Sequences of sectors *)

\* A sequence, as what its elements are.
IsFile(o) == Len(o) \in Nat /\ o = [k \in 1 .. Len(o) |-> o[k]]

\* p begins with o.
Extended(o, p) ==
    /\ IsFile(o) /\ IsFile(p)
    /\ Len(o) <= Len(p)
    /\ \A k \in 1 .. Len(o) : p[k] = o[k]

\* A function on 1 .. n is a sequence.
LEMMA MadeFile ==
    ASSUME NEW n \in Nat, NEW f, f = [k \in 1 .. n |-> f[k]]
    PROVE  IsFile(f) /\ Len(f) = n
  <1>1. Len(f) = n
    BY SMT
  <1> QED
    BY <1>1 DEF IsFile

\* c is a followed by b.
Joined(a, b, c) ==
    /\ Extended(a, c)
    /\ Len(c) = Len(a) + Len(b)
    /\ \A k \in 1 .. Len(b) : c[Len(a) + k] = b[k]
    /\ Len(b) = 0 => c = a

\* Concatenation puts one sequence after the other.
LEMMA Appended ==
    ASSUME NEW a, IsFile(a), NEW b, IsFile(b)
    PROVE  Joined(a, b, a \o b)
  <1>1. PICK n \in Nat, m \in Nat, s \in Nat : n = Len(a) /\ m = Len(b) /\ s = n + m
    BY DEF IsFile
  <1>2. a = [k \in 1 .. n |-> a[k]] /\ b = [k \in 1 .. m |-> b[k]]
    BY <1>1 DEF IsFile
  <1>3. a \o b = [k \in 1 .. s |-> IF k <= n THEN a[k] ELSE b[k - n]]
    BY <1>1, <1>2, Catenate
  <1> DEFINE c == a \o b
  <1>4. c = [k \in 1 .. s |-> c[k]]
    BY <1>3
  <1>5. IsFile(c) /\ Len(c) = s
    <2> HIDE DEF c
    <2> QED
      BY <1>1, <1>4, MadeFile
  <1>6. \A k \in 1 .. n : c[k] = a[k]
    BY <1>1, <1>3
  <1>7. ASSUME NEW k \in 1 .. m
        PROVE  c[n + k] = b[k]
    <2>1. n + k \in 1 .. s /\ ~ (n + k <= n) /\ (n + k) - n = k
      BY <1>1
    <2> QED
      BY <1>3, <2>1
  <1>8. ASSUME m = 0
        PROVE  c = a
    <2>1. s = n
      BY <1>1, <1>8
    <2>2. \A k \in 1 .. n : c[k] = a[k]
      BY <1>6
    <2> HIDE DEF c
    <2> QED
      BY <1>2, <1>4, <2>1, <2>2
  <1>9. Extended(a, c)
    BY <1>1, <1>5, <1>6 DEF Extended
  <1> QED
    BY <1>1, <1>5, <1>7, <1>8, <1>9 DEF Joined

\* A prefix of a sequence.
LEMMA Prefix ==
    ASSUME NEW p, IsFile(p), NEW n \in 0 .. Len(p)
    PROVE  /\ IsFile(SubSeq(p, 1, n)) /\ Len(SubSeq(p, 1, n)) = n
           /\ \A k \in 1 .. n : SubSeq(p, 1, n)[k] = p[k]
           /\ n = Len(p) => SubSeq(p, 1, n) = p
  <1>0. Len(p) \in Nat /\ n \in Nat /\ n <= Len(p)
    BY DEF IsFile
  <1>1. SubSeq(p, 1, n) = [k \in 1 .. n |-> p[k]]
    <2>1. p \in Seq({p[k] : k \in 1 .. Len(p)})
      <3>1. p \in [1 .. Len(p) -> {p[k] : k \in 1 .. Len(p)}]
        BY DEF IsFile
      <3> QED
        BY <1>0, <3>1
    <2> QED
      BY <1>0, <2>1
  <1> DEFINE s == SubSeq(p, 1, n)
  <1>2. s = [k \in 1 .. n |-> s[k]]
    BY <1>1
  <1>3. IsFile(s) /\ Len(s) = n
    <2> HIDE DEF s
    <2> QED
      BY <1>0, <1>2, MadeFile
  <1>4. n = Len(p) => s = p
    BY <1>1 DEF IsFile
  <1> QED
    BY <1>1, <1>3, <1>4

\* The BAT with the first n entries of b written over the reserved ones.
Entries(v, b, n) == [e \in 1 .. NBlocks(v) |-> IF e <= n THEN b[e] ELSE Hole]

-----------------------------------------------------------------------------
(* The file that is written *)

\* The file begins with the footer's copy, the header and the BAT, which shows
\* c.
Headed(v, o, c) ==
    /\ IsFile(o) /\ Len(o) >= Start(v)
    /\ o[1] = Footer(v) /\ o[2] = Header(v) /\ o[3] = Pad
    /\ NBlocks(v) > 0 => o[TableSector + 1] = BatSector(c)

\* After the first sector there is no footer.
NoFooter(o) == \A k \in 2 .. Len(o) : o[k].tag # "footer"

\* Block e of the input can be read, and is zero.
Zeros(v, e) == BlockRead(v, e - 1).ok /\ AllZero(BlockRead(v, e - 1).bytes)

\* A full bitmap is at the sectors after at.
BitmapAt(o, at) == \A k \in 1 .. BitmapSecs : o[at + k] = FullBitmap[k]

\* Block e of the input is stored at sector at, after its bitmap.
Stored(v, o, e, at) ==
    /\ BlockRead(v, e - 1).ok
    /\ at \in Nat /\ Start(v) <= at /\ at + Stride <= Len(o)
    /\ BitmapAt(o, at)
    /\ \A k \in 1 .. BlockSecs :
          o[at + BitmapSecs + k] = BlockData(BlockRead(v, e - 1).bytes)[k]

\* The file is complete: head, and a footer at the end.
Image(v, o, c) ==
    /\ Headed(v, o, c)
    /\ Len(o) > Start(v) /\ o[Len(o)] = Footer(v)

\* A complete file, where every block the BAT names is stored.
Holds(v, o, c) ==
    /\ Image(v, o, c)
    /\ c \in [1 .. NBlocks(v) -> Numbers]
    /\ \A e \in 1 .. NBlocks(v) : c[e] = Hole \/ Stored(v, o, e, c[e])

-----------------------------------------------------------------------------
(* The file that was written shows what was stored *)

\* A position is its block, the sector in the block and the place in the
\* sector.
LEMMA NestedUnits ==
    ASSUME NEW p \in Nat
    PROVE  LET s == p \div SectorLen
           IN  /\ s \in Nat
               /\ s \div BlockSecs = p \div BlockBytes
               /\ p % BlockBytes = (s % BlockSecs) * SectorLen + (p % SectorLen)
               /\ s % BlockSecs \in 0 .. BlockSecs - 1
               /\ p % SectorLen \in 0 .. SectorLen - 1
               /\ p \div BlockBytes \in Nat
               /\ p % BlockBytes \in 0 .. BlockBytes - 1
               /\ p = (p \div BlockBytes) * BlockBytes + (p % BlockBytes)
  <1>1. PICK sl \in Nat \ {0}, bs \in Nat \ {0}, bb \in Nat \ {0} :
            sl = SectorLen /\ bs = BlockSecs /\ bb = BlockBytes /\ bb = bs * sl
    BY Constants
  <1>2. PICK s \in Nat, w \in Nat : s = p \div sl /\ w = p % sl /\ w < sl /\ p = s * sl + w
    BY DivMod
  <1>3. PICK b \in Nat, r \in Nat : b = s \div bs /\ r = s % bs /\ r < bs /\ s = b * bs + r
    BY DivMod
  <1>4. PICK t \in Nat : t = r * sl
    BY NatProduct
  <1>5. p = b * bb + (t + w)
    <2>1. (b * bs + r) * sl = b * (bs * sl) + r * sl
      BY SMT
    <2>2. s * sl = b * bb + t
      BY <1>1, <1>3, <1>4, <2>1
    <2>3. PICK y \in Nat, z \in Nat : y = s * sl /\ z = b * bb
      BY NatProduct
    <2> QED
      BY <1>2, <2>2, <2>3
  <1>6. t + w < bb
    <2>1. (r + 1) * sl <= bs * sl
      BY <1>3, ProductMonotone
    <2>2. (r + 1) * sl = r * sl + sl
      BY SMT
    <2> QED
      BY <1>1, <1>2, <1>4, <2>1, <2>2
  <1>7. PICK x \in Nat : x = t + w
    OBVIOUS
  <1>8. p \div bb = b /\ p % bb = x
    BY <1>5, <1>6, <1>7, DivModUnique
  <1>9. /\ p \div SectorLen = s /\ p % SectorLen = w
        /\ s \div BlockSecs = b /\ s % BlockSecs = r
        /\ p \div BlockBytes = b /\ p % BlockBytes = x
    BY <1>1, <1>2, <1>3, <1>8
  <1>10. p = b * BlockBytes + x /\ x = r * SectorLen + w
    BY <1>1, <1>4, <1>5, <1>7
  <1>11. r \in 0 .. BlockSecs - 1 /\ w \in 0 .. SectorLen - 1 /\ x \in 0 .. BlockBytes - 1
    <2>1. r \in 0 .. bs - 1
      BY <1>3
    <2>2. w \in 0 .. sl - 1
      BY <1>2
    <2>3. x \in 0 .. bb - 1
      BY <1>6, <1>7
    <2> QED
      BY <1>1, <2>1, <2>2, <2>3
  <1> QED
    BY <1>9, <1>10, <1>11

\* In a full bitmap the bit of every sector of the block is set.
LEMMA FullBits ==
    ASSUME NEW o, IsFile(o), NEW at \in Nat, at + BitmapSecs <= Len(o), BitmapAt(o, at),
           NEW r \in 0 .. BlockSecs - 1
    PROVE  r \in BitsAt(o, at, BitmapSecs)
  <1>1. PICK n \in Nat \ {0}, bps \in Nat \ {0}, bs \in Nat \ {0} :
           n = BitmapSecs /\ bps = BitsPerSector /\ bs = BlockSecs /\ bs <= n * bps
    BY Constants, BitmapAssumption
  <1>0. r \in Nat
    BY Constants
  <1>2. PICK j \in Nat, b \in Nat : j = r \div bps /\ b = r % bps /\ b < bps /\ r = j * bps + b
    BY <1>0, DivMod
  <1>3. j < n
    <2>1. SUFFICES ASSUME n <= j PROVE FALSE
      OBVIOUS
    <2>2. n * bps <= j * bps
      BY <2>1, ProductMonotone
    <2>3. PICK x \in Nat, y \in Nat : x = n * bps /\ y = j * bps
      BY NatProduct
    <2> QED
      BY <1>1, <1>2, <2>2, <2>3
  <1>4. j + 1 \in 1 .. n /\ at + (j + 1) = (at + j) + 1 /\ at + j \in 0 .. Len(o) - 1
    BY <1>1, <1>3 DEF IsFile
  <1>5. SectorAt(o, at + j) = FullBitmap[j + 1]
    BY <1>1, <1>4 DEF SectorAt, BitmapAt
  <1>6. FullBitmap[j + 1] =
          [tag |-> "bitmap",
           bits |-> {x \in 0 .. BitsPerSector - 1 : ((j + 1) - 1) * BitsPerSector + x < BlockSecs}]
    BY <1>1, <1>4 DEF FullBitmap
  <1>7. SectorAt(o, at + j).tag = "bitmap" /\ b \in SectorAt(o, at + j).bits
    <2>1. (j + 1) - 1 = j
      OBVIOUS
    <2> QED
      BY <1>1, <1>2, <1>5, <1>6, <2>1
  <1> DEFINE Bits(s) == IF s.tag = "bitmap" THEN s.bits ELSE 0 .. BitsPerSector - 1
             T(k) == {k * BitsPerSector + x : x \in Bits(SectorAt(o, at + k))}
  <1>8. BitsAt(o, at, BitmapSecs) = UNION {T(k) : k \in 0 .. BitmapSecs - 1}
    BY DEF BitsAt
  <1>9. r \in T(j)
    BY <1>1, <1>2, <1>7
  <1>10. j \in 0 .. BitmapSecs - 1
    BY <1>1, <1>3
  <1> HIDE DEF T
  <1> QED
    BY <1>8, <1>9, <1>10

\* What opening a complete file gives.
Flat(v, o, c) ==
    [ok |-> TRUE, kind |-> "dynamic", size |-> v.size, file |-> o,
     block |-> BlockSecs, bitmap |-> BitmapSecs, bat |-> c,
     bitmaps |-> [k \in DOMAIN c |-> IF c[k] = Hole THEN {} ELSE BitsAt(o, c[k], BitmapSecs)]]

\* A complete file opens, with the size of the input (DynamicVhd::open accepts
\* what write_dynamic_vhd wrote).
LEMMA ImageOpens ==
    ASSUME NEW v, v.size \in Nat, NEW o, NEW c, Holds(v, o, c)
    PROVE  OpenBacking("flat", "vhd", o, <<>>) = Flat(v, o, c)
  <1>1. PICK n \in Nat, start \in Nat, len \in Nat :
           n = NBlocks(v) /\ start = Start(v) /\ len = Len(o) /\ start >= 3 /\ len > start
    BY Counts DEF Holds, Image, Headed, IsFile
  <1>2. /\ SectorAt(o, 0) = Footer(v) /\ SectorAt(o, 1) = Header(v)
        /\ o[Len(o)] = Footer(v) /\ o # <<>>
    BY <1>1 DEF Holds, Image, Headed, SectorAt
  <1>3. n > 0 => SectorAt(o, TableSector) = BatSector(c)
    BY <1>1 DEF Holds, Image, Headed, SectorAt, TableSector
  <1>4. Trailing(o) = Footer(v)
    BY <1>2 DEF Trailing, SecBytes, Footer
  <1>5. c \in [1 .. n -> Numbers] /\ Len(c) = n
    BY <1>1 DEF Holds
  <1>6. ASSUME NEW k \in DOMAIN c
        PROVE  c[k] = Hole \/ c[k] + BitmapSecs <= Len(o)
    <2>1. SUFFICES ASSUME c[k] # Hole PROVE c[k] + BitmapSecs <= Len(o)
      OBVIOUS
    <2>2. Stored(v, o, k, c[k])
      BY <1>1, <1>5, <1>6, <2>1 DEF Holds
    <2>3. c[k] \in Nat /\ c[k] + Stride <= Len(o)
      BY <2>2 DEF Stored
    <2> QED
      BY <1>1, <2>3, Constants DEF Stride
  <1> DEFINE table == SectorAt(o, TableSector)
             Table == IF n = 0 THEN <<>> ELSE SubSeq(table.bat, 1, n)
  <1>7. n > 0 => table.tag = "bat" /\ table.bat = c
    BY <1>3 DEF BatSector
  <1>8. Table = c
    <2>1. CASE n = 0
      BY <1>5, <2>1
    <2>2. CASE n > 0
      <3>1. IsFile(c)
        BY <1>5 DEF IsFile
      <3>2. n \in 0 .. Len(c)
        BY <1>5
      <3>3. SubSeq(c, 1, n) = c
        BY <1>5, <3>1, <3>2, Prefix
      <3> QED
        BY <1>7, <2>2, <3>3
    <2> QED
      BY <2>1, <2>2
  <1>9. DynamicOpen(o) = Flat(v, o, c)
    <2> DEFINE foot == Trailing(o)
               hdr == SectorAt(o, foot.data)
    <2>1. /\ FooterOk(foot) /\ foot.type = "dynamic" /\ foot.size = v.size /\ foot.data = 1
          /\ hdr = Header(v)
      BY <1>2, <1>4 DEF FooterOk, Footer
    <2>2. /\ hdr.tag = "header" /\ hdr.table = TableSector /\ hdr.entries = n
          /\ hdr.block = BlockSecs
      BY <1>1, <2>1 DEF Header
    <2>3. /\ foot.data + 2 <= Len(o) /\ hdr.block # 0 /\ PowerOfTwo(hdr.block)
          /\ CeilDiv(hdr.block, BitsPerSector) = BitmapSecs
      BY <1>1, <2>1, <2>2, WriterAssumption DEF BitmapSecs
    <2>4. hdr.entries > 0 => table.tag = "bat" /\ hdr.entries <= Len(table.bat)
      BY <1>5, <1>7, <2>2
    <2>5. SectorAt(o, hdr.table) = table
      BY <2>2
    <2> HIDE DEF table, foot, hdr
    <2>6. (IF hdr.entries = 0 THEN <<>> ELSE SubSeq(table.bat, 1, hdr.entries)) = c
      BY <1>8, <2>2
    <2> QED
      BY <1>6, <2>1, <2>2, <2>3, <2>4, <2>5, <2>6 DEF DynamicOpen, Flat, foot, hdr
  <1>10. VhdOpen(o) = DynamicOpen(o) /\ VhdOpen(o).ok
    BY <1>4, <1>9 DEF VhdOpen, FooterOk, Footer, Flat
  <1>11. FindIncrements("flat", "vhd", <<>>) = <<>>
    <2>1. <<>> \in [1 .. 0 -> {}]
      OBVIOUS
    <2> QED
      BY <2>1, IncrementsAre
  <1>12. SectorAt(o, 0).tag # "vhdxident" /\ Trailing(o).tag = "footer"
    BY <1>2, <1>4 DEF Footer
  <1> QED
    BY <1>9, <1>10, <1>11, <1>12 DEF OpenBacking

\* The length of a complete file.
LEMMA ImageLength ==
    ASSUME NEW v, v.size \in Nat, NEW o, NEW c, Image(v, o, c)
    PROVE  FileLen(o) = SectorLen * Len(o) /\ FileLen(o) \in Nat
  <1>1. o # <<>> /\ o[Len(o)] = Footer(v) /\ Len(o) \in Nat
    <2>1. Len(<<>>) = 0
      OBVIOUS
    <2>2. Start(v) \in Nat /\ Len(o) \in Nat /\ Len(o) > Start(v)
      BY Counts DEF Image, Headed, IsFile
    <2> QED
      BY <2>1, <2>2 DEF Image
  <1>2. SecBytes(o[Len(o)]) = SectorLen
    BY <1>1 DEF SecBytes, Footer
  <1>3. FileLen(o) = SectorLen * (Len(o) - 1) + SectorLen
    BY <1>1, <1>2 DEF FileLen
  <1>4. PICK sl \in Nat, n \in Nat : sl = SectorLen /\ n = Len(o)
    BY <1>1, Constants
  <1>5. sl * (n - 1) + sl = sl * n
    BY SMT
  <1>6. sl * n \in Nat
    BY NatProduct
  <1> QED
    BY <1>3, <1>4, <1>5, <1>6

\* A slice of a sequence.
LEMMA Slice ==
    ASSUME NEW p, IsFile(p), NEW a \in Nat, NEW z \in Nat, a <= z, z <= Len(p),
           NEW n \in Nat, z = a + n
    PROVE  \A k \in 1 .. n : SubSeq(p, a + 1, z)[k] = p[a + k]
  <1>1. p \in Seq({p[k] : k \in 1 .. Len(p)}) /\ Len(p) \in Nat
    <2>1. p \in [1 .. Len(p) -> {p[k] : k \in 1 .. Len(p)}] /\ Len(p) \in Nat
      BY DEF IsFile
    <2> QED
      BY <2>1
  <1>2. PICK b \in Nat : b = a + 1
    OBVIOUS
  <1>3. ASSUME NEW k \in 1 .. n
        PROVE  SubSeq(p, b, z)[k] = p[a + k]
    <2>1. k \in 1 .. (z - b) + 1 /\ b + k - 1 = a + k
      BY <1>2
    <2>2. SubSeq(p, b, z)[k] = p[b + k - 1]
      BY <1>1, <1>2, <2>1
    <2> QED
      BY <2>1, <2>2
  <1> QED
    BY <1>2, <1>3

\* The place in a block of byte w of its sector r.
InBlock(r, w) == r * SectorLen + w

\* The bytes of a block in its data sectors.
LEMMA DataSector ==
    ASSUME NEW bytes, IsFile(bytes), Len(bytes) = BlockBytes,
           NEW r \in Nat, r < BlockSecs, NEW w \in Nat, w < SectorLen,
           NEW x \in Nat, x = InBlock(r, w)
    PROVE  LET s == BlockData(bytes)[r + 1]
           IN  s.tag = "data" /\ s.bytes[w + 1] = bytes[x + 1]
  <1>1. PICK sl \in Nat \ {0}, bs \in Nat \ {0}, bb \in Nat \ {0} :
            sl = SectorLen /\ bs = BlockSecs /\ bb = BlockBytes /\ bb = bs * sl
    BY Constants
  <1>2. PICK r1 \in Nat : r1 = r + 1 /\ r1 \in 1 .. bs /\ r1 <= bs /\ r1 - 1 = r
    BY <1>1
  <1>3. PICK y \in Nat, z \in Nat : y = r * sl /\ z = r1 * sl
    BY NatProduct
  <1>4. z = y + sl
    <2>1. (r + 1) * sl = r * sl + sl
      BY SMT
    <2> QED
      BY <1>2, <1>3, <2>1
  <1>5. z <= bb
    BY <1>1, <1>2, <1>3, ProductMonotone
  <1> DEFINE s == SubSeq(bytes, y + 1, z)
  <1>6. BlockData(bytes)[r1] = [tag |-> "data", bytes |-> s]
    BY <1>1, <1>2, <1>3 DEF BlockData
  <1>7. x = y + w
    BY <1>1, <1>3 DEF InBlock
  <1>8. s[w + 1] = bytes[x + 1]
    <2>2. \A k \in 1 .. sl : s[k] = bytes[y + k]
      <3>1. y <= z /\ z <= Len(bytes)
        BY <1>1, <1>4, <1>5
      <3> QED
        BY <1>4, <3>1, Slice
    <2> HIDE DEF s
    <2>3. PICK w1 \in 1 .. sl : w1 = w + 1
      BY <1>1
    <2>4. y + w1 = x + 1
      BY <1>7, <2>3
    <2> QED
      BY <2>2, <2>3, <2>4
  <1> HIDE DEF s
  <1> QED
    BY <1>2, <1>6, <1>8

\* What byte x of block b reads as: zero in a hole, else what the input has.
BlockByte(v, c, b, x) == IF c[b + 1] = Hole THEN 0 ELSE BlockRead(v, b).bytes[x + 1]

\* A complete file opened is a store that can be read.
LEMMA FlatOk ==
    ASSUME NEW v, StoreOk(v), NEW o, NEW c, Holds(v, o, c)
    PROVE  /\ PlainOk(Flat(v, o, c))
           /\ Len(c) = NBlocks(v) /\ c \in [1 .. NBlocks(v) -> Numbers]
  <1>1. v.size \in Nat
    BY DEF StoreOk, PlainOk, ChainOk
  <1>2. c \in [1 .. NBlocks(v) -> Numbers] /\ NBlocks(v) \in Nat
    BY <1>1, Counts DEF Holds
  <1>3. c \in Seq(Numbers) /\ Len(c) = NBlocks(v)
    BY <1>2
  <1>4. FileLen(o) \in Nat
    BY <1>1, ImageLength DEF Holds
  <1> QED
    BY <1>1, <1>2, <1>3, <1>4, Constants DEF PlainOk, Flat

\* A byte of a sector of the copy.
LEMMA SectorByte ==
    ASSUME NEW v, StoreOk(v), NEW o, NEW c, Holds(v, o, c),
           NEW b \in Nat, b < NBlocks(v),
           NEW r \in Nat, r < BlockSecs, NEW w \in Nat, w < SectorLen,
           NEW x \in Nat, x = InBlock(r, w),
           NEW s \in Nat, s \div BlockSecs = b, s % BlockSecs = r
    PROVE  UnitPart(o, SectorOffset(Flat(v, o, c), s), w, 1) = Ok(<<BlockByte(v, c, b, x)>>)
  <1> DEFINE flat == Flat(v, o, c)
             at == SectorOffset(flat, s)
  <1>1. v.size \in Nat /\ NBlocks(v) \in Nat
    BY Counts DEF StoreOk, PlainOk, ChainOk
  <1>2. Len(c) = NBlocks(v) /\ c \in [1 .. NBlocks(v) -> Numbers]
    BY FlatOk
  <1>3. PICK b1 \in 1 .. NBlocks(v) : b1 = b + 1 /\ b1 - 1 = b
    BY <1>1
  <1>4. /\ flat.block = BlockSecs /\ flat.bitmap = BitmapSecs /\ flat.bat = c
        /\ c[b1] # Hole => flat.bitmaps[b1] = BitsAt(o, c[b1], BitmapSecs)
    BY <1>2 DEF Flat
  <1>5. b < Len(c) /\ ~ (b >= Len(c))
    BY <1>1, <1>2
  <1>6. CASE c[b1] = Hole
    <2>1. at = Hole
      <3> HIDE DEF flat
      <3> QED
        BY <1>3, <1>4, <1>5, <1>6 DEF SectorOffset, BlockSectorOffset
    <2>2. [k \in 1 .. 1 |-> 0] = <<0>>
      OBVIOUS
    <2>3. UnitPart(o, Hole, w, 1) = Ok([k \in 1 .. 1 |-> 0])
      <3> Hole # Beyond
        BY DEF Hole, Beyond
      <3> QED
        BY DEF UnitPart
    <2> QED
      BY <1>3, <1>6, <2>1, <2>2, <2>3 DEF BlockByte
  <1>7. CASE c[b1] # Hole
    <2> DEFINE bytes == BlockRead(v, b).bytes
    <2>1. Stored(v, o, b1, c[b1])
      BY <1>7 DEF Holds
    <2>2. /\ BlockRead(v, b).ok /\ c[b1] \in Nat /\ c[b1] + Stride <= Len(o) /\ BitmapAt(o, c[b1])
          /\ \A k \in 1 .. BlockSecs : o[c[b1] + BitmapSecs + k] = BlockData(bytes)[k]
      BY <1>3, <2>1 DEF Stored
    <2>3. PICK e \in Nat, len \in Nat, m \in Nat, bs \in Nat, sl \in Nat \ {0} :
              /\ e = c[b1] /\ len = Len(o) /\ m = BitmapSecs /\ bs = BlockSecs
              /\ sl = SectorLen
      BY <2>2, Constants DEF Holds, Image, Headed, IsFile
    <2>4. e + (m + bs) <= len
      BY <2>2, <2>3 DEF Stride
    <2>5. PICK k0 \in Nat, k1 \in Nat, r1 \in 1 .. bs :
              k0 = e + m + r /\ k1 = k0 + 1 /\ r1 = r + 1 /\ k1 = e + m + r1
      <3>1. PICK r1 \in 1 .. bs : r1 = r + 1
        BY <2>3
      <3>2. PICK k0 \in Nat : k0 = e + m + r
        OBVIOUS
      <3>3. k0 + 1 \in Nat /\ k0 + 1 = e + m + r1
        BY <3>1, <3>2
      <3> QED
        BY <3>1, <3>2, <3>3
    <2>6. k1 <= len
      <3>1. r1 <= bs
        OBVIOUS
      <3> QED
        BY <2>4, <2>5, <3>1
    <2>7. PICK z \in Nat, l \in Nat, z1 \in Nat : z = sl * k0 /\ l = len * sl /\ z1 = k1 * sl
      BY NatProduct
    <2>8. z1 = z + sl /\ z = k0 * sl /\ l = sl * len
      <3>1. (k0 + 1) * sl = sl * k0 + sl /\ sl * k0 = k0 * sl /\ len * sl = sl * len
        BY SMT
      <3> QED
        BY <2>5, <2>7, <3>1
    <2>9. at = z
      <3>1. r \in BitsAt(o, e, BitmapSecs)
        <4>1. IsFile(o) /\ BitmapAt(o, e) /\ e + BitmapSecs <= Len(o)
          BY <2>2, <2>3, <2>4 DEF Holds, Image, Headed
        <4>2. r \in 0 .. BlockSecs - 1
          BY Constants
        <4> QED
          BY <4>1, <4>2, FullBits
      <3> HIDE DEF flat
      <3>2. BlockSectorOffset(flat, s) = SectorLen * (e + BitmapSecs + r)
        BY <1>3, <1>4, <1>5, <1>7, <2>3 DEF BlockSectorOffset
      <3>3. SectorOffset(flat, s) = BlockSectorOffset(flat, s)
        BY <1>3, <1>4, <2>3, <3>1 DEF SectorOffset
      <3> QED
        BY <2>3, <2>5, <2>7, <3>2, <3>3
    <2>10. PICK y \in Nat : y = z + w
      OBVIOUS
    <2>11. y \div sl = k0 /\ y % sl = w
      BY <2>3, <2>7, <2>8, <2>10, DivModUnique
    <2>12. y + 1 <= FileLen(o)
      <3>1. FileLen(o) = l
        BY <1>1, <2>3, <2>7, <2>8, ImageLength DEF Holds
      <3>2. z1 <= l
        BY <2>6, <2>7, ProductMonotone
      <3> QED
        BY <2>3, <2>8, <2>10, <3>1, <3>2
    <2>13. UnitPart(o, z, w, 1) = Ok(<<ByteAt(o, y)>>)
      <3>1. UnitPart(o, z, w, 1) = ReadExactAt(o, z + w, 1)
        BY DEF UnitPart, Hole, Beyond
      <3>2. [k \in 1 .. 1 |-> ByteAt(o, y + k - 1)] = <<ByteAt(o, y)>>
        <4>1. y + 1 - 1 = y
          OBVIOUS
        <4> QED
          BY <4>1
      <3>3. ReadExactAt(o, y, 1) = Ok([k \in 1 .. 1 |-> ByteAt(o, y + k - 1)])
        BY <2>12 DEF ReadExactAt
      <3> QED
        BY <2>10, <3>1, <3>2, <3>3
    <2>14. IsFile(bytes) /\ Len(bytes) = BlockBytes
      <3>1. b \in 0 .. NBlocks(v) - 1
        BY <1>1
      <3>2. bytes = [k \in 1 .. BlockBytes |->
                IF k <= Span(v, b) THEN ReadAt(v, b * BlockBytes + k - 1, 1).bytes[1] ELSE 0]
        BY <2>2, <3>1, BlockReadIs
      <3> HIDE DEF bytes
      <3>3. bytes = [k \in 1 .. BlockBytes |-> bytes[k]]
        BY <3>2
      <3> QED
        BY <3>3, Constants, MadeFile
    <2>15. o[k1] = BlockData(bytes)[r + 1]
      <3>1. o[c[b1] + BitmapSecs + r1] = BlockData(bytes)[r1]
        BY <2>2, <2>3
      <3> QED
        BY <2>3, <2>5, <3>1
    <2>16. ByteAt(o, y) = bytes[x + 1]
      <3> HIDE DEF bytes
      <3>1. o[k1].tag = "data" /\ o[k1].bytes[w + 1] = bytes[x + 1]
        BY <2>14, <2>15, DataSector
      <3>2. ByteAt(o, y) = o[k1].bytes[w + 1]
        BY <2>3, <2>5, <2>11, <3>1 DEF ByteAt
      <3> QED
        BY <3>1, <3>2
    <2> HIDE DEF at, flat
    <2> QED
      BY <1>3, <1>7, <2>9, <2>13, <2>16 DEF BlockByte, at, flat
  <1> QED
    BY <1>6, <1>7

\* A byte of the copy is zero in a hole, and else the input's byte at that
\* place.
LEMMA ImageByte ==
    ASSUME NEW v, StoreOk(v), NEW o, NEW c, Holds(v, o, c), NEW p \in Nat, p < v.size
    PROVE  /\ p \div BlockBytes \in 0 .. NBlocks(v) - 1
           /\ ReadAt(Flat(v, o, c), p, 1)
                = Ok(<<BlockByte(v, c, p \div BlockBytes, p % BlockBytes)>>)
  <1> DEFINE flat == Flat(v, o, c)
             locate == [s \in 0 .. v.size |-> SectorOffset(flat, s)]
  <1>1. v.size \in Nat /\ NBlocks(v) \in Nat /\ v.size <= NBlocks(v) * BlockBytes
    BY Counts DEF StoreOk, PlainOk, ChainOk
  <1>2. PICK sl \in Nat \ {0}, bs \in Nat \ {0}, bb \in Nat \ {0} :
            sl = SectorLen /\ bs = BlockSecs /\ bb = BlockBytes
    BY Constants
  <1>3. PICK s \in Nat, w \in Nat :
            s = p \div SectorLen /\ w = p % SectorLen /\ w < sl /\ s <= p
    BY <1>2, DivMod
  <1>4. PICK b \in Nat, x \in Nat :
            b = p \div BlockBytes /\ x = p % BlockBytes /\ x < bb /\ p = b * bb + x
    BY <1>2, DivMod
  <1>5. s \div BlockSecs = b /\ x = InBlock(s % BlockSecs, w)
    BY <1>3, <1>4, NestedUnits DEF InBlock
  <1>6. PICK r \in Nat : r = s % BlockSecs /\ r < bs
    BY <1>2, DivMod
  <1>7. x = InBlock(r, w)
    BY <1>5, <1>6
  <1>8. b < NBlocks(v)
    <2>1. SUFFICES ASSUME NBlocks(v) <= b PROVE FALSE
      BY <1>1
    <2>2. PICK y \in Nat, z \in Nat : y = NBlocks(v) * bb /\ z = b * bb
      BY <1>1, NatProduct
    <2>3. y <= z
      BY <1>1, <2>1, <2>2, ProductMonotone
    <2> QED
      BY <1>1, <1>2, <1>4, <2>2, <2>3
  <1>9. UnitPart(o, SectorOffset(flat, s), w, 1) = Ok(<<BlockByte(v, c, b, x)>>)
    BY <1>2, <1>3, <1>5, <1>6, <1>7, <1>8, SectorByte
  <1>10. ReadAt(flat, p, 1) = UnitPart(o, SectorOffset(flat, s), w, 1)
    <2>1. PlainOk(flat) /\ flat.kind = "dynamic"
      BY FlatOk DEF Flat
    <2>2. Located(locate, v.size)
      <3> HIDE DEF flat
      <3> QED
        BY <1>1, <2>1, OffsetTypes DEF Located
    <2>3. ReadAt(flat, p, 1) = ReadUnits(o, p, 1, v.size, SectorLen, locate)
      BY DEF ReadAt, PlainReadAt, DynamicReadAt, Flat
    <2>4. FileLen(o) \in Nat
      BY <1>1, ImageLength DEF Holds
    <2>5. locate[s] = SectorOffset(flat, s)
      BY <1>1, <1>3
    <2> HIDE DEF locate
    <2>6. ReadUnits(o, p, 1, v.size, SectorLen, locate)
            = UnitPart(o, locate[p \div SectorLen], p % SectorLen, 1)
      BY <1>1, <1>2, <2>2, <2>4, UnitsByte
    <2> QED
      BY <1>3, <2>3, <2>5, <2>6
  <1>11. b \in 0 .. NBlocks(v) - 1
    BY <1>1, <1>8
  <1> QED
    BY <1>4, <1>9, <1>10, <1>11

-----------------------------------------------------------------------------
(* Reads of the copy and of the input agree *)

\* The first n blocks of the input are stored where b says, or are zero where b
\* has a hole.
Blocks(v, o, b, n) ==
    \A e \in 1 .. n : IF b[e] = Hole THEN Zeros(v, e) ELSE Stored(v, o, e, b[e])

\* Two rows of single reads succeed with the same bytes.
Agree(one, two, n) ==
    \A k \in 0 .. n - 1 : one[k].ok /\ two[k].ok /\ one[k].bytes[1] = two[k].bytes[1]

\* Rows of single reads that agree are the same range.
LEMMA PartAgrees ==
    ASSUME NEW n \in Nat, NEW one, NEW two, Agree(one, two, n)
    PROVE  Part(one, 0, n) = Part(two, 0, n) /\ Part(one, 0, n).ok
  <1> DEFINE f == [j \in 1 .. n |-> one[0 + j - 1].bytes[1]]
             g == [j \in 1 .. n |-> two[0 + j - 1].bytes[1]]
  <1>1. ASSUME NEW j \in 1 .. n
        PROVE  one[0 + j - 1].bytes[1] = two[0 + j - 1].bytes[1]
    <2>1. PICK k \in 0 .. n - 1 : k = 0 + j - 1
      OBVIOUS
    <2> QED
      BY <2>1 DEF Agree
  <1>2. f = g
    BY <1>1
  <1>3. \A k \in 0 .. 0 + n - 1 : one[k].ok /\ two[k].ok
    BY DEF Agree
  <1>4. Part(one, 0, n) = Ok(f) /\ Part(two, 0, n) = Ok(g)
    BY <1>3 DEF Part
  <1>5. Ok(f).ok
    BY DEF Ok
  <1> HIDE DEF f, g
  <1> QED
    BY <1>2, <1>4, <1>5

\* A result of one byte.
LEMMA OneByte ==
    ASSUME NEW y
    PROVE  Ok(<<y>>).ok /\ Ok(<<y>>).bytes[1] = y
  <1>1. <<y>>[1] = y
    OBVIOUS
  <1> QED
    BY <1>1 DEF Ok

\* The bytes of a block that was read are those of the disk.
LEMMA BlockBytesAre ==
    ASSUME NEW v, StoreOk(v), NEW b \in Nat, b < NBlocks(v), BlockRead(v, b).ok,
           NEW off \in Nat, off = b * BlockBytes,
           NEW x \in Nat, x < BlockBytes, NEW p \in Nat, p = off + x, p < v.size
    PROVE  /\ ReadAt(v, p, 1).ok
           /\ BlockRead(v, b).bytes[x + 1] = ReadAt(v, p, 1).bytes[1]
  <1>1. v.size \in Nat /\ NBlocks(v) \in Nat /\ BlockBytes \in Nat
    BY Counts, Constants DEF StoreOk, PlainOk, ChainOk
  <1>2. b \in 0 .. NBlocks(v) - 1
    BY <1>1
  <1>3. PICK n \in Nat : n = Span(v, b) /\ x < n
    <2>1. Span(v, b) \in 1 .. BlockBytes
      BY <1>1, <1>2, SpanFacts
    <2>2. \A k \in Nat : k < BlockBytes /\ off + k < v.size => k < Span(v, b)
      BY <1>1, <1>2, SpanFacts
    <2> QED
      BY <1>1, <2>1, <2>2
  <1>4. \A k \in 0 .. n - 1 : ReadAt(v, off + k, 1).ok
    BY <1>2, <1>3, BlockReadIs
  <1>5. BlockRead(v, b).bytes =
          [k \in 1 .. BlockBytes |-> IF k <= n THEN ReadAt(v, off + k - 1, 1).bytes[1] ELSE 0]
    BY <1>2, <1>3, BlockReadIs
  <1>6. ReadAt(v, p, 1).ok
    <2>1. x \in 0 .. n - 1
      BY <1>3
    <2> QED
      BY <1>4, <2>1
  <1>7. PICK k \in 1 .. BlockBytes : k = x + 1 /\ k <= n /\ off + k - 1 = p
    BY <1>1, <1>3
  <1> QED
    BY <1>5, <1>6, <1>7

\* A complete file that stores every block reads as the input does.
LEMMA CopyExact ==
    ASSUME NEW v, StoreOk(v), NEW o, NEW c, c \in [1 .. NBlocks(v) -> Numbers],
           Image(v, o, c), Blocks(v, o, c, NBlocks(v))
    PROVE  LET flat == OpenBacking("flat", "vhd", o, <<>>)
           IN  /\ flat.ok /\ flat.kind = "dynamic"
               /\ flat.size = v.size
               /\ ReadAt(flat, 0, v.size) = ReadAt(v, 0, v.size)
               /\ ReadAt(v, 0, v.size).ok
  <1>1. v.size \in Nat /\ NBlocks(v) \in Nat
    BY Counts DEF StoreOk, PlainOk, ChainOk
  <1>2. Holds(v, o, c)
    BY DEF Holds, Blocks
  <1> DEFINE flat == Flat(v, o, c)
  <1>3. OpenBacking("flat", "vhd", o, <<>>) = flat
    BY <1>1, <1>2, ImageOpens
  <1>4. flat.ok /\ flat.kind = "dynamic" /\ flat.size = v.size
    BY DEF Flat
  <1>5. StoreOk(flat)
    BY <1>2, FlatOk DEF StoreOk
  <1>6. ASSUME NEW p \in Nat, p < v.size
        PROVE  /\ ReadAt(flat, p, 1).ok /\ ReadAt(v, p, 1).ok
               /\ ReadAt(v, p, 1).bytes[1] = ReadAt(flat, p, 1).bytes[1]
    <2>0. PICK bb \in Nat \ {0} : bb = BlockBytes
      BY Constants
    <2>1. PICK b \in Nat, x \in Nat :
             b = p \div BlockBytes /\ x = p % BlockBytes /\ x < BlockBytes
      BY <2>0, DivMod
    <2>2. /\ b \in 0 .. NBlocks(v) - 1
          /\ ReadAt(flat, p, 1) = Ok(<<BlockByte(v, c, b, x)>>)
      BY <1>2, <1>6, <2>1, ImageByte
    <2>3. PICK e \in 1 .. NBlocks(v) : e = b + 1 /\ e - 1 = b /\ b < NBlocks(v)
      BY <1>1, <2>2
    <2>4. IF c[e] = Hole THEN Zeros(v, e) ELSE Stored(v, o, e, c[e])
      BY DEF Blocks
    <2>5. BlockRead(v, b).ok
      BY <2>3, <2>4 DEF Zeros, Stored
    <2>6. PICK off \in Nat : off = b * BlockBytes /\ p = off + x
      <3>1. PICK off \in Nat : off = b * bb
        BY NatProduct
      <3>2. p = b * bb + x
        BY <2>0, <2>1, DivMod
      <3> QED
        BY <2>0, <3>1, <3>2
    <2>7. ReadAt(v, p, 1).ok /\ BlockRead(v, b).bytes[x + 1] = ReadAt(v, p, 1).bytes[1]
      BY <1>6, <2>1, <2>3, <2>5, <2>6, BlockBytesAre
    <2>8. BlockByte(v, c, b, x) = BlockRead(v, b).bytes[x + 1]
      <3>1. CASE c[e] # Hole
        BY <2>3, <3>1 DEF BlockByte
      <3>2. CASE c[e] = Hole
        <4>1. AllZero(BlockRead(v, b).bytes)
          BY <2>3, <2>4, <3>2 DEF Zeros
        <4>2. x + 1 \in DOMAIN BlockRead(v, b).bytes
          <5>1. BlockRead(v, b).bytes =
                  [k \in 1 .. BlockBytes |->
                     IF k <= Span(v, b) THEN ReadAt(v, b * BlockBytes + k - 1, 1).bytes[1] ELSE 0]
            BY <2>2, <2>5, BlockReadIs
          <5>2. x + 1 \in 1 .. BlockBytes
            BY <2>1, Constants
          <5> QED
            BY <5>1, <5>2
        <4> QED
          BY <2>3, <3>2, <4>1, <4>2 DEF BlockByte, AllZero
      <3> QED
        BY <3>1, <3>2
    <2> HIDE DEF flat
    <2>9. ReadAt(flat, p, 1).ok /\ ReadAt(flat, p, 1).bytes[1] = BlockByte(v, c, b, x)
      BY <2>2, OneByte
    <2> QED
      BY <2>7, <2>8, <2>9
  <1>7. Agree(StoreBytes(v, 0, v.size), StoreBytes(flat, 0, v.size), v.size)
    <2> HIDE DEF flat
    <2>1. ASSUME NEW k \in 0 .. v.size - 1
          PROVE  /\ StoreBytes(v, 0, v.size)[k] = ReadAt(v, k, 1)
                 /\ StoreBytes(flat, 0, v.size)[k] = ReadAt(flat, k, 1)
                 /\ k \in Nat /\ k < v.size
      <3>1. 0 + k = k /\ k \in Nat /\ k < v.size
        BY <1>1
      <3> QED
        BY <3>1 DEF StoreBytes
    <2> QED
      BY <1>6, <2>1 DEF Agree
  <1>8. ReadAt(v, 0, v.size) = Part(StoreBytes(v, 0, v.size), 0, v.size)
    BY <1>1, ReadsSplit
  <1>9. ReadAt(flat, 0, v.size) = Part(StoreBytes(flat, 0, v.size), 0, v.size)
    <2> HIDE DEF flat
    <2> QED
      BY <1>1, <1>4, <1>5, ReadsSplit
  <1>10. /\ Part(StoreBytes(v, 0, v.size), 0, v.size) = Part(StoreBytes(flat, 0, v.size), 0, v.size)
         /\ Part(StoreBytes(v, 0, v.size), 0, v.size).ok
    BY <1>1, <1>7, PartAgrees
  <1> HIDE DEF flat
  <1> QED
    BY <1>3, <1>4, <1>8, <1>9, <1>10

\* A block of a complete file is zero, or the input's block.
LEMMA CopyBlock ==
    ASSUME NEW v, StoreOk(v), NEW o, NEW c, Holds(v, o, c), NEW b \in 0 .. NBlocks(v) - 1
    PROVE  LET flat == Flat(v, o, c)
               off == b * BlockBytes
               n == Span(v, b)
           IN  AllZero(ReadAt(flat, off, n).bytes) \/ ReadAt(flat, off, n) = ReadAt(v, off, n)
  <1>1. v.size \in Nat /\ NBlocks(v) \in Nat
    BY Counts DEF StoreOk, PlainOk, ChainOk
  <1>2. b \in Nat /\ b < NBlocks(v)
    BY <1>1
  <1>3. PICK bb \in Nat \ {0}, off \in Nat, n \in Nat :
           /\ bb = BlockBytes /\ off = b * BlockBytes /\ n = Span(v, b) /\ n <= bb
           /\ off + n <= v.size
    <2>1. PICK bb \in Nat \ {0} : bb = BlockBytes
      BY Constants
    <2>2. PICK off \in Nat : off = b * BlockBytes
      BY <1>2, <2>1, NatProduct
    <2>3. PICK n : n = Span(v, b)
      OBVIOUS
    <2>4. n \in 1 .. bb /\ off + n <= v.size
      BY <1>1, <2>1, <2>2, <2>3, SpanFacts
    <2>5. n \in Nat /\ n <= bb
      BY <2>4
    <2> QED
      BY <2>1, <2>2, <2>3, <2>4, <2>5
  <1> DEFINE flat == Flat(v, o, c)
             one == StoreBytes(flat, off, n)
             two == StoreBytes(v, off, n)
  <1>4. flat.size = v.size /\ StoreOk(flat)
    BY FlatOk DEF StoreOk, Flat
  <1>5. ReadAt(flat, off, n) = Part(one, 0, n) /\ ReadAt(v, off, n) = Part(two, 0, n)
    <2> HIDE DEF flat
    <2> QED
      BY <1>3, <1>4, ReadsSplit
  <1>6. ASSUME NEW k \in 0 .. n - 1
        PROVE  /\ one[k] = Ok(<<BlockByte(v, c, b, k)>>)
               /\ two[k] = ReadAt(v, off + k, 1)
               /\ k \in Nat /\ k < bb /\ off + k \in Nat /\ off + k < v.size
    <2>1. k \in Nat /\ k < bb /\ off + k \in Nat /\ off + k < v.size
      BY <1>1, <1>3
    <2>2. PICK p \in Nat : p = off + k /\ p < v.size
      BY <2>1
    <2>3. p \div BlockBytes = b /\ p % BlockBytes = k
      <3>1. p = b * bb + k
        BY <1>3, <2>2
      <3> QED
        BY <1>2, <1>3, <2>1, <3>1, DivModUnique
    <2>4. ReadAt(flat, p, 1) = Ok(<<BlockByte(v, c, b, k)>>)
      BY <2>2, <2>3, ImageByte
    <2>5. one[k] = ReadAt(flat, p, 1)
      <3> HIDE DEF flat
      <3> QED
        BY <2>2 DEF StoreBytes
    <2>6. two[k] = ReadAt(v, p, 1)
      BY <2>2 DEF StoreBytes
    <2> HIDE DEF flat, one, two
    <2> QED
      BY <2>1, <2>2, <2>4, <2>5, <2>6
  <1>7. CASE c[b + 1] = Hole
    <2>1. ASSUME NEW k \in 0 .. n - 1 PROVE one[k].ok /\ one[k].bytes[1] = 0
      <3> HIDE DEF one
      <3>1. BlockByte(v, c, b, k) = 0
        BY <1>7 DEF BlockByte
      <3>2. one[k] = Ok(<<0>>)
        BY <1>6, <3>1
      <3> QED
        BY <3>2, OneByte
    <2> DEFINE f == [j \in 1 .. n |-> one[0 + j - 1].bytes[1]]
    <2> HIDE DEF one
    <2>2. Part(one, 0, n) = Ok(f)
      BY <2>1 DEF Part
    <2>3. \A j \in 1 .. n : f[j] = 0
      <3> TAKE j \in 1 .. n
      <3>1. 0 + j - 1 \in 0 .. n - 1
        OBVIOUS
      <3> QED
        BY <2>1, <3>1
    <2>4. DOMAIN f = 1 .. n
      OBVIOUS
    <2> HIDE DEF f, flat
    <2>5. AllZero(ReadAt(flat, off, n).bytes)
      BY <1>5, <2>2, <2>3, <2>4 DEF AllZero, Ok
    <2> QED
      BY <1>3, <2>5 DEF flat
  <1>8. CASE c[b + 1] # Hole
    <2>1. PICK e \in 1 .. NBlocks(v) : e = b + 1 /\ e - 1 = b
      BY <1>1
    <2>2. BlockRead(v, b).ok
      BY <1>8, <2>1 DEF Holds, Stored
    <2>3. ASSUME NEW k \in 0 .. n - 1
          PROVE  one[k].ok /\ two[k].ok /\ one[k].bytes[1] = two[k].bytes[1]
      <3>1. PICK p \in Nat : p = off + k /\ p < v.size
        BY <1>6
      <3>2. ReadAt(v, p, 1).ok /\ BlockRead(v, b).bytes[k + 1] = ReadAt(v, p, 1).bytes[1]
        BY <1>2, <1>3, <1>6, <2>2, <3>1, BlockBytesAre
      <3>3. BlockByte(v, c, b, k) = BlockRead(v, b).bytes[k + 1]
        BY <1>8 DEF BlockByte
      <3> HIDE DEF one, two
      <3>4. one[k] = Ok(<<BlockByte(v, c, b, k)>>) /\ two[k] = ReadAt(v, p, 1)
        BY <1>6, <3>1
      <3>5. one[k].ok /\ one[k].bytes[1] = BlockByte(v, c, b, k)
        BY <3>4, OneByte
      <3> QED
        BY <3>2, <3>3, <3>4, <3>5
    <2>4. Part(one, 0, n) = Part(two, 0, n)
      <3> HIDE DEF one, two
      <3> QED
        BY <2>3, PartAgrees DEF Agree
    <2> HIDE DEF one, two, flat
    <2> QED
      BY <1>3, <1>5, <2>4 DEF flat
  <1> QED
    BY <1>7, <1>8

-----------------------------------------------------------------------------
(* Files a run may leave behind *)

\* The reserved BAT.
AllHoles(v) == [e \in 1 .. NBlocks(v) |-> Hole]

\* A sequence of sectors without a footer.
NoFooters(p) == IsFile(p) /\ \A k \in 1 .. Len(p) : p[k].tag # "footer"

\* What a run leaves behind that did not write the footer: no file, an empty
\* one, or one with its footer at the beginning only.
Draft(v, o) ==
    \/ o \in {Missing, <<>>}
    \/ IsFile(o) /\ Len(o) > 0 /\ o[1] = Footer(v) /\ NoFooter(o)

\* What a run leaves behind that was interrupted: a draft, or a complete file
\* with some of the BAT.
Left(v, o, b) ==
    \/ Draft(v, o)
    \/ /\ b \in [1 .. NBlocks(v) -> Numbers]
       /\ Blocks(v, o, b, NBlocks(v))
       /\ \E n \in 0 .. NBlocks(v) : Image(v, o, Entries(v, b, n))

\* A draft does not open as a dynamic VHD, there being no footer at its end.
LEMMA DraftOpens ==
    ASSUME NEW v, NEW o, Draft(v, o), o # Missing
    PROVE  OpenBacking("flat", "vhd", o, <<>>).kind # "dynamic"
  <1>1. CASE o = <<>>
    <2>1. SectorAt(o, 0) = Eof /\ Trailing(o) = Eof
      BY <1>1 DEF SectorAt, Trailing
    <2> QED
      BY <2>1 DEF OpenBacking, RawOpen, Eof
  <1>2. CASE IsFile(o) /\ Len(o) > 0 /\ o[1] = Footer(v) /\ NoFooter(o)
    <2>1. SectorAt(o, 0) = Footer(v) /\ Len(o) \in Nat
      BY <1>2 DEF SectorAt, IsFile
    <2>2. CASE Len(o) = 1
      <3>1. Trailing(o) \in {Footer(v), Eof}
        BY <1>2, <2>2 DEF Trailing
      <3>3. CASE Trailing(o) = Footer(v)
        <4>1. FooterOk(Footer(v)) /\ Footer(v).type = "dynamic" /\ Footer(v).data = 1
              /\ Footer(v).tag = "footer"
          BY DEF FooterOk, Footer
        <4>2. DynamicOpen(o) = NoStore
          BY <2>2, <3>3, <4>1 DEF DynamicOpen
        <4>3. VhdOpen(o) = NoStore
          BY <3>3, <4>1, <4>2 DEF VhdOpen
        <4>4. OpenBacking("flat", "vhd", o, <<>>) = NoStore
          BY <2>1, <3>3, <4>1, <4>3 DEF OpenBacking, NoStore
        <4> QED
          BY <4>4 DEF NoStore
      <3>4. CASE Trailing(o) = Eof
        BY <2>1, <3>4 DEF OpenBacking, RawOpen, Eof, Footer
      <3> QED
        BY <3>1, <3>3, <3>4
    <2>3. CASE Len(o) # 1
      <3>1. Len(o) \in 2 .. Len(o)
        <4>1. PICK n : n = Len(o) /\ n \in Nat /\ n > 0 /\ n # 1
          BY <1>2, <2>1, <2>3
        <4>2. n \in 2 .. n
          BY <4>1
        <4> QED
          BY <4>1, <4>2
      <3>2. Trailing(o).tag # "footer"
        BY <1>2, <3>1 DEF Trailing, Eof, NoFooter
      <3>3. SectorAt(o, 0).tag # "vhdxident"
        BY <2>1 DEF Footer
      <3>4. OpenBacking("flat", "vhd", o, <<>>) = RawOpen(o)
        BY <3>2, <3>3 DEF OpenBacking
      <3> QED
        BY <3>4 DEF RawOpen
    <2> QED
      BY <2>2, <2>3
  <1> QED
    BY <1>1, <1>2 DEF Draft

\* A draft with sectors that are no footer after it is a draft.
LEMMA DraftGrows ==
    ASSUME NEW v, NEW o, IsFile(o), Len(o) > 0, o[1] = Footer(v), NoFooter(o),
           NEW p, NoFooters(p)
    PROVE  IsFile(o \o p) /\ Draft(v, o \o p) /\ NoFooter(o \o p)
  <1> DEFINE q == o \o p
  <1>1. /\ IsFile(q) /\ Len(q) = Len(o) + Len(p)
        /\ \A k \in 1 .. Len(o) : q[k] = o[k]
        /\ \A k \in 1 .. Len(p) : q[Len(o) + k] = p[k]
    <2>1. Joined(o, p, q)
      BY Appended DEF NoFooters
    <2> HIDE DEF q
    <2> QED
      BY <2>1 DEF Joined, Extended
  <1> HIDE DEF q
  <1>2. PICK n \in Nat, m \in Nat : n = Len(o) /\ m = Len(p)
    BY DEF NoFooters, IsFile
  <1>3. ASSUME NEW k \in 2 .. n + m
        PROVE  q[k].tag # "footer"
    <2>1. CASE k <= n
      BY <1>1, <1>2, <2>1 DEF NoFooter
    <2>2. CASE ~ (k <= n)
      <3>1. PICK j \in 1 .. m : k = n + j
        <4>1. k - n \in 1 .. m /\ k = n + (k - n)
          BY <2>2
        <4> QED
          BY <4>1
      <3> QED
        BY <1>1, <1>2, <3>1 DEF NoFooters
    <2> QED
      BY <2>1, <2>2
  <1>4. q[1] = Footer(v) /\ Len(q) > 0
    BY <1>1, <1>2
  <1>5. NoFooter(q)
    BY <1>1, <1>2, <1>3 DEF NoFooter
  <1> QED
    BY <1>1, <1>4, <1>5 DEF Draft, q

\* What is appended leaves the head as it is.
LEMMA HeadKept ==
    ASSUME NEW v, v.size \in Nat, NEW o, NEW p, Extended(o, p), NEW c, Headed(v, o, c)
    PROVE  Headed(v, p, c)
  <1>1. PICK n \in Nat, m \in Nat, s \in Nat, N \in Nat :
           /\ n = Len(o) /\ m = Len(p) /\ s = Start(v) /\ N = NBlocks(v)
           /\ s <= n /\ n <= m /\ s >= 3 /\ (N > 0 => s >= 4)
    BY Counts DEF Extended, IsFile, Headed
  <1>2. 1 \in 1 .. n /\ 2 \in 1 .. n /\ 3 \in 1 .. n /\ (N > 0 => TableSector + 1 \in 1 .. n)
    BY <1>1 DEF TableSector
  <1>3. p[1] = o[1] /\ p[2] = o[2] /\ p[3] = o[3]
        /\ (N > 0 => p[TableSector + 1] = o[TableSector + 1])
    BY <1>1, <1>2 DEF Extended
  <1>4. IsFile(p) /\ Len(p) >= Start(v)
    BY <1>1 DEF Extended
  <1> QED
    BY <1>1, <1>3, <1>4 DEF Headed

\* Behind the BAT, p begins with what o has.
SameFrom(v, o, p) ==
    /\ IsFile(p) /\ Len(o) <= Len(p)
    /\ \A k \in 1 .. Len(o) : k > Start(v) => p[k] = o[k]

\* A stored block stays stored as long as nothing behind the BAT is changed.
LEMMA StoredKept ==
    ASSUME NEW v, v.size \in Nat, NEW o, IsFile(o), NEW p, SameFrom(v, o, p),
           NEW e, NEW at, Stored(v, o, e, at)
    PROVE  Stored(v, p, e, at)
  <1>1. PICK n \in Nat, m \in Nat, s \in Nat, bm \in Nat, bs \in Nat :
           /\ n = Len(o) /\ m = Len(p) /\ s = Start(v) /\ bm = BitmapSecs /\ bs = BlockSecs
           /\ n <= m
    BY Counts, Constants DEF SameFrom, IsFile
  <1>2. at \in Nat /\ s <= at /\ at + (bm + bs) <= n
    BY <1>1 DEF Stored, Stride
  <1>3. ASSUME NEW k \in 1 .. bm
        PROVE  p[at + k] = FullBitmap[k]
    <2>1. PICK j \in 1 .. n : j = at + k /\ j > s
      BY <1>2
    <2> QED
      BY <1>1, <2>1 DEF Stored, BitmapAt, SameFrom
  <1>4. ASSUME NEW k \in 1 .. bs
        PROVE  p[at + BitmapSecs + k] = BlockData(BlockRead(v, e - 1).bytes)[k]
    <2>1. PICK j \in 1 .. n : j = at + bm + k /\ j > s
      BY <1>2
    <2>2. p[j] = o[j]
      BY <1>1, <2>1 DEF SameFrom
    <2>3. o[at + BitmapSecs + k] = BlockData(BlockRead(v, e - 1).bytes)[k]
      BY <1>1 DEF Stored
    <2> QED
      BY <1>1, <2>1, <2>2, <2>3
  <1>5. at + Stride <= Len(p)
    BY <1>1, <1>2 DEF Stride
  <1> QED
    BY <1>1, <1>2, <1>3, <1>4, <1>5 DEF Stored, BitmapAt

\* So do all of them.
LEMMA BlocksKept ==
    ASSUME NEW v, v.size \in Nat, NEW o, IsFile(o), NEW p, SameFrom(v, o, p),
           NEW b, NEW n, Blocks(v, o, b, n)
    PROVE  Blocks(v, p, b, n)
  <1> SUFFICES ASSUME NEW e \in 1 .. n
               PROVE  IF b[e] = Hole THEN Zeros(v, e) ELSE Stored(v, p, e, b[e])
    BY DEF Blocks
  <1>1. IF b[e] = Hole THEN Zeros(v, e) ELSE Stored(v, o, e, b[e])
    BY DEF Blocks
  <1> QED
    BY <1>1, StoredKept

\* Appending changes nothing that is there.
LEMMA ExtendedSame ==
    ASSUME NEW v, NEW o, NEW p, Extended(o, p)
    PROVE  SameFrom(v, o, p)
  BY DEF Extended, SameFrom

\* Writing over the BAT's sector gives a complete file with the new BAT, and
\* changes nothing behind it.
LEMMA Backfills ==
    ASSUME NEW v, v.size \in Nat, NBlocks(v) > 0, NEW o, NEW c, Image(v, o, c), NEW d,
           NEW p, p = [o EXCEPT ![TableSector + 1] = BatSector(d)]
    PROVE  Image(v, p, d) /\ SameFrom(v, o, p)
  <1>1. PICK n \in Nat, s \in Nat : n = Len(o) /\ s = Start(v) /\ s >= 4 /\ n > s
    BY Counts DEF Image, Headed, IsFile
  <1>2. o = [k \in 1 .. n |-> o[k]]
    BY <1>1 DEF Image, Headed, IsFile
  <1>3. TableSector + 1 = 4
    BY DEF TableSector
  <1>4. p = [k \in 1 .. n |-> IF k = 4 THEN BatSector(d) ELSE o[k]]
    BY <1>1, <1>2, <1>3
  <1>5. p = [k \in 1 .. n |-> p[k]]
    BY <1>4
  <1>6. IsFile(p) /\ Len(p) = n
    BY <1>5, MadeFile
  <1>7. p[4] = BatSector(d) /\ \A k \in 1 .. n : k # 4 => p[k] = o[k]
    BY <1>1, <1>4
  <1>8. Image(v, p, d)
    <2>1. p[1] = o[1] /\ p[2] = o[2] /\ p[3] = o[3] /\ p[n] = o[n]
      BY <1>1, <1>7
    <2> QED
      BY <1>1, <1>3, <1>6, <1>7, <2>1 DEF Image, Headed
  <1>9. SameFrom(v, o, p)
    BY <1>1, <1>6, <1>7 DEF SameFrom
  <1> QED
    BY <1>8, <1>9

-----------------------------------------------------------------------------
(* Sector numbers do not wrap *)

\* Sector x is in the part of the file that j blocks can have reached.
Fresh(v, j, x) == x \in Nat /\ Start(v) <= x /\ x <= Start(v) + j * Stride

\* The first block's sector does not wrap.
LEMMA FreshStart ==
    ASSUME NEW v, v.size \in Nat, Fits(v)
    PROVE  /\ Fresh(v, 0, Start(v))
           /\ (TableSector + BatSecs(v)) % BatMod = Start(v)
  <1>1. Start(v) \in Nat /\ NBlocks(v) \in Nat /\ Stride \in Nat /\ BatMod \in Nat \ {0}
    BY Counts, Constants, BatModAssumption
  <1>2. PICK x \in Nat : x = NBlocks(v) * Stride
    BY <1>1, NatProduct
  <1>3. Start(v) < BatMod
    BY <1>1, <1>2 DEF Fits, Start, Stride
  <1>4. 0 * Stride = 0
    BY <1>1
  <1>5. PICK s \in Nat, m \in Nat \ {0} : s = Start(v) /\ m = BatMod /\ s < m
    BY <1>1, <1>3
  <1>6. s % m = s
    BY <1>5
  <1> QED
    BY <1>1, <1>4, <1>5, <1>6 DEF Fresh, Start

\* Nor does the sector after a block, and it is not the number that marks a
\* hole.
LEMMA FreshNext ==
    ASSUME NEW v, v.size \in Nat, Fits(v), NEW j \in Nat, j < NBlocks(v),
           NEW x, Fresh(v, j, x), NEW j1 \in Nat, j1 = j + 1
    PROVE  /\ x # BatMod - 1
           /\ (x + BitmapSecs + BlockSecs) % BatMod = x + Stride
           /\ Fresh(v, j1, x + Stride) /\ Fresh(v, j1, x)
  <1>1. PICK N \in Nat, s \in Nat, st \in Nat, m \in Nat \ {0}, bm \in Nat \ {0}, bs \in Nat \ {0} :
           /\ N = NBlocks(v) /\ s = Start(v) /\ st = Stride /\ m = BatMod
           /\ bm = BitmapSecs /\ bs = BlockSecs /\ st = bm + bs
    BY Counts, Constants, BatModAssumption DEF Stride
  <1>2. PICK a \in Nat, b \in Nat, c \in Nat : a = j * st /\ b = j1 * st /\ c = N * st
    BY <1>1, NatProduct
  <1>3. b = a + st
    <2>1. (j + 1) * st = j * st + st
      BY SMT
    <2> QED
      BY <1>2, <2>1
  <1>4. b <= c
    BY <1>1, <1>2, ProductMonotone
  <1>5. x \in Nat /\ s <= x /\ x <= s + a
    BY <1>1, <1>2 DEF Fresh
  <1>6. s + c < m
    BY <1>1, <1>2 DEF Fits, Start, Stride
  <1>7. PICK y \in Nat : y = x + st /\ y = x + bm + bs /\ y < m /\ y <= s + b /\ s <= y
    BY <1>1, <1>3, <1>4, <1>5, <1>6
  <1>8. y % m = y
    BY <1>7
  <1>9. x # m - 1
    BY <1>1, <1>7
  <1>10. x <= s + b
    BY <1>3, <1>5
  <1> QED
    BY <1>1, <1>2, <1>5, <1>7, <1>8, <1>9, <1>10 DEF Fresh

-----------------------------------------------------------------------------
(* What a write_all appends *)

\* The structures as sequences of sectors.
LEMMA Records ==
    ASSUME NEW v
    PROVE  /\ NoFooters(<<>>) /\ Len(<<>>) = 0
           /\ IsFile(<<Footer(v)>>) /\ Len(<<Footer(v)>>) = 1
           /\ NoFooters(<<Header(v), Pad>>) /\ Len(<<Header(v), Pad>>) = 2
           /\ IsFile(<<Footer(v), Header(v), Pad>>)
  <1>1. Header(v).tag # "footer" /\ Pad.tag # "footer"
    BY DEF Header, Pad
  <1>2. IsFile(<<>>) /\ Len(<<>>) = 0
    BY DEF IsFile
  <1>3. IsFile(<<Footer(v)>>) /\ Len(<<Footer(v)>>) = 1
    BY DEF IsFile
  <1>4. IsFile(<<Header(v), Pad>>) /\ Len(<<Header(v), Pad>>) = 2
    BY DEF IsFile
  <1>5. IsFile(<<Footer(v), Header(v), Pad>>)
    BY DEF IsFile
  <1>6. \A k \in 1 .. 2 : <<Header(v), Pad>>[k].tag # "footer"
    BY <1>1
  <1> QED
    BY <1>2, <1>3, <1>4, <1>5, <1>6 DEF NoFooters

\* The reserved BAT as a sequence of sectors.
LEMMA TableIs ==
    ASSUME NEW v, v.size \in Nat
    PROVE  /\ NoFooters(ReservedBat(v)) /\ Len(ReservedBat(v)) = BatSecs(v)
           /\ NBlocks(v) > 0 =>
                 BatSecs(v) > 0 /\ ReservedBat(v)[1] = BatSector(AllHoles(v))
  <1> DEFINE p == ReservedBat(v)
  <1>1. BatSecs(v) \in Nat
    BY Counts
  <1>2. p = [k \in 1 .. BatSecs(v) |-> p[k]]
        /\ \A k \in 1 .. BatSecs(v) : p[k] = IF k = 1 THEN BatSector(AllHoles(v)) ELSE Pad
    BY DEF ReservedBat, AllHoles
  <1>3. NBlocks(v) > 0 => BatSecs(v) > 0
    BY Counts, WriterAssumption, CeilDivFacts DEF BatSecs
  <1> HIDE DEF p
  <1>4. IsFile(p) /\ Len(p) = BatSecs(v)
    BY <1>1, <1>2, MadeFile
  <1>5. \A k \in 1 .. BatSecs(v) : p[k].tag # "footer"
    BY <1>2 DEF BatSector, Pad
  <1> QED
    BY <1>1, <1>2, <1>3, <1>4, <1>5 DEF NoFooters, p

\* The bitmap as a sequence of sectors.
LEMMA BitmapIs == NoFooters(FullBitmap) /\ Len(FullBitmap) = BitmapSecs
  <1> DEFINE p == FullBitmap
  <1>1. p = [k \in 1 .. BitmapSecs |-> p[k]] /\ \A k \in 1 .. BitmapSecs : p[k].tag = "bitmap"
    BY DEF FullBitmap
  <1> HIDE DEF p
  <1>2. IsFile(p) /\ Len(p) = BitmapSecs
    BY <1>1, Constants, MadeFile
  <1> QED
    BY <1>1, <1>2 DEF NoFooters, p

\* The data of a block as a sequence of sectors.
LEMMA DataIs ==
    ASSUME NEW bytes
    PROVE  NoFooters(BlockData(bytes)) /\ Len(BlockData(bytes)) = BlockSecs
  <1> DEFINE p == BlockData(bytes)
  <1>1. p = [k \in 1 .. BlockSecs |-> p[k]] /\ \A k \in 1 .. BlockSecs : p[k].tag = "data"
    BY DEF BlockData
  <1> HIDE DEF p
  <1>2. IsFile(p) /\ Len(p) = BlockSecs
    BY <1>1, Constants, MadeFile
  <1> QED
    BY <1>1, <1>2 DEF NoFooters, p

\* A prefix of sectors without a footer has none.
LEMMA PrefixPlain ==
    ASSUME NEW p, NoFooters(p), NEW n \in 0 .. Len(p)
    PROVE  NoFooters(SubSeq(p, 1, n))
  <1> DEFINE q == SubSeq(p, 1, n)
  <1>1. IsFile(q) /\ Len(q) = n /\ \A k \in 1 .. n : q[k] = p[k]
    BY Prefix DEF NoFooters
  <1>2. Len(p) \in Nat /\ n \in Nat /\ n <= Len(p)
    BY DEF NoFooters, IsFile
  <1>3. \A k \in 1 .. n : k \in 1 .. Len(p)
    BY <1>2
  <1> HIDE DEF q
  <1>4. \A k \in 1 .. n : q[k].tag # "footer"
    BY <1>1, <1>3 DEF NoFooters
  <1> QED
    BY <1>1, <1>4 DEF NoFooters, q

-----------------------------------------------------------------------------
(* The loop of the writer *)

\* The blocks after the j-th are holes as yet.
Rest(v, b, j) == \A e \in 1 .. NBlocks(v) : e > j => b[e] = Hole

\* The loop has stored the first j blocks.
Progress(v, o, j, b) ==
    /\ j \in 0 .. NBlocks(v)
    /\ b \in [1 .. NBlocks(v) -> Numbers]
    /\ Headed(v, o, AllHoles(v))
    /\ NoFooter(o)
    /\ Blocks(v, o, b, j)

\* With the BAT reserved the loop can begin.
LEMMA TableReserved ==
    ASSUME NEW v, v.size \in Nat
    PROVE  LET o == <<Footer(v), Header(v), Pad>> \o ReservedBat(v)
           IN  /\ Progress(v, o, 0, AllHoles(v)) /\ Len(o) = Start(v)
               /\ Rest(v, AllHoles(v), 0)
  <1> DEFINE h == <<Footer(v), Header(v), Pad>>
             t == ReservedBat(v)
             o == h \o t
  <1>1. IsFile(h) /\ Len(h) = 3 /\ h[1] = Footer(v) /\ h[2] = Header(v) /\ h[3] = Pad
    BY Records
  <1>2. NoFooters(t) /\ Len(t) = BatSecs(v)
        /\ (NBlocks(v) > 0 => BatSecs(v) > 0 /\ t[1] = BatSector(AllHoles(v)))
    BY TableIs
  <1>3. NoFooter(h)
    <2>1. h[2].tag # "footer" /\ h[3].tag # "footer"
      BY DEF Header, Pad
    <2> HIDE DEF h
    <2> QED
      BY <1>1, <2>1 DEF NoFooter
  <1>4. BatSecs(v) \in Nat /\ NBlocks(v) \in Nat
    BY Counts
  <1> HIDE DEF h, t
  <1>5. /\ IsFile(o) /\ Len(o) = 3 + BatSecs(v)
        /\ \A k \in 1 .. 3 : o[k] = h[k]
        /\ \A k \in 1 .. BatSecs(v) : o[3 + k] = t[k]
    <2>1. Joined(h, t, o)
      BY <1>1, <1>2, Appended DEF NoFooters
    <2> HIDE DEF o
    <2> QED
      BY <1>1, <1>2, <2>1 DEF Joined, Extended
  <1>6. NoFooter(o)
    BY <1>1, <1>2, <1>3, DraftGrows
  <1> HIDE DEF o
  <1>7. Headed(v, o, AllHoles(v)) /\ Len(o) = Start(v)
    <2>1. o[1] = Footer(v) /\ o[2] = Header(v) /\ o[3] = Pad
      BY <1>1, <1>5
    <2>2. NBlocks(v) > 0 => o[TableSector + 1] = BatSector(AllHoles(v))
      BY <1>2, <1>4, <1>5 DEF TableSector
    <2>3. Len(o) = Start(v) /\ Len(o) >= Start(v)
      BY <1>4, <1>5 DEF Start, TableSector
    <2> QED
      BY <1>5, <2>1, <2>2, <2>3 DEF Headed
  <1>8. AllHoles(v) \in [1 .. NBlocks(v) -> Numbers] /\ Rest(v, AllHoles(v), 0)
    BY DEF AllHoles, Numbers, Rest
  <1>9. Blocks(v, o, AllHoles(v), 0)
    BY DEF Blocks
  <1> QED
    BY <1>4, <1>6, <1>7, <1>8, <1>9 DEF Progress, o, h, t

\* Sectors that are no footer may be appended between blocks.
LEMMA ProgressGrows ==
    ASSUME NEW v, v.size \in Nat, NEW o, NEW j, NEW b, Progress(v, o, j, b),
           NEW p, NoFooters(p)
    PROVE  Progress(v, o \o p, j, b) /\ Draft(v, o \o p)
  <1>1. IsFile(o) /\ Len(o) > 0 /\ o[1] = Footer(v) /\ NoFooter(o)
    <2>1. Start(v) \in Nat /\ Start(v) >= 3 /\ IsFile(o) /\ Len(o) \in Nat /\ Len(o) >= Start(v)
      BY Counts DEF Progress, Headed, IsFile
    <2> QED
      BY <2>1 DEF Progress, Headed
  <1>2. NoFooter(o \o p) /\ Draft(v, o \o p)
    BY <1>1, DraftGrows
  <1>3. Extended(o, o \o p)
    BY <1>1, Appended DEF NoFooters, Joined
  <1>4. Headed(v, o \o p, AllHoles(v))
    BY <1>3, HeadKept DEF Progress
  <1>5. Blocks(v, o \o p, b, j)
    BY <1>1, <1>3, ExtendedSame, BlocksKept DEF Progress
  <1> QED
    BY <1>2, <1>4, <1>5 DEF Progress

\* A block of zeros stays a hole.
LEMMA BlockSkipped ==
    ASSUME NEW v, v.size \in Nat, NEW o, NEW j \in Nat, NEW b, Progress(v, o, j, b),
           j < NBlocks(v), Rest(v, b, j), BlockRead(v, j).ok, AllZero(BlockRead(v, j).bytes),
           NEW j1 \in Nat, j1 = j + 1
    PROVE  Progress(v, o, j1, b) /\ Rest(v, b, j1)
  <1>1. PICK N \in Nat : N = NBlocks(v) /\ j1 \in 1 .. N /\ j1 - 1 = j
    BY Counts
  <1>2. b[j1] = Hole
    BY <1>1 DEF Rest
  <1>3. Zeros(v, j1)
    BY <1>1 DEF Zeros
  <1>4. Blocks(v, o, b, j1)
    <2> SUFFICES ASSUME NEW e \in 1 .. j1
                 PROVE  IF b[e] = Hole THEN Zeros(v, e) ELSE Stored(v, o, e, b[e])
      BY DEF Blocks
    <2>1. e \in 1 .. j \/ e = j1
      OBVIOUS
    <2> QED
      BY <1>2, <1>3, <2>1 DEF Progress, Blocks
  <1>5. Rest(v, b, j1)
    BY <1>1 DEF Rest
  <1> QED
    BY <1>1, <1>4, <1>5 DEF Progress

\* c is b with x as its k-th entry.
Placed(b, k, x, c) == c = [b EXCEPT ![k] = x]

\* The BAT entry of the next block changes nothing of those before.
LEMMA BlockPlaced ==
    ASSUME NEW v, v.size \in Nat, NEW o, NEW j \in Nat, NEW b, Progress(v, o, j, b),
           j < NBlocks(v), Rest(v, b, j), NEW j1 \in Nat, j1 = j + 1, NEW x \in Nat,
           NEW c, Placed(b, j1, x, c)
    PROVE  Progress(v, o, j, c) /\ Rest(v, c, j1) /\ c[j1] = x
  <1>1. PICK N \in Nat : N = NBlocks(v) /\ j1 \in 1 .. N
    BY Counts
  <1>2. b \in [1 .. N -> Numbers] /\ x \in Numbers
    BY <1>1 DEF Progress, Numbers
  <1>3. c \in [1 .. N -> Numbers] /\ c[j1] = x /\ \A e \in 1 .. N : e # j1 => c[e] = b[e]
    BY <1>1, <1>2 DEF Placed
  <1>4. Rest(v, c, j1)
    BY <1>1, <1>3 DEF Rest
  <1>5. Blocks(v, o, c, j)
    <2> SUFFICES ASSUME NEW e \in 1 .. j
                 PROVE  IF c[e] = Hole THEN Zeros(v, e) ELSE Stored(v, o, e, c[e])
      BY DEF Blocks
    <2>1. e \in 1 .. N /\ e # j1
      BY <1>1
    <2>2. c[e] = b[e]
      BY <1>3, <2>1
    <2> QED
      BY <2>2 DEF Progress, Blocks
  <1> QED
    BY <1>1, <1>3, <1>4, <1>5 DEF Progress

\* The bitmap is where it is appended.
LEMMA BitmapAppended ==
    ASSUME NEW o, IsFile(o)
    PROVE  BitmapAt(o \o FullBitmap, Len(o)) /\ Len(o \o FullBitmap) = Len(o) + BitmapSecs
  <1>1. IsFile(FullBitmap) /\ Len(FullBitmap) = BitmapSecs
    BY BitmapIs DEF NoFooters
  <1>2. Joined(o, FullBitmap, o \o FullBitmap)
    BY <1>1, Appended
  <1> QED
    BY <1>1, <1>2 DEF BitmapAt, Joined

\* With bitmap and data appended the block is stored.
LEMMA BlockAppended ==
    ASSUME NEW v, v.size \in Nat, NEW o, NEW j \in Nat, NEW b, Progress(v, o, j, b),
           j < NBlocks(v), BlockRead(v, j).ok, NEW j1 \in Nat, j1 = j + 1,
           NEW x \in Nat, b[j1] = x, Start(v) <= x,
           BitmapAt(o, x), Len(o) = x + BitmapSecs
    PROVE  LET p == o \o BlockData(BlockRead(v, j).bytes)
           IN  Progress(v, p, j1, b) /\ Len(p) = x + Stride
  <1> DEFINE d == BlockData(BlockRead(v, j).bytes)
             p == o \o d
  <1>1. NoFooters(d) /\ Len(d) = BlockSecs /\ IsFile(d)
    BY DataIs DEF NoFooters
  <1>2. Progress(v, p, j, b)
    <2> HIDE DEF d
    <2> QED
      BY <1>1, ProgressGrows
  <1>3. IsFile(o)
    BY DEF Progress, Headed
  <1>4. /\ Extended(o, p) /\ Len(p) = Len(o) + Len(d)
        /\ \A k \in 1 .. Len(d) : p[Len(o) + k] = d[k]
    <2> HIDE DEF d
    <2>1. Joined(o, d, o \o d)
      BY <1>1, <1>3, Appended
    <2> QED
      BY <2>1 DEF Joined
  <1>5. PICK N \in Nat, n \in Nat, bm \in Nat, bs \in Nat :
            /\ N = NBlocks(v) /\ n = Len(o) /\ bm = BitmapSecs /\ bs = BlockSecs
            /\ n = x + bm /\ j1 \in 1 .. N /\ j1 - 1 = j
    <2>1. NBlocks(v) \in Nat /\ Len(o) \in Nat /\ BitmapSecs \in Nat /\ BlockSecs \in Nat
      BY <1>3, Counts, Constants DEF IsFile
    <2>2. j1 \in 1 .. NBlocks(v) /\ j1 - 1 = j
      BY <2>1
    <2> QED
      BY <2>1, <2>2
  <1> HIDE DEF d, p
  <1>6. \A k \in 1 .. bm : p[x + k] = FullBitmap[k]
    <2> TAKE k \in 1 .. bm
    <2>1. PICK y \in 1 .. n : y = x + k
      BY <1>5
    <2>2. o[x + k] = FullBitmap[k]
      BY <1>5 DEF BitmapAt
    <2> QED
      BY <1>4, <1>5, <2>1, <2>2 DEF Extended
  <1>7. \A k \in 1 .. bs : p[x + bm + k] = d[k]
    BY <1>1, <1>4, <1>5
  <1>8. Len(p) = x + Stride
    BY <1>1, <1>4, <1>5 DEF Stride
  <1>9. Stored(v, p, j1, x)
    <2>1. x + Stride <= Len(p)
      BY <1>1, <1>4, <1>5, <1>8
    <2>2. BitmapAt(p, x)
      BY <1>5, <1>6 DEF BitmapAt
    <2>3. BlockRead(v, j1 - 1).ok /\ d = BlockData(BlockRead(v, j1 - 1).bytes)
      BY <1>5 DEF d
    <2>4. \A k \in 1 .. BlockSecs :
             p[x + BitmapSecs + k] = BlockData(BlockRead(v, j1 - 1).bytes)[k]
      BY <1>5, <1>7, <2>3
    <2> QED
      BY <2>1, <2>2, <2>3, <2>4 DEF Stored
  <1>10. Blocks(v, p, b, j1)
    <2> SUFFICES ASSUME NEW e \in 1 .. j1
                 PROVE  IF b[e] = Hole THEN Zeros(v, e) ELSE Stored(v, p, e, b[e])
      BY DEF Blocks
    <2>1. e \in 1 .. j \/ e = j1
      OBVIOUS
    <2>2. x # Hole
      BY DEF Hole
    <2> QED
      BY <1>2, <1>9, <2>1, <2>2 DEF Progress, Blocks
  <1>11. j1 \in 0 .. NBlocks(v)
    BY <1>5
  <1> QED
    BY <1>2, <1>8, <1>10, <1>11 DEF Progress, p, d

\* With the footer appended the file is complete, and all blocks are stored.
LEMMA ImageFinished ==
    ASSUME NEW v, v.size \in Nat, NEW o, NEW j, NEW b, Progress(v, o, j, b), j >= NBlocks(v),
           NEW p, p = o \o <<Footer(v)>>
    PROVE  /\ IsFile(p)
           /\ Image(v, p, AllHoles(v))
           /\ Blocks(v, p, b, NBlocks(v))
  <1>1. IsFile(o)
    BY DEF Progress, Headed
  <1> DEFINE f == <<Footer(v)>>
  <1>0. IsFile(f) /\ Len(f) = 1 /\ f[1] = Footer(v)
    BY Records
  <1> HIDE DEF f
  <1>2. Joined(o, f, p)
    <2>1. p = o \o f
      BY DEF f
    <2> QED
      BY <1>0, <1>1, <2>1, Appended
  <1>3. PICK n \in Nat, N \in Nat, s \in Nat :
            n = Len(o) /\ N = NBlocks(v) /\ s = Start(v) /\ n >= s /\ j = N
    BY <1>1, Counts DEF IsFile, Progress, Headed
  <1>4. Len(p) = n + 1 /\ p[n + 1] = Footer(v) /\ IsFile(p)
    <2>1. 1 \in 1 .. Len(f)
      BY <1>0
    <2> QED
      BY <1>0, <1>2, <1>3, <2>1 DEF Joined, Extended
  <1>5. Headed(v, p, AllHoles(v))
    BY <1>2, HeadKept DEF Progress, Joined
  <1>6. Blocks(v, p, b, N)
    BY <1>1, <1>2, <1>3, ExtendedSame, BlocksKept DEF Progress, Joined
  <1>7. Image(v, p, AllHoles(v))
    BY <1>3, <1>4, <1>5 DEF Image
  <1> QED
    BY <1>3, <1>4, <1>6, <1>7

\* No entry written over, or all of them.
LEMMA EntriesAre ==
    ASSUME NEW v, v.size \in Nat, NEW b, b \in [1 .. NBlocks(v) -> Numbers]
    PROVE  Entries(v, b, 0) = AllHoles(v) /\ Entries(v, b, NBlocks(v)) = b
  <1>1. NBlocks(v) \in Nat
    BY Counts
  <1>2. Entries(v, b, 0) = AllHoles(v)
    BY <1>1 DEF Entries, AllHoles
  <1>3. Entries(v, b, NBlocks(v)) = b
    BY <1>1 DEF Entries
  <1> QED
    BY <1>2, <1>3

\* A complete file with its BAT still reserved may be left behind.
LEMMA ImageLeft ==
    ASSUME NEW v, v.size \in Nat, NEW o, NEW b, b \in [1 .. NBlocks(v) -> Numbers],
           Blocks(v, o, b, NBlocks(v)), Image(v, o, AllHoles(v))
    PROVE  Left(v, o, b)
  <1>1. NBlocks(v) \in Nat /\ 0 \in 0 .. NBlocks(v)
    BY Counts
  <1>2. Image(v, o, Entries(v, b, 0))
    BY EntriesAre
  <1> QED
    BY <1>1, <1>2 DEF Left

\* A file left behind that is no draft is complete, and every block its BAT
\* names is stored.
LEMMA LeftHolds ==
    ASSUME NEW v, v.size \in Nat, NEW o, NEW b, Left(v, o, b), ~ Draft(v, o)
    PROVE  \E n \in 0 .. NBlocks(v) : Holds(v, o, Entries(v, b, n))
  <1>1. /\ b \in [1 .. NBlocks(v) -> Numbers]
        /\ Blocks(v, o, b, NBlocks(v))
    BY DEF Left
  <1>2. PICK n \in 0 .. NBlocks(v) : Image(v, o, Entries(v, b, n))
    BY DEF Left
  <1> DEFINE c == Entries(v, b, n)
  <1>3. c \in [1 .. NBlocks(v) -> Numbers] /\ \A e \in 1 .. NBlocks(v) : c[e] \in {Hole, b[e]}
    BY <1>1 DEF Entries, Numbers
  <1> HIDE DEF c
  <1>4. \A e \in 1 .. NBlocks(v) : c[e] = Hole \/ Stored(v, o, e, c[e])
    BY <1>1, <1>3 DEF Blocks
  <1> QED
    BY <1>2, <1>3, <1>4 DEF Holds, c

-----------------------------------------------------------------------------
(* The program around the writer *)

\* The input was opened, in some order of its directory.
Opened ==
    \E entries \in Orders(input.entries) :
        src = OpenBacking(input.stem, input.ext, input.file, entries)

\* The program around the writer: an older file is never replaced, nothing is
\* created before the input is open, and what is open can be read.
Shell ==
    /\ input \in Sources
    /\ before \in {Missing, OldFile}
    /\ pc \in {"start", "failure"} => out = before
    /\ before # Missing => pc \in {"start", "failure", "killed"} /\ out = before
    /\ pc = "start" => src = NoStore
    /\ src.ok => StoreOk(src)
    /\ pc \notin {"start", "killed"} /\ before = Missing => Opened

\* What may be at the output path is a file or none.
LEMMA OldFiles == IsFile(Missing) /\ IsFile(OldFile)
  <1>1. IsFile(Missing)
    BY DEF Missing, IsFile
  <1>2. Len(OldFile) \in Nat /\ OldFile = [k \in 1 .. Len(OldFile) |-> OldFile[k]]
    <2>1. PICK S : OldFile \in Seq(S)
      BY OldFileAssumption DEF FileOk
    <2> QED
      BY <2>1
  <1> QED
    BY <1>1, <1>2 DEF IsFile

\* The opened input can be read.
LEMMA InputOpens ==
    ASSUME input \in Sources, NEW entries \in Orders(input.entries),
           OpenBacking(input.stem, input.ext, input.file, entries).ok
    PROVE  StoreOk(OpenBacking(input.stem, input.ext, input.file, entries))
  <1>1. FileOk(input.file) /\ IsFiniteSet(input.entries) /\ \A e \in input.entries : FileOk(e.file)
    BY SourcesAssumption DEF SourceOk
  <1>2. PICK N \in Nat : N = Cardinality(input.entries)
    BY <1>1, FS_CardinalityType
  <1>3. entries \in [1 .. N -> input.entries]
    BY <1>2 DEF Orders
  <1> QED
    BY <1>1, <1>3, StoresOpen

\* A write_all of nothing writes nothing.
LEMMA NothingPending ==
    ASSUME Pending = <<>>, IsFile(out), NEW n \in 0 .. Len(Pending)
    PROVE  out \o SubSeq(Pending, 1, n) = out
  <1>1. IsFile(Pending) /\ Len(Pending) = 0 /\ n = 0
    BY DEF IsFile
  <1>2. IsFile(SubSeq(Pending, 1, n)) /\ Len(SubSeq(Pending, 1, n)) = 0
    BY <1>1, Prefix
  <1>3. Joined(out, SubSeq(Pending, 1, n), out \o SubSeq(Pending, 1, n))
    BY <1>2, Appended
  <1> QED
    BY <1>2, <1>3 DEF Joined

\* Shell holds when the program starts.
LEMMA ShellInit == Init => Shell
  BY DEF Init, Shell, NoStore

\* Every step keeps Shell.
LEMMA ShellKept ==
    ASSUME Shell, [Next]_vars
    PROVE  Shell'
  <1> USE DEF Shell
  <1>0. input' = input /\ src' = src /\ Opened => Opened'
    BY DEF Opened
  <1>1. CASE OpenInput
    <2>1. CASE out # Missing
      BY <1>1, <2>1 DEF OpenInput
    <2>2. CASE out = Missing
      <3>1. PICK entries \in Orders(input.entries) :
               src' = OpenBacking(input.stem, input.ext, input.file, entries)
        BY <1>1, <2>2 DEF OpenInput
      <3>2. src'.ok => StoreOk(src')
        BY <3>1, InputOpens
      <3>3. /\ pc = "start" /\ pc' \in {"create", "failure"}
            /\ UNCHANGED <<input, before, out>>
        BY <1>1, <2>2 DEF OpenInput
      <3>4. Opened'
        BY <3>1, <3>3 DEF Opened
      <3> QED
        BY <2>2, <3>2, <3>3, <3>4
    <2> QED
      BY <2>1, <2>2
  <1>2. CASE Kill
    <2>1. CASE before = Missing
      BY <1>2, <2>1 DEF Kill
    <2>2. CASE before # Missing
      <3>1. pc = "start" /\ out = before
        BY <1>2, <2>2 DEF Kill, Ended
      <3>2. Pending = <<>>
        BY <3>1 DEF Pending
      <3>3. IsFile(out)
        BY <3>1, OldFiles
      <3>4. PICK n \in 0 .. Len(Pending) : out' = out \o SubSeq(Pending, 1, n)
        BY <1>2, <3>1 DEF Kill, Torn
      <3>5. out' = out
        BY <3>2, <3>3, <3>4, NothingPending
      <3> QED
        BY <1>2, <3>1, <3>5 DEF Kill
    <2> QED
      BY <2>1, <2>2
  <1>3. CASE Create
    BY <1>0, <1>3 DEF Create
  <1>4. CASE WriteFooterCopy
    BY <1>0, <1>4 DEF WriteFooterCopy, Write
  <1>5. CASE WriteHeader
    BY <1>0, <1>5 DEF WriteHeader, Write
  <1>6. CASE ReserveBat
    BY <1>0, <1>6 DEF ReserveBat, Write
  <1>7. CASE ReadBlock
    BY <1>0, <1>7 DEF ReadBlock
  <1>8. CASE WriteBitmap
    BY <1>0, <1>8 DEF WriteBitmap, Write
  <1>9. CASE WriteBlock
    BY <1>0, <1>9 DEF WriteBlock, Write
  <1>10. CASE WriteFooter
    BY <1>0, <1>10 DEF WriteFooter, Write
  <1>11. CASE Backfill
    BY <1>0, <1>11 DEF Backfill
  <1>12. CASE WriteFails
    BY <1>0, <1>12 DEF WriteFails
  <1>13. CASE Remove
    BY <1>0, <1>13 DEF Remove
  <1>14. CASE UNCHANGED vars
    BY <1>0, <1>14 DEF vars
  <1> QED
    BY <1>1, <1>2, <1>3, <1>4, <1>5, <1>6, <1>7, <1>8, <1>9, <1>10, <1>11, <1>12, <1>13, <1>14
       DEF Next

\* Whatever fails and whenever the process is killed, run_flatten never
\* replaces an older file, and what it reads from is a store that can be read.
THEOREM ShellHolds == Spec => []Shell
  BY ShellInit, ShellKept, PTL DEF Spec

\* A run of run_flatten that reports failure leaves the output path as it found
\* it, an older file in particular.
THEOREM PathLeftAsFound == Spec => []FailureLeavesNothing
  <1>1. Shell => FailureLeavesNothing
    BY DEF Shell, FailureLeavesNothing
  <1> QED
    BY <1>1, ShellHolds, PTL

\* Every range of the opened input reads as its bytes one by one.
ReadsAgree ==
    src.ok => \A off \in Nat, len \in Nat :
        off + len <= src.size =>
            ReadAt(src, off, len) = Part(StoreBytes(src, off, len), 0, len)

\* In every reachable state the input reads a range as its bytes one by one, in
\* whatever units the code cuts it up (read_at, read_units).
THEOREM RangesAsBytes == Spec => []ReadsAgree
  <1>1. Shell => ReadsAgree
    BY ReadsSplit DEF Shell, ReadsAgree
  <1> QED
    BY <1>1, ShellHolds, PTL

-----------------------------------------------------------------------------
(* The inductive invariant of the writer *)

\* The inductive invariant: what is in the file, and what the writer's
\* variables say of it, at every step of write_dynamic_vhd and after it.
Work ==
    /\ pc \in {"start", "create", "footer", "header", "reserve", "block", "bitmap", "data",
               "backfill", "remove"} \cup Ended
    /\ IsFile(out)
    /\ pc \notin {"start", "failure", "killed"} => src.ok
    /\ src.ok => Fits(src)
    /\ pc = "create" => out = Missing
    /\ pc = "footer" => out = <<>>
    /\ pc = "header" => out = <<Footer(src)>>
    /\ pc = "reserve" => out = <<Footer(src), Header(src), Pad>>
    /\ pc \in {"block", "bitmap", "data"} =>
          /\ Progress(src, out, i, bat)
          /\ Fresh(src, i, next)
    /\ pc = "block" => Len(out) = next /\ Rest(src, bat, i)
    /\ pc \in {"bitmap", "data"} =>
          /\ i < NBlocks(src)
          /\ BlockRead(src, i).ok
          /\ bat[i + 1] = next
          /\ Rest(src, bat, i + 1)
    /\ pc = "bitmap" => Len(out) = next
    /\ pc = "data" => Len(out) = next + BitmapSecs /\ BitmapAt(out, next)
    /\ pc \in {"backfill", "success"} =>
          /\ bat \in [1 .. NBlocks(src) -> Numbers]
          /\ Blocks(src, out, bat, NBlocks(src))
    /\ pc = "backfill" => Image(src, out, AllHoles(src))
    /\ pc = "success" => Image(src, out, bat)
    /\ pc \in {"remove", "leftover"} \/ (pc = "killed" /\ src.ok) => Left(src, out, bat)

\* Work holds when the program starts.
LEMMA WorkInit == Init => Work
  <1> SUFFICES ASSUME Init PROVE Work
    OBVIOUS
  <1>1. IsFile(out)
    BY OldFiles DEF Init
  <1> QED
    BY <1>1 DEF Init, Work, NoStore, Ended

\* The size of the opened input, and its number of blocks.
LEMMA SizeIs ==
    ASSUME Shell, src.ok
    PROVE  src.size \in Nat /\ NBlocks(src) \in Nat
  BY Counts DEF Shell, StoreOk, PlainOk, ChainOk

\* Opening the input keeps Work.
LEMMA OpenInputWorks ==
    ASSUME SourcesFit, Shell, Work, OpenInput
    PROVE  Work'
  <1>1. pc = "start" /\ UNCHANGED <<input, before, out, i, bat, next>>
    BY DEF OpenInput
  <1>2. CASE out # Missing
    BY <1>1, <1>2 DEF OpenInput, Work, Ended, Shell, NoStore
  <1>3. CASE out = Missing
    <2>1. PICK entries \in Orders(input.entries) :
             src' = OpenBacking(input.stem, input.ext, input.file, entries)
      BY <1>3 DEF OpenInput
    <2>2. src'.ok => Fits(src')
      BY <2>1 DEF SourcesFit, Shell
    <2>3. pc' \in {"create", "failure"} /\ (pc' = "create" => src'.ok)
      BY <1>3 DEF OpenInput
    <2>4. IsFile(out')
      BY <1>1 DEF Work
    <2> QED
      BY <1>1, <1>3, <2>2, <2>3, <2>4 DEF Work, Ended
  <1> QED
    BY <1>2, <1>3

\* File::create keeps Work.
LEMMA CreateWorks ==
    ASSUME Shell, Work, Create
    PROVE  Work'
  <1>1. pc = "create" /\ src' = src /\ src.ok
    BY DEF Create, Work
  <1>2. out' \in {<<>>, Missing} /\ IsFile(out')
    BY Records, OldFiles DEF Create, NoFooters
  <1>3. Left(src, out', bat)
    BY <1>2 DEF Left, Draft
  <1> QED
    BY <1>1, <1>2, <1>3 DEF Create, Work, Ended

\* The footer's copy is written first.
LEMMA WriteFooterCopyWorks ==
    ASSUME Shell, Work, WriteFooterCopy
    PROVE  Work'
  <1>1. /\ pc = "footer" /\ pc' = "header" /\ src' = src /\ src.ok /\ out = <<>>
        /\ UNCHANGED <<input, before, src, i, bat, next>>
    BY DEF WriteFooterCopy, Write, Work
  <1>2. out' = <<Footer(src)>>
    <2>1. Pending = <<Footer(src)>>
      BY <1>1 DEF Pending
    <2>2. <<>> \o <<Footer(src)>> = <<Footer(src)>>
      OBVIOUS
    <2> QED
      BY <1>1, <2>1, <2>2 DEF WriteFooterCopy, Write
  <1>3. IsFile(out')
    BY <1>2, Records
  <1> QED
    BY <1>1, <1>2, <1>3 DEF Work, Ended

\* The head of the file as one sequence.
LEMMA ThreeSectors ==
    ASSUME NEW a, NEW b, NEW c
    PROVE  <<a>> \o <<b, c>> = <<a, b, c>>
  <1> DEFINE f == <<a>>
             g == <<b, c>>
             h == <<a, b, c>>
  <1>1. IsFile(f) /\ Len(f) = 1 /\ f[1] = a
    BY DEF IsFile
  <1>2. IsFile(g) /\ Len(g) = 2 /\ g[1] = b /\ g[2] = c
    BY DEF IsFile
  <1>3. IsFile(h) /\ Len(h) = 3 /\ h[1] = a /\ h[2] = b /\ h[3] = c
    BY DEF IsFile
  <1> HIDE DEF f, g, h
  <1>4. Joined(f, g, f \o g)
    BY <1>1, <1>2, Appended
  <1> DEFINE q == f \o g
  <1>5. Joined(f, g, q)
    BY <1>4
  <1> HIDE DEF q
  <1>6. q[1] = f[1] /\ Len(q) = 3 /\ q = [k \in 1 .. 3 |-> q[k]]
    BY <1>1, <1>2, <1>5 DEF Joined, Extended, IsFile
  <1>7. q[2] = g[1] /\ q[3] = g[2]
    <2>1. 1 \in 1 .. 2 /\ 2 \in 1 .. 2 /\ 1 + 1 = 2 /\ 1 + 2 = 3
      OBVIOUS
    <2> QED
      BY <1>1, <1>2, <1>5, <2>1 DEF Joined
  <1>8. h = [k \in 1 .. 3 |-> h[k]]
    BY <1>3 DEF IsFile
  <1>9. \A k \in 1 .. 3 : q[k] = h[k]
    BY <1>1, <1>2, <1>3, <1>6, <1>7
  <1>10. q = h
    BY <1>6, <1>8, <1>9
  <1> QED
    BY <1>10 DEF q, f, g, h

\* The header is written after the footer's copy.
LEMMA WriteHeaderWorks ==
    ASSUME Shell, Work, WriteHeader
    PROVE  Work'
  <1>1. /\ pc = "header" /\ pc' = "reserve" /\ src' = src /\ src.ok /\ out = <<Footer(src)>>
        /\ UNCHANGED <<input, before, src, i, bat, next>>
    BY DEF WriteHeader, Write, Work
  <1>2. out' = <<Footer(src), Header(src), Pad>>
    <2>1. Pending = <<Header(src), Pad>>
      BY <1>1 DEF Pending
    <2>2. <<Footer(src)>> \o <<Header(src), Pad>> = <<Footer(src), Header(src), Pad>>
      BY ThreeSectors
    <2> QED
      BY <1>1, <2>1, <2>2 DEF WriteHeader, Write
  <1>3. IsFile(out')
    BY <1>2, Records
  <1> QED
    BY <1>1, <1>2, <1>3 DEF Work, Ended

\* The reserved BAT is written, and the loop begins.
LEMMA ReserveBatWorks ==
    ASSUME Shell, Work, ReserveBat
    PROVE  Work'
  <1>1. /\ pc = "reserve" /\ pc' = "block" /\ src' = src /\ src.ok
        /\ out = <<Footer(src), Header(src), Pad>>
        /\ i' = 0 /\ bat' = AllHoles(src) /\ Fits(src)
        /\ next' = (TableSector + BatSecs(src)) % BatMod
    BY DEF ReserveBat, Write, Work, AllHoles
  <1>2. Pending = ReservedBat(src)
    BY <1>1 DEF Pending
  <1>3. out' = <<Footer(src), Header(src), Pad>> \o ReservedBat(src)
    BY <1>1, <1>2 DEF ReserveBat, Write
  <1>4. src.size \in Nat
    BY <1>1, SizeIs
  <1>5. next' = Start(src) /\ Fresh(src, 0, Start(src))
    BY <1>1, <1>4, FreshStart
  <1>6. /\ Progress(src, out', 0, AllHoles(src)) /\ Len(out') = Start(src)
        /\ Rest(src, AllHoles(src), 0)
    BY <1>3, <1>4, TableReserved
  <1>7. IsFile(out')
    BY <1>6 DEF Progress, Headed
  <1> QED
    BY <1>1, <1>5, <1>6, <1>7 DEF Work, Ended

\* A block is read, and skipped or given its sector.
LEMMA ReadBlockWorks ==
    ASSUME Shell, Work, ReadBlock
    PROVE  Work'
  <1>1. /\ pc = "block" /\ i < NBlocks(src) /\ src.ok /\ Fits(src)
        /\ UNCHANGED <<input, before, out, src, next>>
        /\ Progress(src, out, i, bat) /\ Fresh(src, i, next)
        /\ Len(out) = next /\ Rest(src, bat, i) /\ IsFile(out)
    BY DEF ReadBlock, Work
  <1>2. src.size \in Nat /\ NBlocks(src) \in Nat
    BY <1>1, SizeIs
  <1>3. i \in Nat /\ next \in Nat
    BY <1>1, <1>2 DEF Progress, Fresh
  <1>4. PICK j \in Nat : j = i + 1
    BY <1>3
  <1>5. /\ next # BatMod - 1
        /\ Fresh(src, j, next)
    BY <1>1, <1>2, <1>3, <1>4, FreshNext
  <1>6. CASE ~ BlockRead(src, i).ok
    <2>1. pc' = "remove" /\ UNCHANGED <<i, bat>>
      BY <1>6 DEF ReadBlock
    <2>2. Left(src, out, bat)
      <3>1. Len(out) \in Nat /\ Len(out) > 0
        <4>1. Start(src) \in Nat /\ Start(src) >= 3 /\ Len(out) >= Start(src) /\ Len(out) \in Nat
          BY <1>1, <1>2, Counts DEF Progress, Headed, IsFile
        <4> QED
          BY <4>1
      <3> QED
        BY <1>1, <3>1 DEF Left, Draft, Progress, Headed
    <2> QED
      BY <1>1, <2>1, <2>2 DEF Work, Ended
  <1>7. CASE BlockRead(src, i).ok /\ AllZero(BlockRead(src, i).bytes)
    <2>1. pc' = pc /\ bat' = bat /\ i' = j
      BY <1>4, <1>7 DEF ReadBlock
    <2>2. Progress(src, out, j, bat) /\ Rest(src, bat, j)
      BY <1>1, <1>2, <1>3, <1>4, <1>7, BlockSkipped
    <2> QED
      BY <1>1, <1>5, <2>1, <2>2 DEF Work, Ended
  <1>8. CASE BlockRead(src, i).ok /\ ~ AllZero(BlockRead(src, i).bytes)
    <2>1. pc' = "bitmap" /\ i' = i /\ bat' = [bat EXCEPT ![j] = next]
      BY <1>4, <1>5, <1>8 DEF ReadBlock
    <2>2. PICK c : c = bat'
      OBVIOUS
    <2>3. Placed(bat, j, next, c)
      BY <2>1, <2>2 DEF Placed
    <2>4. Progress(src, out, i, bat') /\ Rest(src, bat', j) /\ bat'[j] = next
      BY <1>1, <1>2, <1>3, <1>4, <2>2, <2>3, BlockPlaced
    <2> QED
      BY <1>1, <1>4, <1>8, <2>1, <2>4 DEF Work, Ended
  <1> QED
    BY <1>6, <1>7, <1>8

\* The bitmap is written at the sector the block was given.
LEMMA WriteBitmapWorks ==
    ASSUME Shell, Work, WriteBitmap
    PROVE  Work'
  <1>1. /\ pc = "bitmap" /\ pc' = "data" /\ src.ok /\ Fits(src)
        /\ UNCHANGED <<input, before, src, i, bat, next>>
        /\ Progress(src, out, i, bat) /\ Fresh(src, i, next)
        /\ i < NBlocks(src) /\ BlockRead(src, i).ok /\ bat[i + 1] = next
        /\ Rest(src, bat, i + 1) /\ Len(out) = next /\ IsFile(out)
    BY DEF WriteBitmap, Write, Work
  <1>2. Pending = FullBitmap
    BY <1>1 DEF Pending
  <1>3. out' = out \o FullBitmap
    BY <1>2 DEF WriteBitmap, Write
  <1>4. src.size \in Nat
    BY <1>1, SizeIs
  <1>5. Progress(src, out', i, bat)
    BY <1>1, <1>3, <1>4, BitmapIs, ProgressGrows
  <1>6. BitmapAt(out', next) /\ Len(out') = next + BitmapSecs
    BY <1>1, <1>3, BitmapAppended
  <1>7. IsFile(out')
    BY <1>5 DEF Progress, Headed
  <1> QED
    BY <1>1, <1>5, <1>6, <1>7 DEF Work, Ended

\* The data are written behind the bitmap, and the block is stored.
LEMMA WriteBlockWorks ==
    ASSUME Shell, Work, WriteBlock
    PROVE  Work'
  <1>1. /\ pc = "data" /\ pc' = "block" /\ src.ok /\ Fits(src)
        /\ UNCHANGED <<input, before, src, bat>>
        /\ i' = i + 1 /\ next' = (next + BitmapSecs + BlockSecs) % BatMod
        /\ Progress(src, out, i, bat) /\ Fresh(src, i, next)
        /\ i < NBlocks(src) /\ BlockRead(src, i).ok /\ bat[i + 1] = next
        /\ Rest(src, bat, i + 1) /\ Len(out) = next + BitmapSecs /\ BitmapAt(out, next)
    BY DEF WriteBlock, Write, Work
  <1>2. Pending = BlockData(BlockRead(src, i).bytes)
    BY <1>1 DEF Pending
  <1>3. out' = out \o BlockData(BlockRead(src, i).bytes)
    BY <1>2 DEF WriteBlock, Write
  <1>4. src.size \in Nat /\ NBlocks(src) \in Nat
    BY <1>1, SizeIs
  <1>5. i \in Nat /\ next \in Nat /\ Start(src) <= next
    BY <1>1, <1>4 DEF Progress, Fresh
  <1>6. PICK j \in Nat : j = i + 1
    BY <1>5
  <1>7. next' = next + Stride /\ Fresh(src, j, next + Stride)
    BY <1>1, <1>4, <1>5, <1>6, FreshNext
  <1>8. Progress(src, out', j, bat) /\ Len(out') = next + Stride
    BY <1>1, <1>3, <1>4, <1>5, <1>6, BlockAppended
  <1>9. IsFile(out')
    BY <1>8 DEF Progress, Headed
  <1> QED
    BY <1>1, <1>6, <1>7, <1>8, <1>9 DEF Work, Ended

\* The footer completes the file.
LEMMA WriteFooterWorks ==
    ASSUME Shell, Work, WriteFooter
    PROVE  Work'
  <1>1. /\ pc = "block" /\ pc' = "backfill" /\ src.ok /\ Fits(src)
        /\ UNCHANGED <<input, before, src, i, bat, next>>
        /\ i >= NBlocks(src) /\ Progress(src, out, i, bat)
    BY DEF WriteFooter, Write, Work
  <1>2. Pending = <<Footer(src)>>
    BY <1>1 DEF Pending
  <1>3. out' = out \o <<Footer(src)>>
    BY <1>2 DEF WriteFooter, Write
  <1>4. src.size \in Nat
    BY <1>1, SizeIs
  <1>5. IsFile(out') /\ Image(src, out', AllHoles(src)) /\ Blocks(src, out', bat, NBlocks(src))
    BY <1>1, <1>3, <1>4, ImageFinished
  <1>6. bat \in [1 .. NBlocks(src) -> Numbers]
    BY <1>1 DEF Progress
  <1> QED
    BY <1>1, <1>5, <1>6 DEF Work, Ended

\* With n entries of the BAT written the file is complete, and the blocks are
\* stored.
LEMMA BackfilledIs ==
    ASSUME Shell, Work, pc = "backfill", NEW n \in 0 .. NBlocks(src)
    PROVE  /\ IsFile(Backfilled(n))
           /\ Image(src, Backfilled(n), Entries(src, bat, n))
           /\ Blocks(src, Backfilled(n), bat, NBlocks(src))
  <1>1. /\ src.ok /\ IsFile(out) /\ Image(src, out, AllHoles(src))
        /\ Blocks(src, out, bat, NBlocks(src))
    BY DEF Work, Ended
  <1>2. src.size \in Nat /\ NBlocks(src) \in Nat
    BY <1>1, SizeIs
  <1>3. CASE NBlocks(src) = 0
    <2>1. Backfilled(n) = out
      BY <1>3 DEF Backfilled
    <2>2. Image(src, out, Entries(src, bat, n))
      BY <1>1, <1>3 DEF Image, Headed
    <2> QED
      BY <1>1, <2>1, <2>2
  <1>4. CASE NBlocks(src) > 0
    <2>1. Backfilled(n) = [out EXCEPT ![TableSector + 1] = BatSector(Entries(src, bat, n))]
      BY <1>4 DEF Backfilled, Entries
    <2>2. Image(src, Backfilled(n), Entries(src, bat, n)) /\ SameFrom(src, out, Backfilled(n))
      BY <1>1, <1>2, <1>4, <2>1, Backfills
    <2>3. Blocks(src, Backfilled(n), bat, NBlocks(src))
      BY <1>1, <1>2, <2>2, BlocksKept
    <2> QED
      BY <2>2, <2>3 DEF SameFrom
  <1> QED
    BY <1>2, <1>3, <1>4

\* The BAT is written over the reserved one.
LEMMA BackfillWorks ==
    ASSUME Shell, Work, Backfill
    PROVE  Work'
  <1>1. /\ pc = "backfill" /\ pc' = "success" /\ src.ok /\ Fits(src)
        /\ UNCHANGED <<input, before, src, i, bat, next>>
        /\ bat \in [1 .. NBlocks(src) -> Numbers]
        /\ out' = Backfilled(NBlocks(src))
    BY DEF Backfill, Work, Ended
  <1>2. src.size \in Nat /\ NBlocks(src) \in 0 .. NBlocks(src)
    BY <1>1, SizeIs
  <1>3. IsFile(out') /\ Image(src, out', bat) /\ Blocks(src, out', bat, NBlocks(src))
    BY <1>1, <1>2, BackfilledIs, EntriesAre
  <1> QED
    BY <1>1, <1>3 DEF Work, Ended

-----------------------------------------------------------------------------
(* Writes that stop half way *)

\* Until the last footer the file is a draft.
LEMMA DraftBegins ==
    ASSUME Shell, Work, src.ok, pc \in {"header", "reserve", "block", "bitmap", "data"}
    PROVE  IsFile(out) /\ Len(out) > 0 /\ out[1] = Footer(src) /\ NoFooter(out)
  <1>1. CASE pc = "header"
    <2>1. out = <<Footer(src)>>
      BY <1>1 DEF Work
    <2>2. out[1] = Footer(src) /\ Len(out) = 1 /\ IsFile(out)
      BY <2>1, Records
    <2> QED
      BY <2>2 DEF NoFooter
  <1>2. CASE pc = "reserve"
    <2>1. out = <<Footer(src), Header(src), Pad>>
      BY <1>2 DEF Work
    <2>2. /\ out[1] = Footer(src) /\ out[2] = Header(src) /\ out[3] = Pad
          /\ Len(out) = 3 /\ IsFile(out)
      BY <2>1, Records
    <2>3. Header(src).tag # "footer" /\ Pad.tag # "footer"
      BY DEF Header, Pad
    <2>4. \A k \in 2 .. 3 : k = 2 \/ k = 3
      OBVIOUS
    <2> QED
      BY <2>2, <2>3, <2>4 DEF NoFooter
  <1>3. CASE pc \in {"block", "bitmap", "data"}
    <2>1. Progress(src, out, i, bat)
      BY <1>3 DEF Work
    <2>2. Start(src) \in Nat /\ Start(src) >= 3 /\ Len(out) \in Nat /\ Len(out) >= Start(src)
      BY <2>1, SizeIs, Counts DEF Progress, Headed, IsFile
    <2> QED
      BY <2>1, <2>2 DEF Progress, Headed
  <1> QED
    BY <1>1, <1>2, <1>3

\* Only the first and the last write append a footer.
LEMMA PendingPlain ==
    ASSUME Shell, Work, src.ok, pc \notin Ended, pc # "footer",
           ~ (pc = "block" /\ i >= NBlocks(src))
    PROVE  NoFooters(Pending)
  <1>0. src.size \in Nat
    BY SizeIs
  <1>1. CASE pc = "header"
    BY <1>1, Records DEF Pending
  <1>2. CASE pc = "reserve"
    BY <1>0, <1>2, TableIs DEF Pending
  <1>3. CASE pc = "bitmap"
    BY <1>3, BitmapIs DEF Pending
  <1>4. CASE pc = "data"
    BY <1>4, DataIs DEF Pending
  <1>5. CASE pc \notin {"header", "reserve", "bitmap", "data"}
    <2>1. Pending = <<>>
      BY <1>5 DEF Pending
    <2> QED
      BY <2>1, Records
  <1> QED
    BY <1>1, <1>2, <1>3, <1>4, <1>5

\* A step without a write leaves the file as it is.
LEMMA NothingTorn ==
    ASSUME Pending = <<>>, IsFile(out), pc # "backfill", Torn
    PROVE  out' = out
  <1>1. PICK n \in 0 .. Len(Pending) : out' = out \o SubSeq(Pending, 1, n)
    BY DEF Torn
  <1> QED
    BY <1>1, NothingPending

\* A write_all that stops half way, or one that does not begin, leaves a draft
\* or a complete file with some of the BAT.
LEMMA TornLeaves ==
    ASSUME Shell, Work, src.ok, pc \notin Ended, Torn
    PROVE  IsFile(out') /\ Left(src, out', bat)
  <1>0. src.size \in Nat /\ NBlocks(src) \in Nat /\ IsFile(out)
    BY SizeIs DEF Work
  <1>1. pc \in {"create", "footer", "header", "reserve", "block", "bitmap", "data",
                "backfill", "remove"}
    BY DEF Shell, Work, NoStore
  <1>2. CASE pc = "create"
    <2>1. Pending = <<>> /\ out = Missing
      BY <1>2 DEF Pending, Work
    <2>2. out' = out
      BY <1>0, <1>2, <2>1, NothingTorn
    <2> QED
      BY <1>0, <2>1, <2>2 DEF Left, Draft
  <1>3. CASE pc = "remove"
    <2>1. Pending = <<>> /\ Left(src, out, bat)
      BY <1>3 DEF Pending, Work
    <2>2. out' = out
      BY <1>0, <1>3, <2>1, NothingTorn
    <2> QED
      BY <1>0, <2>1, <2>2
  <1>4. CASE pc = "footer"
    <2>1. Pending = <<Footer(src)>> /\ out = <<>>
      BY <1>4 DEF Pending, Work
    <2>2. PICK n \in 0 .. Len(Pending) : out' = out \o SubSeq(Pending, 1, n)
      BY <1>4 DEF Torn
    <2>3. IsFile(Pending) /\ Len(Pending) = 1 /\ Pending[1] = Footer(src)
      BY <2>1, Records
    <2> DEFINE p == SubSeq(Pending, 1, n)
    <2>4. IsFile(p) /\ Len(p) = n /\ (n = Len(Pending) => p = Pending)
      BY <2>3, Prefix
    <2>5. Joined(out, p, out')
      BY <1>0, <2>2, <2>4, Appended
    <2>6. n \in {0, 1} /\ Len(out) = 0
      BY <2>1, <2>3
    <2>7. IsFile(out') /\ Len(out') = n
      <3> HIDE DEF p
      <3> QED
        BY <2>4, <2>5, <2>6 DEF Joined, Extended
    <2>8. CASE n = 0
      <3>1. out' = out
        BY <2>4, <2>5, <2>8 DEF Joined
      <3> QED
        BY <2>1, <2>7, <3>1 DEF Left, Draft
    <2>9. CASE n = 1
      <3>1. out'[1] = Footer(src)
        <4>1. p = Pending
          BY <2>3, <2>4, <2>9
        <4>2. 1 \in 1 .. Len(Pending) /\ Len(out) + 1 = 1
          BY <2>3, <2>6
        <4> HIDE DEF p
        <4> QED
          BY <2>3, <2>5, <2>6, <4>1, <4>2 DEF Joined
      <3>2. NoFooter(out')
        BY <2>7, <2>9 DEF NoFooter
      <3> QED
        BY <2>7, <2>9, <3>1, <3>2 DEF Left, Draft
    <2> QED
      BY <2>6, <2>8, <2>9
  <1>5. CASE pc \in {"header", "reserve", "bitmap", "data"} \/ (pc = "block" /\ i < NBlocks(src))
    <2>0. ~ (pc = "block" /\ i >= NBlocks(src)) /\ pc # "backfill" /\ pc # "footer"
      <3>1. CASE pc = "block" /\ i < NBlocks(src)
        <4>1. i \in 0 .. NBlocks(src)
          BY <3>1 DEF Work, Progress
        <4> QED
          BY <1>0, <3>1, <4>1
      <3> QED
        BY <1>5, <3>1
    <2>1. NoFooters(Pending)
      BY <2>0, PendingPlain
    <2>2. PICK n \in 0 .. Len(Pending) : out' = out \o SubSeq(Pending, 1, n)
      BY <2>0 DEF Torn
    <2>3. NoFooters(SubSeq(Pending, 1, n))
      BY <2>1, PrefixPlain
    <2>4. IsFile(out) /\ Len(out) > 0 /\ out[1] = Footer(src) /\ NoFooter(out)
      BY <1>5, DraftBegins
    <2>5. IsFile(out') /\ Draft(src, out')
      BY <2>2, <2>3, <2>4, DraftGrows
    <2> QED
      BY <2>5 DEF Left
  <1>6. CASE pc = "block" /\ i >= NBlocks(src)
    <2>1. Pending = <<Footer(src)>> /\ Progress(src, out, i, bat)
      BY <1>6 DEF Pending, Work
    <2>2. PICK n \in 0 .. Len(Pending) : out' = out \o SubSeq(Pending, 1, n)
      BY <1>6 DEF Torn
    <2>3. IsFile(Pending) /\ Len(Pending) = 1
      BY <2>1, Records
    <2>4. CASE n = 1
      <3>1. SubSeq(Pending, 1, n) = Pending
        BY <2>3, <2>4, Prefix
      <3>2. out' = out \o <<Footer(src)>>
        BY <2>1, <2>2, <3>1
      <3>3. /\ IsFile(out') /\ Image(src, out', AllHoles(src))
            /\ Blocks(src, out', bat, NBlocks(src))
        BY <1>0, <1>6, <2>1, <3>2, ImageFinished
      <3> QED
        BY <1>0, <2>1, <3>3, ImageLeft DEF Progress
    <2>5. CASE n = 0
      <3>1. IsFile(SubSeq(Pending, 1, n)) /\ Len(SubSeq(Pending, 1, n)) = 0
        BY <2>3, <2>5, Prefix
      <3>2. out' = out
        BY <1>0, <2>2, <3>1, Appended DEF Joined
      <3>3. Len(out) > 0 /\ out[1] = Footer(src) /\ NoFooter(out)
        BY <1>6, DraftBegins
      <3> QED
        BY <1>0, <3>2, <3>3 DEF Left, Draft
    <2> QED
      BY <2>3, <2>4, <2>5
  <1>7. CASE pc = "backfill"
    <2>1. Pending = <<>>
      BY <1>7 DEF Pending
    <2>2. /\ bat \in [1 .. NBlocks(src) -> Numbers]
          /\ Blocks(src, out, bat, NBlocks(src)) /\ Image(src, out, AllHoles(src))
      BY <1>7 DEF Work
    <2>3. CASE \E n \in 0 .. Len(Pending) : out' = out \o SubSeq(Pending, 1, n)
      <3>1. PICK n \in 0 .. Len(Pending) : out' = out \o SubSeq(Pending, 1, n)
        BY <2>3
      <3>2. out' = out
        BY <1>0, <2>1, <3>1, NothingPending
      <3> QED
        BY <1>0, <2>2, <3>2, ImageLeft
    <2>4. CASE \E n \in 0 .. NBlocks(src) - 1 : out' = Backfilled(n)
      <3>1. PICK n \in 0 .. NBlocks(src) : out' = Backfilled(n)
        BY <1>0, <2>4
      <3>2. /\ IsFile(out') /\ Image(src, out', Entries(src, bat, n))
            /\ Blocks(src, out', bat, NBlocks(src))
        BY <1>7, <3>1, BackfilledIs
      <3> QED
        BY <2>2, <3>2 DEF Left
    <2> QED
      BY <2>3, <2>4 DEF Torn
  <1>8. pc = "block" => i < NBlocks(src) \/ i >= NBlocks(src)
    BY <1>0 DEF Work, Progress
  <1> QED
    BY <1>1, <1>2, <1>3, <1>4, <1>5, <1>6, <1>7, <1>8

\* A write that fails keeps Work.
LEMMA WriteFailsWorks ==
    ASSUME Shell, Work, WriteFails
    PROVE  Work'
  <1>1. /\ pc \notin Ended /\ src.ok /\ Fits(src) /\ pc' = "remove"
        /\ UNCHANGED <<input, before, src, i, bat, next>>
    BY DEF WriteFails, Work, Ended
  <1>2. IsFile(out') /\ Left(src, out', bat)
    BY <1>1, TornLeaves DEF WriteFails
  <1> QED
    BY <1>1, <1>2 DEF Work, Ended

\* The removal of the output keeps Work.
LEMMA RemoveWorks ==
    ASSUME Shell, Work, Remove
    PROVE  Work'
  <1>1. /\ pc = "remove" /\ src.ok /\ Fits(src) /\ Left(src, out, bat) /\ IsFile(out)
        /\ UNCHANGED <<input, before, src, i, bat, next>>
    BY DEF Remove, Work
  <1>2. CASE out' = Missing /\ pc' = "failure"
    BY <1>1, <1>2, OldFiles DEF Work, Ended
  <1>3. CASE out' = out /\ pc' = "leftover"
    BY <1>1, <1>3 DEF Work, Ended
  <1> QED
    BY <1>2, <1>3 DEF Remove

\* A killed process keeps Work.
LEMMA KillWorks ==
    ASSUME Shell, Work, Kill
    PROVE  Work'
  <1>1. pc \notin Ended /\ pc' = "killed" /\ UNCHANGED <<input, before, src, i, bat, next>>
    BY DEF Kill
  <1>2. CASE src.ok
    <2>1. IsFile(out') /\ Left(src, out', bat)
      BY <1>1, <1>2, TornLeaves DEF Kill
    <2> QED
      BY <1>1, <2>1 DEF Work, Ended
  <1>3. CASE ~ src.ok
    <2>1. pc = "start"
      BY <1>1, <1>3 DEF Work, Ended
    <2>2. Pending = <<>> /\ pc # "backfill"
      BY <2>1 DEF Pending
    <2>3. out' = out
      BY <2>2, NothingTorn DEF Kill, Work
    <2> QED
      BY <1>1, <1>3, <2>3 DEF Work, Ended
  <1> QED
    BY <1>2, <1>3

-----------------------------------------------------------------------------
(* The theorems about the output *)

\* Every step keeps Work.
LEMMA WorkKept ==
    ASSUME SourcesFit, Shell, Work, [Next]_vars
    PROVE  Work'
  <1>1. CASE UNCHANGED vars
    BY <1>1 DEF vars, Work
  <1>2. CASE Next
    BY <1>2, OpenInputWorks, CreateWorks, WriteFooterCopyWorks, WriteHeaderWorks,
       ReserveBatWorks, ReadBlockWorks, WriteBitmapWorks, WriteBlockWorks, WriteFooterWorks,
       BackfillWorks, WriteFailsWorks, RemoveWorks, KillWorks DEF Next
  <1> QED
    BY <1>1, <1>2

\* At every step of write_dynamic_vhd the blocks that were read are stored
\* where the BAT will say, behind a head without an entry, for every input
\* whose copy fits the 32-bit sector numbers.
THEOREM WorkHolds ==
    ASSUME SourcesFit
    PROVE  Spec => []Work
  <1>1. Shell /\ Work /\ [Next]_vars => Work'
    BY WorkKept
  <1> QED
    BY <1>1, ShellHolds, WorkInit, PTL DEF Spec

\* After a run of write_dynamic_vhd that reports success, the output is a
\* dynamic VHD of the input's size with the input's bytes.
THEOREM FlattenExactly ==
    ASSUME SourcesFit
    PROVE  Spec => []FlattenExact
  <1>1. ASSUME Shell, Work
        PROVE  FlattenExact
    <2>1. CASE pc # "success"
      BY <2>1 DEF FlattenExact
    <2>2. CASE pc = "success"
      <3>1. /\ src.ok /\ bat \in [1 .. NBlocks(src) -> Numbers]
            /\ Blocks(src, out, bat, NBlocks(src)) /\ Image(src, out, bat)
        BY <1>1, <2>2 DEF Work, Ended
      <3>2. StoreOk(src)
        BY <1>1, <3>1 DEF Shell
      <3> QED
        BY <3>1, <3>2, CopyExact DEF FlattenExact
    <2> QED
      BY <2>1, <2>2
  <1> QED
    BY <1>1, ShellHolds, WorkHolds, PTL

\* What an interrupted run of write_dynamic_vhd leaves behind shows the input's
\* bytes or zeros, block for block.
THEOREM NothingForeign ==
    ASSUME SourcesFit
    PROVE  Spec => []NoForeignBytes
  <1> DEFINE flat == OpenBacking("flat", "vhd", out, <<>>)
             Block(v, b) == ReadAt(v, b * BlockBytes, Least({BlockBytes, v.size - b * BlockBytes}))
  <1>1. ASSUME Shell, Work
        PROVE  NoForeignBytes
    <2>1. SUFFICES ASSUME pc \in {"killed", "leftover"}, src.ok, out # Missing,
                          flat.kind = "dynamic",
                          NEW b \in 0 .. NBlocks(src) - 1
                   PROVE  AllZero(Block(flat, b).bytes) \/ Block(flat, b) = Block(src, b)
      BY DEF NoForeignBytes
    <2>2. Left(src, out, bat)
      BY <1>1, <2>1 DEF Work
    <2>3. ~ Draft(src, out)
      BY <2>1, DraftOpens
    <2>4. src.size \in Nat /\ StoreOk(src)
      BY <1>1, <2>1, SizeIs DEF Shell
    <2>5. PICK n \in 0 .. NBlocks(src) : Holds(src, out, Entries(src, bat, n))
      BY <2>2, <2>3, <2>4, LeftHolds
    <2>6. PICK c : c = Entries(src, bat, n)
      OBVIOUS
    <2>7. flat = Flat(src, out, c)
      BY <2>4, <2>5, <2>6, ImageOpens
    <2>8. flat.size = src.size
      BY <2>7 DEF Flat
    <2>9. Block(flat, b) = ReadAt(Flat(src, out, c), b * BlockBytes, Span(src, b))
      BY <2>7, <2>8 DEF Span
    <2>10. Block(src, b) = ReadAt(src, b * BlockBytes, Span(src, b))
      BY DEF Span
    <2> HIDE DEF flat, Block
    <2> QED
      BY <2>4, <2>5, <2>6, <2>9, <2>10, CopyBlock
  <1> QED
    BY <1>1, ShellHolds, WorkHolds, PTL

-----------------------------------------------------------------------------
(* The order of the directory *)

\* The entries of the directory that are increments, and the place among them
\* that the number of one gives it.
Members(S, stem, ext) ==
    {e \in S : e.stem = stem /\ e.ext = ext /\ e.num \in 0 .. MaxNumber}
Place(T, e) == Cardinality({x \in T : x.num < e.num}) + 1

\* No two increments have the same number.
Numbered(T) ==
    /\ \A e \in T : e.num \in Int
    /\ \A e, f \in T : e.num = f.num => e = f

\* A place belongs to one increment.
LEMMA PlaceOfOne ==
    ASSUME NEW T, IsFiniteSet(T), Numbered(T), NEW e \in T, NEW f \in T,
           Place(T, e) = Place(T, f)
    PROVE  e = f
  <1> DEFINE B(x) == {y \in T : y.num < x.num}
  <1>1. ASSUME NEW x \in T
        PROVE  IsFiniteSet(B(x)) /\ Cardinality(B(x)) \in Nat /\ Place(T, x) = Cardinality(B(x)) + 1
    <2>1. B(x) \subseteq T
      OBVIOUS
    <2>2. Place(T, x) = Cardinality(B(x)) + 1
      BY DEF Place
    <2> HIDE DEF B
    <2> QED
      BY <2>1, <2>2, FS_Subset, FS_CardinalityType
  <1>2. ASSUME NEW x \in T, NEW y \in T, x.num < y.num
        PROVE  Place(T, x) # Place(T, y)
    <2>1. PICK a \in Int, b \in Int : a = x.num /\ b = y.num /\ a < b
      BY <1>2 DEF Numbered
    <2>2. B(x) \subseteq B(y)
      <3>1. ASSUME NEW z \in B(x) PROVE z \in B(y)
        <4>1. z \in T /\ z.num \in Int /\ z.num < a
          BY <2>1 DEF Numbered
        <4>2. z.num < b
          BY <2>1, <4>1
        <4> QED
          BY <2>1, <4>1, <4>2
      <3> QED
        BY <3>1
    <2>3. x \in B(y) /\ x \notin B(x)
      BY <2>1
    <2>4. B(x) # B(y)
      BY <2>3
    <2> HIDE DEF B
    <2>5. Cardinality(B(x)) < Cardinality(B(y))
      BY <1>1, <2>2, <2>4, FS_Subset
    <2> QED
      BY <1>1, <2>5
  <1>3. e.num \in Int /\ f.num \in Int
    BY DEF Numbered
  <1>4. CASE e.num = f.num
    BY <1>4 DEF Numbered
  <1>5. CASE e.num # f.num
    <2>1. e.num < f.num \/ f.num < e.num
      BY <1>3, <1>5
    <2> QED
      BY <1>2, <2>1
  <1> QED
    BY <1>4, <1>5

\* What find_increments returns at place r, from a directory listed in any order.
LEMMA Listed ==
    ASSUME NEW S, IsFiniteSet(S), NEW stem, NEW ext, Numbered(Members(S, stem, ext)),
           NEW o \in Orders(S), NEW incs, incs = FindIncrements(stem, ext, o)
    PROVE  LET T == Members(S, stem, ext)
           IN  /\ incs = [r \in 1 .. Cardinality(T) |-> incs[r]]
               /\ \A r \in 1 .. Cardinality(T) : incs[r] \in T /\ Place(T, incs[r]) = r
  <1> DEFINE T == Members(S, stem, ext)
             N == Cardinality(S)
             found == Matches(stem, ext, o)
             Below(e) == {x \in T : x.num < e.num}
  <1>1. N \in Nat /\ o \in [1 .. N -> S] /\ \A e \in S : \E k \in 1 .. N : o[k] = e
    BY FS_CardinalityType DEF Orders
  <1> HIDE DEF N
  <1>2. \A j, k \in 1 .. N : o[j] = o[k] => j = k
    <2>1. o \in Surjection(1 .. N, S)
      BY <1>1 DEF Surjection
    <2>2. IsFiniteSet(1 .. N) /\ Cardinality(1 .. N) = N
      BY <1>1, FS_Interval
    <2>3. o \in Injection(1 .. N, S)
      <3>1. Cardinality(S) = Cardinality(1 .. N)
        BY <2>2 DEF N
      <3> QED
        BY <2>1, <2>2, <3>1, FS_Surjection
    <2> QED
      BY <2>3 DEF Injection, IsInjective
  <1>3. found \in SUBSET (1 .. N) /\ \A k \in found : o[k] \in T /\ o[k].num \in Int
    BY <1>1 DEF Matches, Members
  <1>4. \A e \in T : e.num \in Int /\ \E k \in found : o[k] = e
    BY <1>1 DEF Matches, Members
  <1>5. incs = [r \in 1 .. Cardinality(found) |-> o[CHOOSE k \in found : RankOf(found, o, k) = r]]
    BY DEF FindIncrements, Matches, RankOf, Older
  <1>6. Numbered(T) /\ IsFiniteSet(T)
    <2>1. T \subseteq S
      BY DEF Members
    <2> QED
      BY <2>1, FS_Subset
  <1> HIDE DEF T, found
  <1>7. IsFiniteSet(found)
    <2>1. IsFiniteSet(1 .. N)
      BY <1>1, FS_Interval
    <2> QED
      BY <1>3, <2>1, FS_Subset
  \* Positions in the listing and increments correspond.
  <1>8. ASSUME NEW A \in SUBSET found, NEW B \in SUBSET T,
               \A k \in found : k \in A <=> o[k] \in B
        PROVE  Cardinality(A) = Cardinality(B)
    <2> DEFINE g == [k \in A |-> o[k]]
    <2>1. \A k \in A : k \in found /\ k \in 1 .. N /\ o[k] \in B
      BY <1>3, <1>8
    <2>2. g \in [A -> B]
      BY <2>1
    <2>3. \A j, k \in A : g[j] = g[k] => j = k
      BY <1>2, <2>1
    <2>4. \A e \in B : \E k \in A : g[k] = e
      BY <1>4, <1>8
    <2> HIDE DEF g
    <2>5. g \in Bijection(A, B)
      BY <2>2, <2>3, <2>4 DEF Bijection, Injection, Surjection, IsInjective
    <2>6. IsFiniteSet(A)
      BY <1>7, FS_Subset
    <2> QED
      BY <2>5, <2>6, FS_Bijection DEF ExistsBijection
  <1>9. Cardinality(found) = Cardinality(T)
    BY <1>3, <1>8
  <1>10. ASSUME NEW k \in found PROVE RankOf(found, o, k) = Place(T, o[k])
    <2>1. {j \in found : Older(o, j, k)} \in SUBSET found /\ Below(o[k]) \in SUBSET T
      OBVIOUS
    <2>2. ASSUME NEW j \in found
          PROVE  j \in {i_ \in found : Older(o, i_, k)} <=> o[j] \in Below(o[k])
      <3>1. PICK a \in Int, b \in Int : a = o[j].num /\ b = o[k].num
        BY <1>3
      <3>2. a = b => j = k
        <4>1. ASSUME a = b PROVE o[j] = o[k]
          BY <1>3, <1>6, <3>1, <4>1 DEF Numbered
        <4> QED
          BY <1>2, <1>3, <4>1
      <3>3. ~(j = k /\ j < k)
        <4>1. j \in Int /\ k \in Int
          BY <1>1, <1>3
        <4> QED
          BY <4>1
      <3>4. Older(o, j, k) <=> o[j].num < o[k].num
        BY <3>1, <3>2, <3>3 DEF Older
      <3> QED
        BY <1>3, <3>4
    <2>3. Cardinality({j \in found : Older(o, j, k)}) = Cardinality(Below(o[k]))
      BY <1>8, <2>1, <2>2
    <2> QED
      BY <2>3 DEF RankOf, Place
  <1>11. ASSUME NEW r \in 1 .. Cardinality(T)
         PROVE  incs[r] \in T /\ Place(T, incs[r]) = r
    <2>1. \E k \in found : RankOf(found, o, k) = r
      <3>1. r \in 1 .. Cardinality(found)
        BY <1>9
      <3>2. \A k \in found : o[k].num \in Int
        BY <1>3
      <3> HIDE DEF Below
      <3> QED
        BY <1>1, <1>3, <3>1, <3>2, RankOnto
    <2>2. PICK k \in found : RankOf(found, o, k) = r /\ incs[r] = o[k]
      BY <1>5, <1>9, <2>1
    <2> QED
      BY <1>3, <1>10, <2>2
  <1>12. incs = [r \in 1 .. Cardinality(T) |-> incs[r]]
    BY <1>5, <1>9
  <1> QED
    BY <1>11, <1>12 DEF T

\* read_dir lists a directory in any order.  As long as no two increments of an
\* image have the same number, find_increments sorts them, and open_backing opens
\* the same store whatever the order was.
THEOREM DirectoryOrder ==
    ASSUME NEW S, IsFiniteSet(S), NEW stem, NEW ext, NEW f,
           Numbered(Members(S, stem, ext)),
           NEW o \in Orders(S), NEW p \in Orders(S)
    PROVE  OpenBacking(stem, ext, f, o) = OpenBacking(stem, ext, f, p)
  <1> DEFINE T == Members(S, stem, ext)
  <1>1. PICK a, b : a = FindIncrements(stem, ext, o) /\ b = FindIncrements(stem, ext, p)
    OBVIOUS
  <1>2. /\ a = [r \in 1 .. Cardinality(T) |-> a[r]]
        /\ \A r \in 1 .. Cardinality(T) : a[r] \in T /\ Place(T, a[r]) = r
    BY <1>1, Listed
  <1>3. /\ b = [r \in 1 .. Cardinality(T) |-> b[r]]
        /\ \A r \in 1 .. Cardinality(T) : b[r] \in T /\ Place(T, b[r]) = r
    BY <1>1, Listed
  <1>4. IsFiniteSet(T)
    <2>1. T \subseteq S
      BY DEF Members
    <2> QED
      BY <2>1, FS_Subset
  <1> HIDE DEF T
  <1>5. \A r \in 1 .. Cardinality(T) : a[r] = b[r]
    BY <1>2, <1>3, <1>4, PlaceOfOne DEF T
  <1>6. a = b
    BY <1>2, <1>3, <1>5
  <1> QED
    BY <1>1, <1>6 DEF OpenBacking

=============================================================================
