--------------------------- MODULE HbSplitProofs ---------------------------
(***************************************************************************)
(* A grid of any size is decomposed into boxes that are no larger than     *)
(* asked for and contain every block once (GridDecomposed).                *)
(*                                                                         *)
(* From this, for any number of threads and launches: whoever submits the  *)
(* parts of a launch, however the listeners interfere, every block is      *)
(* executed once (ExecutedOnce) and no group keeps its commands            *)
(* (GroupsReleased); if one thread has launches, one part is in flight at  *)
(* most (PreemptionDelay).                                                 *)
(***************************************************************************)
EXTENDS HbSplit, SequenceTheorems, NaturalsInduction, FiniteSetTheorems, TLAPS

Grid == [Axes -> Nat]

-----------------------------------------------------------------------------
(* One division of a box *)

\* The larger of two numbers.
LEMMA MaxOfTwo ==
  ASSUME NEW x \in Int, NEW y \in Int
  PROVE  Max({x, y}) = IF x >= y THEN x ELSE y
<1>1. \E z \in {x, y} : \A w \in {x, y} : z >= w
  OBVIOUS
<1>2. Max({x, y}) \in {x, y} /\ \A w \in {x, y} : Max({x, y}) >= w
  BY <1>1 DEF Max
<1> QED BY <1>2

\* The smaller of two numbers.
LEMMA MinOfTwo ==
  ASSUME NEW x \in Int, NEW y \in Int
  PROVE  Min({x, y}) = IF x <= y THEN x ELSE y
<1>1. \E z \in {x, y} : \A w \in {x, y} : z <= w
  OBVIOUS
<1>2. Min({x, y}) \in {x, y} /\ \A w \in {x, y} : Min({x, y}) <= w
  BY <1>1 DEF Min
<1> QED BY <1>2

\* The number of blocks of a grid is a number.
LEMMA VolumeType ==
  ASSUME NEW g \in Grid
  PROVE  Volume(g) \in Nat /\ g[1] \in Nat /\ g[2] \in Nat /\ g[3] \in Nat
<1>1. g[1] \in Nat /\ g[2] \in Nat /\ g[3] \in Nat
  BY DEF Grid, Axes
<1>2. \A x, y \in Nat : x * y \in Nat
  OBVIOUS
<1>3. g[1] * g[2] \in Nat
  BY <1>1, <1>2
<1>4. g[1] * g[2] * g[3] \in Nat
  BY <1>1, <1>2, <1>3
<1> QED BY <1>1, <1>4 DEF Volume

\* A box that has to be divided has no empty axis, and the longest one has two
\* blocks at least.
LEMMA LongestAxisDivides ==
  ASSUME NEW g \in Grid, NEW most \in Nat \ {0}, Volume(g) > most
  PROVE  /\ LongestAxis(g) \in Axes /\ g[LongestAxis(g)] >= 2
         /\ \A i \in Axes : g[i] >= 1
<1>1. g[1] \in Nat /\ g[2] \in Nat /\ g[3] \in Nat
  BY VolumeType
<1>2. g[1] >= 1 /\ g[2] >= 1 /\ g[3] >= 1
  <2>1. \A x, y, z \in Nat : x * y * z > 0 => x >= 1 /\ y >= 1 /\ z >= 1
    <3> SUFFICES ASSUME NEW x \in Nat, NEW y \in Nat, NEW z \in Nat, x * y * z > 0
                 PROVE  x # 0 /\ y # 0 /\ z # 0
      OBVIOUS
    <3> QED OBVIOUS
  <2>2. g[1] * g[2] * g[3] > 0
    BY VolumeType DEF Volume
  <2> QED BY <1>1, <2>1, <2>2
<1>3. g[1] >= 2 \/ g[2] >= 2 \/ g[3] >= 2
  <2> SUFFICES ASSUME g[1] = 1, g[2] = 1, g[3] = 1 PROVE FALSE
    BY <1>1, <1>2
  <2> QED BY DEF Volume
<1>4. LongestAxis(g) \in Axes /\ g[LongestAxis(g)] >= 2
  BY <1>1, <1>3 DEF LongestAxis, Axes
<1> QED BY <1>2, <1>4 DEF Axes

\* Both parts of an axis that is divided have a block.
LEMMA LeftLengthInside ==
  ASSUME NEW g \in Grid, NEW a \in Axes, NEW most \in Nat \ {0}, g[a] >= 2
  PROVE  LeftLength(g, a, most) \in 1..(g[a] - 1)
<1> DEFINE d == Max({1, Volume(g) \div g[a]})
           m == Min({g[a], most \div d})
           left == Max({1, m})
<1>1. g[a] \in Nat /\ Volume(g) \in Nat
  BY VolumeType DEF Grid
<1>2. \A x \in Nat, y \in Nat \ {0} : x \div y \in Nat
  OBVIOUS
<1>3. Volume(g) \div g[a] \in Nat
  BY <1>1, <1>2
<1>4. d \in Nat \ {0}
  BY <1>3, MaxOfTwo
<1> HIDE DEF d
<1>5. most \div d \in Nat
  BY <1>2, <1>4
<1>6. m \in Nat
  BY <1>1, <1>5, MinOfTwo
<1> HIDE DEF m
<1>7. left \in Nat /\ left >= 1
  BY <1>6, MaxOfTwo
<1>8. LeftLength(g, a, most) = IF left >= g[a] THEN Max({1, g[a] \div 2}) ELSE left
  BY DEF LeftLength, left, m, d
<1> HIDE DEF left
<1>9. g[a] \div 2 \in 1..(g[a] - 1)
  BY <1>1
<1>10. Max({1, g[a] \div 2}) = g[a] \div 2
  BY <1>9, MaxOfTwo
<1> QED BY <1>1, <1>7, <1>8, <1>9, <1>10

\* The two parts of a box, as the recursion names them.
First(b, most) ==
  LET a == LongestAxis(b.len) IN [b EXCEPT !.len[a] = LeftLength(b.len, a, most)]
Second(b, most) ==
  LET a == LongestAxis(b.len) IN RightPart(b, a, LeftLength(b.len, a, most))

\* The parts are boxes that have blocks, and fewer than the whole; they agree with it
\* on the other axes and are next to each other on the longest one.
LEMMA DividedInTwo ==
  ASSUME NEW b \in Boxes, NEW most \in Nat \ {0}, Volume(b.len) > most
  PROVE  LET p == First(b, most)
             q == Second(b, most)
             a == LongestAxis(b.len)
         IN /\ p \in Boxes /\ q \in Boxes
            /\ Volume(p.len) < Volume(b.len) /\ Volume(q.len) < Volume(b.len)
            /\ a \in Axes
            /\ p.off = b.off /\ p.len[a] \in 1..(b.len[a] - 1)
            /\ q.off[a] = b.off[a] + p.len[a] /\ q.len[a] = b.len[a] - p.len[a]
            /\ \A i \in Axes \ {a} : /\ p.len[i] = b.len[i] /\ q.len[i] = b.len[i]
                                     /\ q.off[i] = b.off[i]
<1> DEFINE p == First(b, most)
           q == Second(b, most)
           a == LongestAxis(b.len)
           left == LeftLength(b.len, a, most)
<1>1. b.len \in Grid /\ b.off \in Grid
  BY DEF Boxes, Grid
<1>2. a \in Axes /\ b.len[a] >= 2 /\ \A i \in Axes : b.len[i] >= 1
  BY <1>1, LongestAxisDivides
<1>3. left \in 1..(b.len[a] - 1)
  BY <1>1, <1>2, LeftLengthInside
<1>4. \A i \in Axes : b.len[i] \in Nat /\ b.off[i] \in Nat
  BY <1>1 DEF Grid
<1>5. p = [b EXCEPT !.len[a] = left] /\ q = [b EXCEPT !.off[a] = @ + left, !.len[a] = @ - left]
  BY DEF First, Second, RightPart
<1> HIDE DEF p, q, left, a
<1>6. p.off = b.off /\ p.len = [b.len EXCEPT ![a] = left]
  BY <1>5 DEF Boxes
<1>7. q.off = [b.off EXCEPT ![a] = @ + left] /\ q.len = [b.len EXCEPT ![a] = @ - left]
  BY <1>5 DEF Boxes
<1>8. p \in Boxes /\ q \in Boxes
  <2>1. b.len[a] - left \in Nat /\ b.off[a] + left \in Nat /\ left \in Nat
    BY <1>2, <1>3, <1>4
  <2>2. p.len \in Grid /\ q.len \in Grid /\ q.off \in Grid
    BY <1>1, <1>6, <1>7, <2>1 DEF Grid
  <2>3. p = [off |-> p.off, len |-> p.len] /\ q = [off |-> q.off, len |-> q.len]
    BY <1>5 DEF Boxes
  <2> QED BY <1>1, <1>6, <2>2, <2>3 DEF Boxes, Grid
<1>9. /\ p.len[a] = left /\ q.off[a] = b.off[a] + left /\ q.len[a] = b.len[a] - left
      /\ \A i \in Axes \ {a} : /\ p.len[i] = b.len[i] /\ q.len[i] = b.len[i]
                               /\ q.off[i] = b.off[i]
  BY <1>1, <1>2, <1>6, <1>7 DEF Grid
<1>10. Volume(p.len) < Volume(b.len) /\ Volume(q.len) < Volume(b.len)
  <2>1. \A x, y, z \in Nat : x < y /\ z >= 1 => x * z < y * z
    OBVIOUS
  <2>2. \A x, y, z \in Nat : x * y * z = x * (y * z) /\ x * y * z = y * (x * z) /\ x * y * z = z * (x * y)
    OBVIOUS
  <2>3. \A y, z \in Nat \ {0} : y * z \in Nat \ {0}
    OBVIOUS
  <2>4. \A x, w, y, z \in Nat \ {0} :
          x < w => /\ x * y * z < w * y * z /\ y * x * z < y * w * z /\ y * z * x < y * z * w
    <3> SUFFICES ASSUME NEW x \in Nat \ {0}, NEW w \in Nat \ {0}, NEW y \in Nat \ {0},
                        NEW z \in Nat \ {0}, x < w
                 PROVE  /\ x * y * z < w * y * z /\ y * x * z < y * w * z
                        /\ y * z * x < y * z * w
      OBVIOUS
    <3> DEFINE v == y * z
    <3>1. v \in Nat \ {0}
      BY <2>3
    <3>2. /\ x * y * z = x * v /\ w * y * z = w * v /\ y * x * z = x * v
          /\ y * w * z = w * v /\ y * z * x = x * v /\ y * z * w = w * v
      OBVIOUS
    <3> HIDE DEF v
    <3>3. x * v < w * v
      BY <2>1, <3>1
    <3> QED BY <3>2, <3>3
  <2>5. /\ b.len[1] \in Nat \ {0} /\ b.len[2] \in Nat \ {0} /\ b.len[3] \in Nat \ {0}
        /\ left \in Nat \ {0} /\ left < b.len[a]
        /\ b.len[a] - left \in Nat \ {0} /\ b.len[a] - left < b.len[a]
    BY <1>2, <1>3, <1>4 DEF Axes
  <2>6. CASE a = 1
    <3>1. /\ p.len[1] = left /\ p.len[2] = b.len[2] /\ p.len[3] = b.len[3]
          /\ q.len[1] = b.len[1] - left /\ q.len[2] = b.len[2] /\ q.len[3] = b.len[3]
      BY <1>9, <2>6 DEF Axes
    <3>2. left < b.len[1] /\ b.len[1] - left \in Nat \ {0} /\ b.len[1] - left < b.len[1]
      BY <2>5, <2>6
    <3> QED BY <2>4, <2>5, <3>1, <3>2 DEF Volume
  <2>7. CASE a = 2
    <3>1. /\ p.len[2] = left /\ p.len[1] = b.len[1] /\ p.len[3] = b.len[3]
          /\ q.len[2] = b.len[2] - left /\ q.len[1] = b.len[1] /\ q.len[3] = b.len[3]
      BY <1>9, <2>7 DEF Axes
    <3>2. left < b.len[2] /\ b.len[2] - left \in Nat \ {0} /\ b.len[2] - left < b.len[2]
      BY <2>5, <2>7
    <3> QED BY <2>4, <2>5, <3>1, <3>2 DEF Volume
  <2>8. CASE a = 3
    <3>1. /\ p.len[3] = left /\ p.len[1] = b.len[1] /\ p.len[2] = b.len[2]
          /\ q.len[3] = b.len[3] - left /\ q.len[1] = b.len[1] /\ q.len[2] = b.len[2]
      BY <1>9, <2>8 DEF Axes
    <3>2. left < b.len[3] /\ b.len[3] - left \in Nat \ {0} /\ b.len[3] - left < b.len[3]
      BY <2>5, <2>8
    <3> QED BY <2>4, <2>5, <3>1, <3>2 DEF Volume
  <2> QED BY <1>2, <2>6, <2>7, <2>8 DEF Axes
<1>11. p.len[a] \in 1..(b.len[a] - 1)
  BY <1>3, <1>9
<1>12. q.off[a] = b.off[a] + p.len[a] /\ q.len[a] = b.len[a] - p.len[a]
  BY <1>9
<1> QED BY <1>2, <1>6, <1>8, <1>9, <1>10, <1>11, <1>12 DEF p, q, a

-----------------------------------------------------------------------------
(* The recursion ends: it determines the decomposition of every box        *)

\* A set of numbers has a least one.
LEMMA LeastNumber ==
  ASSUME NEW S \in SUBSET Nat, S # {}
  PROVE  \E n \in S : \A k \in S : n <= k
<1> DEFINE R == {ss \in Nat \X Nat : ss[1] < ss[2]}
<1>1. IsWellFoundedOn(R, Nat)
  BY NatLessThanWellFounded DEF OpToRel
<1>2. PICK n \in S : \A k \in S : <<k, n>> \notin R
  <2> HIDE DEF R
  <2> QED BY <1>1, WFMin
<1>3. \A k \in S : ~(k < n)
  BY <1>2
<1> QED BY <1>3

\* What the recursion makes of a box, from what f makes of smaller ones.
Step(f, b, most) ==
  IF Volume(b.len) = 0 THEN <<>>
  ELSE IF Volume(b.len) <= most THEN <<b>>
  ELSE f[First(b, most)] \o f[Second(b, most)]

\* f decomposes the boxes of at most n blocks.
UpTo(n) == {b \in Boxes : Volume(b.len) <= n}
Solves(f, n, most) == f = [b \in UpTo(n) |-> Step(f, b, most)]

\* The parts of a box that is divided are smaller.
LEMMA PartsUpTo ==
  ASSUME NEW most \in Nat \ {0}, NEW b \in Boxes, Volume(b.len) > most
  PROVE  /\ Volume(b.len) \in Nat
         /\ First(b, most) \in Boxes /\ Volume(First(b, most).len) \in Nat
         /\ Second(b, most) \in Boxes /\ Volume(Second(b, most).len) \in Nat
         /\ Volume(First(b, most).len) < Volume(b.len)
         /\ Volume(Second(b, most).len) < Volume(b.len)
<1>1. \A c \in Boxes : Volume(c.len) \in Nat
  BY VolumeType DEF Boxes, Grid
<1> QED BY <1>1, DividedInTwo

\* Two solutions agree.
LEMMA SolutionsAgree ==
  ASSUME NEW most \in Nat \ {0}, NEW n \in Nat, NEW m \in Nat, NEW f, NEW g,
         Solves(f, n, most), Solves(g, m, most),
         NEW c \in UpTo(n) \cap UpTo(m)
  PROVE  f[c] = g[c]
<1> DEFINE S == {k \in Nat : \E b \in UpTo(n) \cap UpTo(m) : Volume(b.len) = k /\ f[b] # g[b]}
<1>1. \A b \in Boxes : Volume(b.len) \in Nat
  BY VolumeType DEF Boxes, Grid
<1> SUFFICES ASSUME S # {} PROVE FALSE
  BY <1>1 DEF UpTo
<1>2. PICK k \in S : \A l \in S : k <= l
  BY LeastNumber
<1>3. PICK b \in UpTo(n) \cap UpTo(m) : Volume(b.len) = k /\ f[b] # g[b]
  BY <1>2
<1>4. \A d \in UpTo(n) \cap UpTo(m) : Volume(d.len) < k => f[d] = g[d]
  BY <1>1, <1>2 DEF UpTo
<1> HIDE DEF S
<1>5. f[b] = Step(f, b, most) /\ g[b] = Step(g, b, most)
  BY <1>3 DEF Solves
<1>6. CASE Volume(b.len) > most
  <2>1. /\ First(b, most) \in UpTo(n) \cap UpTo(m) /\ Volume(First(b, most).len) < k
        /\ Second(b, most) \in UpTo(n) \cap UpTo(m) /\ Volume(Second(b, most).len) < k
    BY <1>3, <1>6, PartsUpTo DEF UpTo
  <2> QED BY <1>3, <1>4, <1>5, <2>1 DEF Step
<1>7. CASE ~(Volume(b.len) > most)
  <2>1. Volume(b.len) <= most
    BY <1>1, <1>7 DEF UpTo
  <2> QED BY <1>3, <1>5, <2>1 DEF Step
<1> QED BY <1>6, <1>7

\* There is a solution for boxes of any size.
LEMMA SolutionExists ==
  ASSUME NEW most \in Nat \ {0}, NEW n \in Nat
  PROVE  \E f : Solves(f, n, most)
<1> DEFINE S == {k \in Nat : ~\E f : Solves(f, k, most)}
<1> SUFFICES ASSUME S # {} PROVE FALSE
  OBVIOUS
<1>1. PICK k \in S : \A l \in S : k <= l
  BY LeastNumber
<1>2. ~\E f : Solves(f, k, most)
  BY <1>1
<1>3. \A b \in Boxes : Volume(b.len) \in Nat
  BY VolumeType DEF Boxes, Grid
<1>4. CASE k = 0
  <2> DEFINE f == [b \in UpTo(0) |-> <<>>]
  <2>1. \A b \in UpTo(0) : Step(f, b, most) = <<>>
    BY <1>3 DEF UpTo, Step
  <2>2. f = [b \in UpTo(0) |-> Step(f, b, most)]
    BY <2>1
  <2> QED BY <1>2, <1>4, <2>2 DEF Solves
<1>5. CASE k # 0
  <2>1. k - 1 \in Nat /\ k - 1 \notin S
    BY <1>1, <1>5
  <2>2. PICK f : Solves(f, k - 1, most)
    BY <2>1
  <2> DEFINE g == [b \in UpTo(k) |-> Step(f, b, most)]
  <2>3. ASSUME NEW b \in UpTo(k - 1) PROVE g[b] = f[b]
    <3>1. b \in UpTo(k)
      BY <1>1, <1>3 DEF UpTo
    <3> QED BY <2>2, <3>1 DEF Solves
  <2>4. ASSUME NEW b \in UpTo(k) PROVE Step(f, b, most) = Step(g, b, most)
    <3>1. CASE Volume(b.len) > most
      <4>1. First(b, most) \in UpTo(k - 1) /\ Second(b, most) \in UpTo(k - 1)
        BY <1>1, <3>1, PartsUpTo DEF UpTo
      <4>2. /\ g[First(b, most)] = f[First(b, most)]
            /\ g[Second(b, most)] = f[Second(b, most)]
        BY <2>3, <4>1
      <4> HIDE DEF g
      <4> QED BY <4>2 DEF Step
    <3>2. CASE ~(Volume(b.len) > most)
      <4>1. Volume(b.len) <= most
        BY <1>3, <3>2 DEF UpTo
      <4> QED BY <4>1 DEF Step
    <3> QED BY <3>1, <3>2
  <2>5. g = [b \in UpTo(k) |-> Step(g, b, most)]
    BY <2>4
  <2> QED BY <1>2, <2>5 DEF Solves
<1> QED BY <1>4, <1>5

\* What the code computes for a box is what it makes of the two parts
\* (DecomposeBox in backend.cpp).
LEMMA DecomposeBoxStep ==
  ASSUME NEW most \in Nat \ {0}
  PROVE  \A b \in Boxes : DecomposeBox(most)[b] = Step(DecomposeBox(most), b, most)
<1> DEFINE Sol(n) == CHOOSE f : Solves(f, n, most)
           h == [b \in Boxes |-> Sol(Volume(b.len))[b]]
<1>1. \A b \in Boxes : Volume(b.len) \in Nat
  BY VolumeType DEF Boxes, Grid
<1>2. \A n \in Nat : Solves(Sol(n), n, most)
  BY SolutionExists
<1> HIDE DEF Sol
<1>3. ASSUME NEW b \in Boxes PROVE h[b] = Step(h, b, most)
  <2> DEFINE n == Volume(b.len)
             f == Sol(n)
  <2>1. n \in Nat /\ Solves(f, n, most) /\ b \in UpTo(n)
    BY <1>1, <1>2 DEF UpTo
  <2>2. h[b] = f[b] /\ f[b] = Step(f, b, most)
    BY <2>1 DEF Solves
  <2>3. ASSUME NEW c \in Boxes, Volume(c.len) < n PROVE h[c] = f[c]
    <3> DEFINE m == Volume(c.len)
    <3>1. m \in Nat /\ Solves(Sol(m), m, most) /\ c \in UpTo(n) \cap UpTo(m)
      BY <1>1, <1>2, <2>1, <2>3 DEF UpTo
    <3>2. h[c] = Sol(m)[c]
      OBVIOUS
    <3> HIDE DEF m, h, f, n
    <3> QED BY <2>1, <3>1, <3>2, SolutionsAgree
  <2> HIDE DEF f, h
  <2>4. Step(f, b, most) = Step(h, b, most)
    <3>1. CASE Volume(b.len) > most
      <4>1. /\ h[First(b, most)] = f[First(b, most)]
            /\ h[Second(b, most)] = f[Second(b, most)]
        BY <2>3, <3>1, PartsUpTo
      <4> QED BY <4>1 DEF Step
    <3>2. CASE ~(Volume(b.len) > most)
      <4>1. Volume(b.len) <= most
        BY <1>1, <3>2
      <4> QED BY <4>1 DEF Step
    <3> QED BY <3>1, <3>2
  <2> QED BY <2>2, <2>4
<1>4. h = [b \in Boxes |-> Step(h, b, most)]
  <2>1. h = [b \in Boxes |-> h[b]]
    OBVIOUS
  <2> HIDE DEF h
  <2> QED BY <1>3, <2>1
<1> DEFINE d == DecomposeBox(most)
<1>5. d = CHOOSE parts : parts = [b \in Boxes |-> Step(parts, b, most)]
  BY DEF DecomposeBox, Step, First, Second
<1> HIDE DEF d, h
<1>6. d = [b \in Boxes |-> Step(d, b, most)]
  BY <1>4, <1>5
<1>7. \A b \in Boxes : d[b] = Step(d, b, most)
  BY <1>6
<1> QED BY <1>7 DEF d

-----------------------------------------------------------------------------
(* Every block of a box is in one part                                     *)

\* The block p is in the box b; the box c is inside b.
Holds(b, p) == \A i \in Axes : b.off[i] <= p[i] /\ p[i] < b.off[i] + b.len[i]
Inside(c, b) ==
  \A i \in Axes : b.off[i] <= c.off[i] /\ c.off[i] + c.len[i] <= b.off[i] + b.len[i]

\* The boxes of s are parts of b, no larger than asked for, and every block of
\* b is in one of them.
Parted(s, b, most) ==
  /\ s \in Seq(Boxes)
  /\ \A i \in 1..Len(s) : Inside(s[i], b) /\ Volume(s[i].len) <= most
  /\ \A p \in Grid : Holds(b, p) => \E i \in 1..Len(s) : Holds(s[i], p)
  /\ \A i, j \in 1..Len(s) : i < j => \A p \in Grid : ~(Holds(s[i], p) /\ Holds(s[j], p))

\* A box without blocks needs no parts.
LEMMA NoParts ==
  ASSUME NEW b \in Boxes, NEW most \in Nat, Volume(b.len) = 0
  PROVE  Parted(<<>>, b, most)
<1>1. \A i \in Axes : b.len[i] \in Nat /\ b.off[i] \in Nat
  BY DEF Boxes
<1>2. \E i \in Axes : b.len[i] = 0
  <2>1. \A x, y, z \in Nat : x * y * z = 0 => x = 0 \/ y = 0 \/ z = 0
    <3> SUFFICES ASSUME NEW x \in Nat \ {0}, NEW y \in Nat \ {0}, NEW z \in Nat \ {0}
                 PROVE  x * y * z # 0
      OBVIOUS
    <3> DEFINE v == x * y
    <3>1. v \in Nat /\ v > 0
      OBVIOUS
    <3> HIDE DEF v
    <3>2. v * z # 0
      BY <3>1
    <3> QED BY <3>2 DEF v
  <2> QED BY <1>1, <2>1 DEF Volume, Axes
<1>3. \A p \in Grid : ~Holds(b, p)
  BY <1>1, <1>2 DEF Holds, Grid
<1> QED BY <1>3, EmptySeq DEF Parted

\* A small box is its own part.
LEMMA OnePart ==
  ASSUME NEW b \in Boxes, NEW most \in Nat, Volume(b.len) <= most
  PROVE  Parted(<<b>>, b, most)
<1>1. \A i \in Axes : b.len[i] \in Nat /\ b.off[i] \in Nat
  BY DEF Boxes
<1>2. Inside(b, b)
  BY <1>1 DEF Inside
<1>3. <<b>> \in Seq(Boxes) /\ Len(<<b>>) = 1 /\ <<b>>[1] = b
  OBVIOUS
<1>4. \A i \in 1..Len(<<b>>) : i = 1
  BY <1>3
<1> DEFINE s == <<b>>
<1> HIDE DEF s
<1>5. Parted(s, b, most)
  BY <1>2, <1>3, <1>4 DEF Parted, s
<1> QED BY <1>5 DEF s

\* The parts of two boxes next to each other are parts of both together.
LEMMA PartsOfBoth ==
  ASSUME NEW most \in Nat \ {0}, NEW b \in Boxes, Volume(b.len) > most,
         NEW s, NEW t, Parted(s, First(b, most), most), Parted(t, Second(b, most), most)
  PROVE  Parted(s \o t, b, most)
<1> DEFINE f == First(b, most)
           g == Second(b, most)
           a == LongestAxis(b.len)
           u == s \o t
<1>1. /\ f \in Boxes /\ g \in Boxes /\ a \in Axes
      /\ f.off = b.off /\ f.len[a] \in 1..(b.len[a] - 1)
      /\ g.off[a] = b.off[a] + f.len[a] /\ g.len[a] = b.len[a] - f.len[a]
      /\ \A i \in Axes \ {a} : f.len[i] = b.len[i] /\ g.len[i] = b.len[i] /\ g.off[i] = b.off[i]
  BY DividedInTwo
<1>2. Parted(s, f, most) /\ Parted(t, g, most)
  OBVIOUS
<1> HIDE DEF f, g, a
<1>3. \A c \in Boxes : \A i \in Axes : c.len[i] \in Nat /\ c.off[i] \in Nat
  BY DEF Boxes
<1>4. \A p \in Grid : /\ Holds(b, p) => Holds(f, p) \/ Holds(g, p)
                      /\ ~(Holds(f, p) /\ Holds(g, p))
  <2> SUFFICES ASSUME NEW p \in Grid
               PROVE  /\ Holds(b, p) => Holds(f, p) \/ Holds(g, p)
                      /\ ~(Holds(f, p) /\ Holds(g, p))
    OBVIOUS
  <2>1. \A i \in Axes : p[i] \in Nat
    BY DEF Grid
  <2>2. CASE p[a] < b.off[a] + f.len[a]
    <3>1. ~Holds(g, p)
      BY <1>1, <1>3, <2>1, <2>2 DEF Holds
    <3>2. Holds(b, p) => Holds(f, p)
      BY <1>1, <1>3, <2>1, <2>2 DEF Holds
    <3> QED BY <3>1, <3>2
  <2>3. CASE ~(p[a] < b.off[a] + f.len[a])
    <3>1. ~Holds(f, p)
      BY <1>1, <1>3, <2>1, <2>3 DEF Holds
    <3>2. Holds(b, p) => Holds(g, p)
      BY <1>1, <1>3, <2>1, <2>3 DEF Holds
    <3> QED BY <3>1, <3>2
  <2> QED BY <2>2, <2>3
<1>5. Inside(f, b) /\ Inside(g, b)
  BY <1>1, <1>3 DEF Inside
<1>6. \A c, d \in Boxes : Inside(c, d) /\ Inside(d, b) => Inside(c, b)
  BY <1>3 DEF Inside
<1>7. \A c, d \in Boxes : Inside(c, d) => \A p \in Grid : Holds(c, p) => Holds(d, p)
  <2> SUFFICES ASSUME NEW c \in Boxes, NEW d \in Boxes, Inside(c, d), NEW p \in Grid, Holds(c, p)
               PROVE  Holds(d, p)
    OBVIOUS
  <2>1. \A i \in Axes : p[i] \in Nat
    BY DEF Grid
  <2> QED BY <1>3, <2>1 DEF Inside, Holds
<1>8. s \in Seq(Boxes) /\ t \in Seq(Boxes)
  BY <1>2 DEF Parted
<1>9. /\ u \in Seq(Boxes) /\ Len(u) = Len(s) + Len(t) /\ Len(s) \in Nat /\ Len(t) \in Nat
      /\ \A i \in 1..Len(s) : u[i] = s[i] /\ s[i] \in Boxes
      /\ \A i \in 1..Len(t) : u[Len(s) + i] = t[i] /\ t[i] \in Boxes
  BY <1>8, ConcatProperties, ElementOfSeq, LenProperties
<1> HIDE DEF u
<1>10. \A i \in 1..Len(u) : \/ i \in 1..Len(s) /\ u[i] = s[i]
                            \/ /\ ~(i <= Len(s)) /\ i - Len(s) \in 1..Len(t)
                               /\ u[i] = t[i - Len(s)]
  <2> SUFFICES ASSUME NEW i \in 1..Len(u), ~(i <= Len(s))
               PROVE  i - Len(s) \in 1..Len(t) /\ u[i] = t[i - Len(s)]
    BY <1>9
  <2>1. i - Len(s) \in 1..Len(t) /\ Len(s) + (i - Len(s)) = i
    BY <1>9
  <2> QED BY <1>9, <2>1
<1>11. \A i \in 1..Len(u) : Inside(u[i], b) /\ Volume(u[i].len) <= most
  <2>1. \A i \in 1..Len(s) : Inside(s[i], b) /\ Volume(s[i].len) <= most
    BY <1>1, <1>2, <1>5, <1>6, <1>9 DEF Parted
  <2>2. \A i \in 1..Len(t) : Inside(t[i], b) /\ Volume(t[i].len) <= most
    BY <1>1, <1>2, <1>5, <1>6, <1>9 DEF Parted
  <2> QED BY <1>10, <2>1, <2>2
<1>12. \A p \in Grid : Holds(b, p) => \E i \in 1..Len(u) : Holds(u[i], p)
  <2> SUFFICES ASSUME NEW p \in Grid, Holds(b, p) PROVE \E i \in 1..Len(u) : Holds(u[i], p)
    OBVIOUS
  <2>1. CASE Holds(f, p)
    <3>1. PICK i \in 1..Len(s) : Holds(s[i], p)
      BY <1>2, <2>1 DEF Parted
    <3> QED BY <1>9, <3>1
  <2>2. CASE Holds(g, p)
    <3>1. PICK i \in 1..Len(t) : Holds(t[i], p)
      BY <1>2, <2>2 DEF Parted
    <3>2. Len(s) + i \in 1..Len(u)
      BY <1>9
    <3> QED BY <1>9, <3>1, <3>2
  <2> QED BY <1>4, <2>1, <2>2
<1>13. ASSUME NEW i \in 1..Len(u), NEW j \in 1..Len(u), i < j, NEW p \in Grid,
              Holds(u[i], p), Holds(u[j], p)
       PROVE  FALSE
  <2>1. \A k \in 1..Len(s) : Holds(s[k], p) => Holds(f, p)
    BY <1>1, <1>2, <1>7, <1>9 DEF Parted
  <2>2. \A k \in 1..Len(t) : Holds(t[k], p) => Holds(g, p)
    BY <1>1, <1>2, <1>7, <1>9 DEF Parted
  <2>3. CASE j <= Len(s)
    <3>1. i \in 1..Len(s) /\ j \in 1..Len(s)
      BY <1>9, <1>13, <2>3
    <3> QED BY <1>2, <1>9, <1>13, <3>1 DEF Parted
  <2>4. CASE ~(j <= Len(s)) /\ i <= Len(s)
    <3>1. Holds(f, p)
      BY <1>10, <1>13, <2>1, <2>4
    <3>2. Holds(g, p)
      BY <1>10, <1>13, <2>2, <2>4
    <3> QED BY <1>4, <3>1, <3>2
  <2>5. CASE ~(i <= Len(s))
    <3> DEFINE k == i - Len(s)
               l == j - Len(s)
    <3>1. ~(j <= Len(s)) /\ k < l
      BY <1>9, <1>13, <2>5
    <3>2. /\ k \in 1..Len(t) /\ u[i] = t[k]
          /\ l \in 1..Len(t) /\ u[j] = t[l]
      BY <1>10, <2>5, <3>1
    <3> HIDE DEF k, l
    <3> QED BY <1>2, <1>13, <3>1, <3>2 DEF Parted
  <2> QED BY <2>3, <2>4, <2>5
<1>14. Parted(u, b, most)
  BY <1>9, <1>11, <1>12, <1>13 DEF Parted
<1> QED BY <1>14 DEF u

\* The parts of any box are no larger than asked for, and every block of the box
\* is in one of them (DecomposeBox in backend.cpp).
LEMMA DecomposeBoxParts ==
  ASSUME NEW most \in Nat \ {0}
  PROVE  \A b \in Boxes : Parted(DecomposeBox(most)[b], b, most)
<1> DEFINE d == DecomposeBox(most)
           S == {k \in Nat : \E b \in Boxes : Volume(b.len) = k /\ ~Parted(d[b], b, most)}
<1>1. \A b \in Boxes : Volume(b.len) \in Nat
  BY VolumeType DEF Boxes, Grid
<1>2. \A b \in Boxes : d[b] = Step(d, b, most)
  BY DecomposeBoxStep
<1> HIDE DEF d
<1> SUFFICES ASSUME S # {} PROVE FALSE
  BY <1>1 DEF d
<1>3. PICK k \in S : \A l \in S : k <= l
  BY LeastNumber
<1>4. PICK b \in Boxes : Volume(b.len) = k /\ ~Parted(d[b], b, most)
  BY <1>3
<1>5. \A c \in Boxes : Volume(c.len) < k => Parted(d[c], c, most)
  BY <1>1, <1>3
<1> HIDE DEF S
<1>6. CASE Volume(b.len) > most
  <2>1. Volume(b.len) # 0 /\ ~(Volume(b.len) <= most)
    BY <1>1, <1>6
  <2>2. d[b] = d[First(b, most)] \o d[Second(b, most)]
    BY <1>2, <2>1 DEF Step
  <2>3. Parted(d[First(b, most)], First(b, most), most)
    BY <1>4, <1>5, <1>6, PartsUpTo
  <2>4. Parted(d[Second(b, most)], Second(b, most), most)
    BY <1>4, <1>5, <1>6, PartsUpTo
  <2> QED BY <1>4, <1>6, <2>2, <2>3, <2>4, PartsOfBoth
<1>7. CASE ~(Volume(b.len) > most)
  <2>1. Volume(b.len) <= most
    BY <1>1, <1>7
  <2>2. d[b] = IF Volume(b.len) = 0 THEN <<>> ELSE <<b>>
    BY <1>2, <2>1 DEF Step
  <2> QED BY <1>4, <2>1, <2>2, NoParts, OnePart
<1> QED BY <1>6, <1>7

\* A grid of any size is divided into boxes of at most `most` blocks, one at
\* least, and every block of the grid is in exactly one of them (DecomposeGrid
\* in backend.cpp).
THEOREM GridDecomposed ==
  ASSUME NEW g \in Grid, NEW most \in Nat \ {0}
  PROVE  LET s == DecomposeGrid(g, most)
         IN /\ Parted(s, Box(Origin, g), most)
            /\ Volume(g) > most => s # <<>>
<1> DEFINE b == Box(Origin, g)
           s == DecomposeGrid(g, most)
<1>1. Origin \in Grid /\ \A i \in Axes : Origin[i] = 0
  BY DEF Origin, Grid
<1>2. b \in Boxes /\ b.off = Origin /\ b.len = g
  BY <1>1 DEF Box, Boxes, Grid
<1>3. Parted(s, b, most)
  BY <1>2, DecomposeBoxParts DEF DecomposeGrid
<1>4. Volume(g) > most => s # <<>>
  <2> SUFFICES ASSUME Volume(g) > most PROVE s # <<>>
    OBVIOUS
  <2>1. Holds(b, Origin)
    BY <1>1, <1>2, LongestAxisDivides DEF Holds, Grid
  <2>2. \E i \in 1..Len(s) : Holds(s[i], Origin)
    BY <1>1, <1>3, <2>1 DEF Parted
  <2> HIDE DEF s
  <2> QED BY <2>2, EmptySeq
<1> QED BY <1>3, <1>4

-----------------------------------------------------------------------------
(* What becomes of a launch                                                *)

\* The boxes a launch is submitted as.
Split(id) == Strategy(Launch(id)) = "split"
Parts(id) ==
  IF Split(id) THEN DecomposeGrid(Launch(id).grid, env.splitBlocks)
  ELSE IF Strategy(Launch(id)) = "native" THEN <<Whole(Launch(id))>> ELSE <<>>

ConfigOK ==
  /\ env \in [mode : Modes, splitBlocks : SplitCounts, strict : StrictModes, level : Levels]
  /\ plan \in Plans

\* A launch is named by its thread and its place in the plan.
LEMMA IdsAre ==
  ASSUME ConfigOK
  PROVE  /\ \A t \in Threads : \A i \in 1..Len(plan[t]) : <<t, i>> \in Ids
         /\ \A id \in Ids : /\ id[1] \in Threads /\ id[2] \in 1..Len(plan[id[1]])
                            /\ id = <<id[1], id[2]>> /\ Launch(id) \in Launches
         /\ \A t \in Threads : plan[t] \in Seq(Launches) /\ Len(plan[t]) \in Nat
<1>1. \A t \in Threads : plan[t] \in Seq(Launches)
  BY SplitAssumption DEF ConfigOK
<1>2. \A t \in Threads : Len(plan[t]) \in Nat /\ DOMAIN plan[t] = 1..Len(plan[t])
  BY <1>1, LenProperties
<1>3. \A t \in Threads : \A i \in 1..Len(plan[t]) : plan[t][i] \in Launches
  BY <1>1, ElementOfSeq
<1>4. ASSUME NEW id \in Ids
      PROVE  /\ id[1] \in Threads /\ id[2] \in 1..Len(plan[id[1]])
             /\ id = <<id[1], id[2]>> /\ Launch(id) \in Launches
  <2>1. PICK t \in Threads : id \in {t} \X DOMAIN plan[t]
    BY DEF Ids
  <2>2. id[1] = t /\ id[2] \in 1..Len(plan[t]) /\ id = <<id[1], id[2]>>
    BY <1>2, <2>1
  <2> QED BY <1>3, <2>2 DEF Launch
<1>5. ASSUME NEW t \in Threads, NEW i \in 1..Len(plan[t]) PROVE <<t, i>> \in Ids
  BY <1>2 DEF Ids
<1> QED BY <1>1, <1>2, <1>4, <1>5

\* What the parts of a launch are.  One that is split has an offset for every axis
\* its grid extends along.
LEMMA PartsAre ==
  ASSUME ConfigOK, NEW id \in Ids
  PROVE  /\ Parts(id) \in Seq(Boxes) /\ Len(Parts(id)) \in Nat
         /\ Strategy(Launch(id)) \in {"native", "split", "error"}
         /\ Split(id) => /\ Parts(id) # <<>> /\ CapabilitySupportsGrid(Launch(id))
                         /\ Parted(Parts(id), Whole(Launch(id)), env.splitBlocks)
         /\ Strategy(Launch(id)) = "native" => Parts(id) = <<Whole(Launch(id))>>
         /\ Strategy(Launch(id)) = "error" => Parts(id) = <<>>
<1> DEFINE l == Launch(id)
<1>1. l \in Launches /\ env.splitBlocks \in Nat \ {0}
  BY IdsAre, SplitAssumption DEF ConfigOK
<1> HIDE DEF l
<1>2. l.grid \in Grid /\ Whole(l) \in Boxes
  BY <1>1 DEF Launches, Grid, Whole, Box, Boxes, Origin
<1>3. Strategy(l) \in {"native", "split", "error"}
  BY DEF Strategy, TryLaunchKernelFixed, Refused
<1>4. Strategy(l) = "split" => Volume(l.grid) > env.splitBlocks /\ CapabilitySupportsGrid(l)
  <2>1. Volume(l.grid) \in Nat
    BY <1>2, VolumeType
  <2> QED BY <1>1, <2>1 DEF Strategy, TryLaunchKernelFixed, Refused
<1>5. Strategy(l) = "split" =>
        /\ Parted(DecomposeGrid(l.grid, env.splitBlocks), Whole(l), env.splitBlocks)
        /\ DecomposeGrid(l.grid, env.splitBlocks) # <<>>
  BY <1>1, <1>2, <1>4, GridDecomposed DEF Whole
<1>6. Strategy(l) = "split" => Parts(id) = DecomposeGrid(l.grid, env.splitBlocks)
  BY DEF Parts, Split, l
<1>7. /\ Strategy(l) = "native" => Parts(id) = <<Whole(l)>>
      /\ Strategy(l) = "error" => Parts(id) = <<>>
  BY DEF Parts, Split, l
<1>8. Parts(id) \in Seq(Boxes)
  <2>1. CASE Strategy(l) = "split"
    BY <1>5, <1>6, <2>1 DEF Parted
  <2>2. CASE Strategy(l) = "native"
    <3>1. <<Whole(l)>> \in Seq(Boxes)
      BY <1>2
    <3> QED BY <1>7, <2>2, <3>1
  <2>3. CASE Strategy(l) = "error"
    BY <1>7, <2>3, EmptySeq
  <2> QED BY <1>3, <2>1, <2>2, <2>3
<1> QED BY <1>3, <1>4, <1>5, <1>6, <1>7, <1>8, LenProperties DEF l, Split

\* Parts of a launch are parts of its grid, wherever the kernel takes no offset
\* (CapabilitySupportsGrid, SubmitSplitCommands).
LEMMA BlocksAre ==
  ASSUME NEW l \in Launches, CapabilitySupportsGrid(l), NEW b \in Boxes, Inside(b, Whole(l)),
         NEW x, NEW y, NEW z
  PROVE  <<x, y, z>> \in BlocksOf(l, b) <=> <<x, y, z>> \in Grid /\ Holds(b, <<x, y, z>>)
<1> DEFINE first(i) == IF i \in l.axes THEN b.off[i] ELSE 0
           within(i, v) == v \in first(i)..(first(i) + b.len[i] - 1)
<1>1. \A i \in Axes : b.off[i] \in Nat /\ b.len[i] \in Nat /\ l.grid[i] \in Nat
  BY DEF Boxes, Launches
<1>2. \A i \in Axes : b.off[i] + b.len[i] <= l.grid[i]
  BY <1>1 DEF Inside, Whole, Box, Origin
<1>3. \A i \in Axes : i \notin l.axes => ~(l.grid[i] > 1)
  BY DEF CapabilitySupportsGrid
<1>4. \A i \in Axes : first(i) = b.off[i] \/ b.len[i] = 0
  BY <1>1, <1>2, <1>3
<1>5. \A i \in Axes : first(i) \in Nat
  BY <1>1
<1> HIDE DEF first
<1>6. \A i \in Axes : \A v :
        within(i, v) <=> v \in Nat /\ b.off[i] <= v /\ v < b.off[i] + b.len[i]
  BY <1>1, <1>4, <1>5
<1>7. <<x, y, z>> \in BlocksOf(l, b) <=> within(1, x) /\ within(2, y) /\ within(3, z)
  BY DEF BlocksOf, first
<1>8. <<x, y, z>> \in Grid <=> x \in Nat /\ y \in Nat /\ z \in Nat
  BY DEF Grid, Axes
<1>9. Holds(b, <<x, y, z>>) <=>
        /\ b.off[1] <= x /\ x < b.off[1] + b.len[1]
        /\ b.off[2] <= y /\ y < b.off[2] + b.len[2]
        /\ b.off[3] <= z /\ z < b.off[3] + b.len[3]
  BY DEF Holds, Axes
<1> HIDE DEF within
<1> QED BY <1>6, <1>7, <1>8, <1>9 DEF Axes

-----------------------------------------------------------------------------
(* The commands on their way                                               *)

Commands == [id : Threads \X Nat, type : {"child", "native", "waitall"}, box : Boxes]
Carries(c) == c.type # "waitall"

\* c is part k of its launch.  Of each launch, d[id] parts are done and n[id]
\* have been sent.
Part(c, k, d, n) ==
  /\ c.id \in Ids /\ k \in Nat /\ d[c.id] < k /\ k <= n[c.id]
  /\ c.box = Parts(c.id)[k]
  /\ c.type = IF Split(c.id) THEN "child" ELSE "native"

\* The commands in s are the parts that are sent and not done, each once and
\* those of a launch in order: num says which part each is.
Numbers(num, s, d, n) ==
  /\ \A i \in 1..Len(s) : Carries(s[i]) => Part(s[i], num[i], d, n)
  /\ \A i, j \in 1..Len(s) :
       i < j /\ Carries(s[i]) /\ Carries(s[j]) /\ s[i].id = s[j].id => num[i] < num[j]
  /\ \A id \in Ids : \A k \in Nat :
       d[id] < k /\ k <= n[id] =>
         \E i \in 1..Len(s) : Carries(s[i]) /\ s[i].id = id /\ num[i] = k
Ordered(s, d, n) == \E num : Numbers(num, s, d, n)

\* A launch with nothing on its way may advance in both counts at once.
LEMMA OrderedSame ==
  ASSUME NEW s \in Seq(Commands), NEW d \in [Ids -> Nat], NEW n \in [Ids -> Nat],
         NEW e \in [Ids -> Nat], NEW m \in [Ids -> Nat], Ordered(s, d, n),
         \A id \in Ids : \/ e[id] = d[id] /\ m[id] = n[id]
                         \/ d[id] = n[id] /\ e[id] = m[id]
  PROVE  Ordered(s, e, m)
<1>1. PICK num : Numbers(num, s, d, n)
  BY DEF Ordered
<1>2. \A i \in 1..Len(s) : Carries(s[i]) => Part(s[i], num[i], e, m)
  <2> SUFFICES ASSUME NEW i \in 1..Len(s), Carries(s[i]) PROVE Part(s[i], num[i], e, m)
    OBVIOUS
  <2>1. Part(s[i], num[i], d, n)
    BY <1>1 DEF Numbers
  <2>2. s[i].id \in Ids /\ d[s[i].id] \in Nat /\ n[s[i].id] \in Nat
    BY <2>1 DEF Part
  <2>3. ~(d[s[i].id] = n[s[i].id])
    BY <2>1, <2>2 DEF Part
  <2> QED BY <2>1, <2>2, <2>3 DEF Part
<1>3. ASSUME NEW id \in Ids, NEW k \in Nat, e[id] < k /\ k <= m[id]
      PROVE  d[id] < k /\ k <= n[id]
  <2>1. e[id] \in Nat /\ m[id] \in Nat
    OBVIOUS
  <2>2. ~(e[id] = m[id])
    BY <1>3, <2>1
  <2> QED BY <1>3, <2>2
<1>4. Numbers(num, s, e, m)
  BY <1>1, <1>2, <1>3 DEF Numbers
<1> QED BY <1>4 DEF Ordered

\* A wait is added at the end.
LEMMA OrderedWait ==
  ASSUME NEW s \in Seq(Commands), NEW d \in [Ids -> Nat], NEW n \in [Ids -> Nat],
         Ordered(s, d, n), NEW c \in Commands, ~Carries(c)
  PROVE  Ordered(Append(s, c), d, n)
<1>1. PICK num : Numbers(num, s, d, n)
  BY DEF Ordered
<1> DEFINE u == Append(s, c)
<1>2. /\ Len(s) \in Nat /\ Len(u) = Len(s) + 1 /\ u[Len(s) + 1] = c
      /\ \A i \in 1..Len(s) : u[i] = s[i]
  BY AppendProperties, LenProperties
<1> HIDE DEF u
<1>3. \A i \in 1..Len(u) : Carries(u[i]) => i \in 1..Len(s) /\ u[i] = s[i]
  BY <1>2
<1>4. \A i \in 1..Len(s) : i \in 1..Len(u)
  BY <1>2
<1>5. Numbers(num, u, d, n)
  <2>1. \A i \in 1..Len(u) : Carries(u[i]) => Part(u[i], num[i], d, n)
    BY <1>1, <1>3 DEF Numbers
  <2>2. \A i, j \in 1..Len(u) :
          i < j /\ Carries(u[i]) /\ Carries(u[j]) /\ u[i].id = u[j].id => num[i] < num[j]
    BY <1>1, <1>3 DEF Numbers
  <2>3. \A id \in Ids : \A k \in Nat :
          d[id] < k /\ k <= n[id] =>
            \E i \in 1..Len(u) : Carries(u[i]) /\ u[i].id = id /\ num[i] = k
    <3> SUFFICES ASSUME NEW id \in Ids, NEW k \in Nat, d[id] < k /\ k <= n[id]
                 PROVE  \E i \in 1..Len(u) : Carries(u[i]) /\ u[i].id = id /\ num[i] = k
      OBVIOUS
    <3>1. PICK i \in 1..Len(s) : Carries(s[i]) /\ s[i].id = id /\ num[i] = k
      BY <1>1 DEF Numbers
    <3> QED BY <1>2, <1>4, <3>1
  <2> QED BY <2>1, <2>2, <2>3 DEF Numbers
<1> QED BY <1>5 DEF Ordered, u

\* The next part of a launch is added at the end.
LEMMA OrderedSend ==
  ASSUME NEW s \in Seq(Commands), NEW d \in [Ids -> Nat], NEW n \in [Ids -> Nat],
         NEW m \in [Ids -> Nat], Ordered(s, d, n), NEW c \in Commands, Carries(c), c.id \in Ids,
         Part(c, m[c.id], d, m), m[c.id] = n[c.id] + 1,
         \A id \in Ids \ {c.id} : m[id] = n[id]
  PROVE  Ordered(Append(s, c), d, m)
<1>1. PICK num : Numbers(num, s, d, n)
  BY DEF Ordered
<1> DEFINE u == Append(s, c)
           l == Len(s) + 1
           new == [i \in 1..l |-> IF i = l THEN m[c.id] ELSE num[i]]
<1>2. /\ Len(s) \in Nat /\ Len(u) = l /\ u[l] = c /\ l \in Nat /\ l >= 1
      /\ \A i \in 1..Len(s) : u[i] = s[i]
  BY AppendProperties, LenProperties
<1>3. \A i \in 1..l : i = l \/ i \in 1..Len(s)
  BY <1>2
<1>4. \A i \in 1..Len(s) : i \in 1..l /\ i # l /\ i < l
  BY <1>2
<1>5. new[l] = m[c.id] /\ \A i \in 1..Len(s) : new[i] = num[i]
  BY <1>2, <1>4
<1> HIDE DEF u, new, l
<1>6. ASSUME NEW id \in Ids
      PROVE  n[id] \in Nat /\ m[id] \in Nat /\ d[id] \in Nat /\ n[id] <= m[id]
  <2>1. n[id] \in Nat /\ m[id] \in Nat /\ d[id] \in Nat
    OBVIOUS
  <2>2. id # c.id => m[id] = n[id]
    OBVIOUS
  <2> QED BY <2>1, <2>2
<1>7. \A i \in 1..Len(s) : Carries(s[i]) => Part(s[i], num[i], d, m) /\ num[i] <= n[s[i].id]
  BY <1>1, <1>6 DEF Numbers, Part
<1>8. \A i \in 1..Len(u) : Carries(u[i]) => Part(u[i], new[i], d, m)
  BY <1>2, <1>3, <1>5, <1>7
<1>9. ASSUME NEW i \in 1..Len(u), NEW j \in 1..Len(u),
             i < j, Carries(u[i]), Carries(u[j]), u[i].id = u[j].id
      PROVE  new[i] < new[j]
  <2>1. i \in 1..Len(s)
    BY <1>2, <1>3, <1>9
  <2>2. CASE j \in 1..Len(s)
    BY <1>1, <1>2, <1>5, <1>9, <2>1, <2>2 DEF Numbers
  <2>3. CASE j = l
    <3>1. num[i] <= n[c.id] /\ num[i] \in Nat
      BY <1>2, <1>7, <1>9, <2>1, <2>3 DEF Part
    <3> QED BY <1>5, <1>6, <2>1, <2>3, <3>1
  <2> QED BY <1>2, <1>3, <2>2, <2>3
<1>10. ASSUME NEW id \in Ids, NEW k \in Nat, d[id] < k, k <= m[id]
       PROVE  \E i \in 1..Len(u) : Carries(u[i]) /\ u[i].id = id /\ new[i] = k
  <2>1. CASE id = c.id /\ k = m[id]
    <3>1. l \in 1..Len(u)
      BY <1>2
    <3> QED BY <1>2, <1>5, <2>1, <3>1
  <2>2. CASE ~(id = c.id /\ k = m[id])
    <3>1. k <= n[id]
      BY <1>6, <1>10, <2>2
    <3>2. PICK i \in 1..Len(s) : Carries(s[i]) /\ s[i].id = id /\ num[i] = k
      BY <1>1, <1>10, <3>1 DEF Numbers
    <3> QED BY <1>2, <1>4, <1>5, <3>2
  <2> QED BY <2>1, <2>2
<1>11. Numbers(new, u, d, m)
  BY <1>8, <1>9, <1>10 DEF Numbers
<1> QED BY <1>11 DEF Ordered, u

\* What is behind the first command.
LEMMA BehindFirst ==
  ASSUME NEW s \in Seq(Commands), s # <<>>
  PROVE  /\ Len(s) \in Nat /\ 1 \in 1..Len(s) /\ Head(s) = s[1] /\ Head(s) \in Commands
         /\ Tail(s) \in Seq(Commands) /\ Len(Tail(s)) = Len(s) - 1
         /\ \A i \in 1..Len(Tail(s)) : Tail(s)[i] = s[i + 1] /\ i + 1 \in 1..Len(s) /\ 1 < i + 1
         /\ \A i \in 1..Len(s) : i # 1 => i - 1 \in 1..Len(Tail(s)) /\ s[i] = Tail(s)[i - 1]
<1>1. /\ Len(s) \in Nat /\ Len(s) # 0 /\ Head(s) = s[1] /\ Head(s) \in Commands
      /\ Tail(s) \in Seq(Commands) /\ Len(Tail(s)) = Len(s) - 1
      /\ \A i \in 1..Len(Tail(s)) : Tail(s)[i] = s[i + 1]
  BY HeadTailProperties, LenProperties, EmptySeq
<1>2. \A i \in 1..Len(Tail(s)) : i + 1 \in 1..Len(s) /\ 1 < i + 1
  BY <1>1
<1>3. ASSUME NEW i \in 1..Len(s), i # 1
      PROVE  i - 1 \in 1..Len(Tail(s)) /\ s[i] = Tail(s)[i - 1]
  <2>1. i - 1 \in 1..Len(Tail(s)) /\ (i - 1) + 1 = i
    BY <1>1, <1>3
  <2> QED BY <1>1, <2>1
<1> QED BY <1>1, <1>2, <1>3

\* The first command is taken: it is the first part of its launch that is not
\* done, or a wait.
LEMMA OrderedTake ==
  ASSUME NEW s \in Seq(Commands), NEW d \in [Ids -> Nat], NEW n \in [Ids -> Nat],
         NEW e \in [Ids -> Nat], Ordered(s, d, n), s # <<>>,
         ~Carries(Head(s)) => e = d,
         Carries(Head(s)) => /\ e[Head(s).id] = d[Head(s).id] + 1
                             /\ \A id \in Ids \ {Head(s).id} : e[id] = d[id]
  PROVE  /\ Ordered(Tail(s), e, n)
         /\ Carries(Head(s)) => Part(Head(s), d[Head(s).id] + 1, d, n)
<1>1. PICK num : Numbers(num, s, d, n)
  BY DEF Ordered
<1> DEFINE c == Head(s)
           u == Tail(s)
           new == [i \in 1..Len(u) |-> num[i + 1]]
<1>2. /\ Len(s) \in Nat /\ 1 \in 1..Len(s) /\ c = s[1] /\ c \in Commands
      /\ u \in Seq(Commands) /\ Len(u) \in Nat
      /\ \A i \in 1..Len(u) : u[i] = s[i + 1] /\ i + 1 \in 1..Len(s) /\ 1 < i + 1
      /\ \A i \in 1..Len(s) : i # 1 => i - 1 \in 1..Len(u) /\ s[i] = u[i - 1]
  BY BehindFirst, LenProperties
<1>3. \A i \in 1..Len(u) : new[i] = num[i + 1]
  OBVIOUS
<1> HIDE DEF c, u, new
<1>4. \A id \in Ids : d[id] \in Nat /\ n[id] \in Nat /\ e[id] \in Nat
  OBVIOUS
<1>5. Carries(c) => num[1] = d[c.id] + 1 /\ Part(c, num[1], d, n)
  <2> SUFFICES ASSUME Carries(c) PROVE num[1] = d[c.id] + 1 /\ Part(c, num[1], d, n)
    OBVIOUS
  <2>1. Part(c, num[1], d, n)
    BY <1>1, <1>2 DEF Numbers
  <2>2. c.id \in Ids /\ num[1] \in Nat /\ d[c.id] < num[1] /\ num[1] <= n[c.id]
    BY <2>1 DEF Part
  <2>3. d[c.id] + 1 \in Nat /\ d[c.id] < d[c.id] + 1 /\ d[c.id] + 1 <= n[c.id]
    BY <1>4, <2>2
  <2>4. PICK i \in 1..Len(s) : Carries(s[i]) /\ s[i].id = c.id /\ num[i] = d[c.id] + 1
    BY <1>1, <2>2, <2>3 DEF Numbers
  <2>5. i # 1 => num[1] < num[i]
    BY <1>1, <1>2, <2>4 DEF Numbers
  <2> QED BY <1>4, <2>1, <2>2, <2>4, <2>5
<1>6. \A id \in Ids : e[id] = IF Carries(c) /\ id = c.id THEN d[id] + 1 ELSE d[id]
  BY <1>5 DEF c, Part
<1>7. ASSUME NEW i \in 1..Len(u), Carries(u[i]) PROVE Part(u[i], new[i], e, n)
  <2>1. Part(s[i + 1], num[i + 1], d, n) /\ u[i] = s[i + 1] /\ i + 1 \in 1..Len(s) /\ 1 < i + 1
    BY <1>1, <1>2, <1>7 DEF Numbers
  <2>2. Carries(c) /\ u[i].id = c.id => num[1] < num[i + 1]
    BY <1>1, <1>2, <1>7, <2>1 DEF Numbers
  <2>3. u[i].id \in Ids /\ num[i + 1] \in Nat /\ d[u[i].id] < num[i + 1]
    BY <2>1 DEF Part
  <2>4. e[u[i].id] < num[i + 1]
    BY <1>4, <1>5, <1>6, <2>2, <2>3
  <2> QED BY <1>3, <2>1, <2>4 DEF Part
<1>8. ASSUME NEW i \in 1..Len(u), NEW j \in 1..Len(u),
             i < j, Carries(u[i]), Carries(u[j]), u[i].id = u[j].id
      PROVE  new[i] < new[j]
  <2>1. i + 1 < j + 1
    BY <1>2, <1>8
  <2>2. /\ i + 1 \in 1..Len(s) /\ j + 1 \in 1..Len(s)
        /\ u[i] = s[i + 1] /\ u[j] = s[j + 1]
    BY <1>2
  <2>3. num[i + 1] < num[j + 1]
    BY <1>1, <1>8, <2>1, <2>2 DEF Numbers
  <2> QED BY <1>3, <2>3
<1>9. ASSUME NEW id \in Ids, NEW k \in Nat, e[id] < k, k <= n[id]
      PROVE  \E i \in 1..Len(u) : Carries(u[i]) /\ u[i].id = id /\ new[i] = k
  <2>1. d[id] < k
    BY <1>4, <1>6, <1>9
  <2>2. PICK i \in 1..Len(s) : Carries(s[i]) /\ s[i].id = id /\ num[i] = k
    BY <1>1, <1>9, <2>1 DEF Numbers
  <2>3. i # 1
    BY <1>2, <1>4, <1>5, <1>6, <1>9, <2>2
  <2>4. i - 1 \in 1..Len(u) /\ s[i] = u[i - 1] /\ (i - 1) + 1 = i
    BY <1>2, <2>3
  <2> QED BY <1>3, <2>2, <2>4
<1>10. Numbers(new, u, e, n)
  BY <1>7, <1>8, <1>9 DEF Numbers
<1> QED BY <1>5, <1>10 DEF Ordered, c, u

-----------------------------------------------------------------------------
(* The inductive invariant                                                 *)

Line == flight \o queue

\* How many parts of a launch have been submitted; whether that has begun.
Submitted(id) ==
  LET r == thr[id[1]]
  IN IF id[2] < r.at THEN Len(Parts(id))
     ELSE IF id[2] = r.at /\ r.pc # "idle" THEN r.child - 1 ELSE 0
Begun(id) ==
  LET r == thr[id[1]] IN id[2] < r.at \/ (id[2] = r.at /\ r.pc # "idle")

Done == [id \in Ids |-> Len(ran[id])]
Sent == [id \in Ids |-> Submitted(id)]

ThreadStates == [pc : {"idle", "configure", "submit"}, at : Nat \ {0}, child : Nat]
Groups == [count : Nat, completed : Nat, children : Seq(Boxes)]
Typed ==
  /\ ConfigOK
  /\ thr \in [Threads -> ThreadStates]
  /\ adjusted \in BOOLEAN /\ threshold \in Nat \ {0}
  /\ queue \in Seq(Commands) /\ flight \in Seq(Commands)
  /\ ran \in [Ids -> Seq(Boxes)] /\ group \in [Ids -> Groups]
  /\ result \in [Ids -> {"none", "success", "error"}]

\* A thread that is submitting has a launch that is split, and submits its parts
\* in order.
UnderWay(t) ==
  thr[t].pc # "idle" =>
    /\ thr[t].at <= Len(plan[t]) /\ Split(Id(t))
    /\ thr[t].child >= 1 /\ thr[t].child <= Len(Parts(Id(t))) + 1
    /\ thr[t].pc = "configure" => thr[t].child = 1

\* What a launch has executed is the beginning of its parts.  Its group counts
\* them, and holds the parts until the last one is completed.
RanOK(id) ==
  /\ Len(ran[id]) <= Submitted(id)
  /\ \A k \in 1..Len(ran[id]) : ran[id][k] = Parts(id)[k]
GroupOK(id) ==
  IF Split(id) /\ Begun(id)
  THEN /\ group[id].count = Len(Parts(id)) /\ group[id].completed = Len(ran[id])
       /\ group[id].children = IF Len(ran[id]) = Len(Parts(id)) THEN <<>> ELSE Parts(id)
  ELSE group[id].children = <<>>
ResultOK(id) ==
  /\ result[id] = "success" => Strategy(Launch(id)) # "error"
  /\ result[id] = "error" => Strategy(Launch(id)) = "error"
LaunchOK(id) == RanOK(id) /\ GroupOK(id) /\ ResultOK(id)

SplitInv ==
  /\ Typed
  /\ \A t \in Threads : UnderWay(t)
  /\ \A id \in Ids : LaunchOK(id)
  /\ Ordered(Line, Done, Sent)

\* The configuration and the plan are the ones from the beginning.
LEMMA ConfigStays ==
  ASSUME ConfigOK, UNCHANGED <<env, plan>>
  PROVE  /\ ConfigOK' /\ Ids' = Ids
         /\ \A id \in Ids : /\ Launch(id)' = Launch(id) /\ Parts(id)' = Parts(id)
                            /\ Split(id)' = Split(id)
                            /\ Strategy(Launch(id))' = Strategy(Launch(id))
<1>1. ConfigOK' /\ Ids' = Ids
  BY DEF ConfigOK, Ids
<1>2. ASSUME NEW id \in Ids
      PROVE  Launch(id)' = Launch(id) /\ Strategy(Launch(id))' = Strategy(Launch(id))
  BY DEF Launch, Strategy, TryLaunchKernelFixed, Refused
<1>3. ASSUME NEW id \in Ids
      PROVE  Split(id)' = Split(id) /\ Parts(id)' = Parts(id)
  BY <1>2 DEF Split, Parts
<1> QED BY <1>1, <1>2, <1>3

\* What is in order stays in order as long as the configuration is the same.
LEMMA OrderStays ==
  ASSUME ConfigOK, UNCHANGED <<env, plan>>, Ordered(Line', Done', Sent')
  PROVE  Ordered(Line, Done, Sent)'
<1>1. /\ Ids' = Ids
      /\ \A id \in Ids : Parts(id)' = Parts(id) /\ Split(id)' = Split(id)
  BY ConfigStays
<1>2. PICK num : Numbers(num, Line', Done', Sent')
  BY DEF Ordered
<1>3. \A c, k, d, n : Part(c, k, d, n) => Part(c, k, d, n)'
  BY <1>1 DEF Part
<1>4. Numbers(num, Line, Done, Sent)'
  BY <1>1, <1>2, <1>3 DEF Numbers, Part, Carries
<1> QED BY <1>4 DEF Ordered

\* The counts are numbers, and the line is one of commands.
LEMMA CountsType ==
  ASSUME SplitInv
  PROVE  /\ \A id \in Ids : Submitted(id) \in Nat /\ Len(ran[id]) \in Nat
         /\ Done \in [Ids -> Nat] /\ Sent \in [Ids -> Nat] /\ Line \in Seq(Commands)
         /\ \A id \in Ids : Done[id] = Len(ran[id]) /\ Sent[id] = Submitted(id)
<1>1. ASSUME NEW id \in Ids PROVE Submitted(id) \in Nat /\ Len(ran[id]) \in Nat
  <2>1. /\ id[1] \in Threads /\ id[2] \in 1..Len(plan[id[1]]) /\ id = <<id[1], id[2]>>
        /\ Len(Parts(id)) \in Nat
    BY IdsAre, PartsAre DEF SplitInv, Typed
  <2>2. thr[id[1]].at \in Nat /\ thr[id[1]].child \in Nat
    BY <2>1 DEF SplitInv, Typed, ThreadStates
  <2>3. thr[id[1]].pc # "idle" => thr[id[1]].child - 1 \in Nat
    BY <2>1, <2>2 DEF SplitInv, UnderWay
  <2>4. Len(ran[id]) \in Nat
    BY LenProperties DEF SplitInv, Typed
  <2> QED BY <2>1, <2>2, <2>3, <2>4 DEF Submitted
<1>2. Line \in Seq(Commands)
  BY ConcatProperties DEF SplitInv, Typed, Line
<1> QED BY <1>1, <1>2 DEF Done, Sent

\* A step of a thread: it stays at its launch or has come to the next one.
Steps(t, r) ==
  /\ UNCHANGED <<env, plan>> /\ thr' = [thr EXCEPT ![t] = r] /\ r \in ThreadStates
  /\ r.at = thr[t].at \/ (r.at = thr[t].at + 1 /\ r.pc = "idle")

\* Such a step changes the counts of this launch only.
LEMMA StepCounts ==
  ASSUME SplitInv, NEW t \in Threads, NEW r, Steps(t, r), thr[t].at <= Len(plan[t])
  PROVE  /\ Id(t) \in Ids /\ Launch(Id(t)) = Current(t)
         /\ \A id \in Ids \ {Id(t)} : Submitted(id)' = Submitted(id) /\ Begun(id)' = Begun(id)
         /\ Submitted(Id(t)) = IF thr[t].pc = "idle" THEN 0 ELSE thr[t].child - 1
         /\ Begun(Id(t)) = (thr[t].pc # "idle")
         /\ \A id \in Ids : id = Id(t) =>
              /\ r.at = thr[t].at + 1 => Submitted(id)' = Len(Parts(id)) /\ Begun(id)' = TRUE
              /\ r.at = thr[t].at =>
                   /\ Submitted(id)' = IF r.pc = "idle" THEN 0 ELSE r.child - 1
                   /\ Begun(id)' = (r.pc # "idle")
<1> DEFINE i == thr[t].at
<1>1. ConfigOK /\ thr \in [Threads -> ThreadStates] /\ i \in Nat \ {0}
  BY DEF SplitInv, Typed, ThreadStates
<1>2. thr'[t] = r /\ r.at \in Nat /\ \A u \in Threads \ {t} : thr'[u] = thr[u]
  BY <1>1 DEF Steps, ThreadStates
<1>3. Id(t) \in Ids /\ Id(t)[1] = t /\ Id(t)[2] = i /\ Launch(Id(t)) = Current(t)
  BY <1>1, IdsAre DEF Id, Launch, Current
<1>4. \A id \in Ids : /\ id[1] \in Threads /\ id[2] \in Nat /\ id = <<id[1], id[2]>>
                      /\ Parts(id)' = Parts(id)
  BY <1>1, IdsAre, ConfigStays DEF Steps
<1>5. \A id \in Ids \ {Id(t)} : id[1] # t \/ id[2] # i
  BY <1>4 DEF Id
<1>6. ASSUME NEW id \in Ids \ {Id(t)}
      PROVE  Submitted(id)' = Submitted(id) /\ Begun(id)' = Begun(id)
  <2>1. CASE id[1] # t
    <3>1. thr'[id[1]] = thr[id[1]]
      BY <1>2, <1>4, <2>1
    <3> QED BY <1>4, <3>1 DEF Submitted, Begun
  <2>2. CASE id[1] = t
    <3>1. id[2] # i /\ thr'[id[1]] = r /\ thr[id[1]].at = i
      BY <1>2, <1>5, <2>2
    <3>2. CASE id[2] < i
      <4>1. id[2] < r.at
        BY <1>1, <1>2, <1>4, <3>2 DEF Steps
      <4> QED BY <1>4, <3>1, <3>2, <4>1 DEF Submitted, Begun
    <3>3. CASE ~(id[2] < i)
      <4>1. id[2] > i
        BY <1>1, <1>4, <3>1, <3>3
      <4>2. ~(id[2] < r.at) /\ (id[2] = r.at => r.pc = "idle")
        BY <1>1, <1>2, <1>4, <4>1 DEF Steps
      <4> QED BY <3>1, <3>3, <4>2 DEF Submitted, Begun
    <3> QED BY <3>2, <3>3
  <2> QED BY <2>1, <2>2
<1>7. /\ Submitted(Id(t)) = IF thr[t].pc = "idle" THEN 0 ELSE thr[t].child - 1
      /\ Begun(Id(t)) = (thr[t].pc # "idle")
  BY <1>1, <1>3 DEF Submitted, Begun
<1>8. ASSUME NEW id \in Ids, id = Id(t)
      PROVE  /\ r.at = i + 1 => Submitted(id)' = Len(Parts(id)) /\ Begun(id)' = TRUE
             /\ r.at = i => /\ Submitted(id)' = IF r.pc = "idle" THEN 0 ELSE r.child - 1
                            /\ Begun(id)' = (r.pc # "idle")
  <2>1. id[1] = t /\ id[2] = i /\ thr'[id[1]] = r
    BY <1>2, <1>3, <1>8
  <2>2. r.at = i + 1 => id[2] < r.at
    BY <1>1, <2>1
  <2>3. r.at = i => ~(id[2] < r.at)
    BY <1>1, <2>1
  <2> QED BY <1>4, <2>1, <2>2, <2>3 DEF Submitted, Begun
<1> QED BY <1>3, <1>6, <1>7, <1>8

-----------------------------------------------------------------------------
(* The steps keep the invariant                                            *)

\* The line, when a command is submitted, launched or completed.
LEMMA LineMoves ==
  ASSUME NEW f \in Seq(Commands), NEW q \in Seq(Commands)
  PROVE  /\ f \o q \in Seq(Commands)
         /\ \A c \in Commands : f \o Append(q, c) = Append(f \o q, c)
         /\ q # <<>> => Append(f, Head(q)) \o Tail(q) = f \o q
         /\ f # <<>> => /\ f \o q # <<>> /\ Head(f \o q) = Head(f)
                        /\ Tail(f \o q) = Tail(f) \o q
<1>1. ASSUME NEW c \in Commands PROVE f \o Append(q, c) = Append(f \o q, c)
  <2>1. <<c>> \in Seq(Commands) /\ f \o q \in Seq(Commands)
    BY ConcatProperties
  <2>2. Append(q, c) = q \o <<c>> /\ Append(f \o q, c) = (f \o q) \o <<c>>
    BY <2>1, AppendIsConcat
  <2> QED BY <2>1, <2>2, ConcatAssociative
<1>2. ASSUME q # <<>> PROVE Append(f, Head(q)) \o Tail(q) = f \o q
  <2>1. /\ Head(q) \in Commands /\ Tail(q) \in Seq(Commands) /\ <<Head(q)>> \in Seq(Commands)
        /\ q = <<Head(q)>> \o Tail(q)
    BY <1>2, HeadTailProperties
  <2>2. Append(f, Head(q)) = f \o <<Head(q)>>
    BY <2>1, AppendIsConcat
  <2> QED BY <2>1, <2>2, ConcatAssociative
<1>3. ASSUME f # <<>>
      PROVE  f \o q # <<>> /\ Head(f \o q) = Head(f) /\ Tail(f \o q) = Tail(f) \o q
  BY <1>3, ConcatSimplifications
<1>4. f \o q \in Seq(Commands)
  BY ConcatProperties
<1> QED BY <1>1, <1>2, <1>3, <1>4

\* What a step of a thread leaves as it was.
LEMMA OthersKept ==
  ASSUME SplitInv, NEW t \in Threads, NEW r, Steps(t, r), thr[t].at <= Len(plan[t])
  PROVE  /\ \A u \in Threads \ {t} : UnderWay(u)'
         /\ \A id \in Ids \ {Id(t)} :
              ran'[id] = ran[id] /\ group'[id] = group[id] /\ result'[id] = result[id]
                => LaunchOK(id)'
<1>1. ConfigOK /\ thr \in [Threads -> ThreadStates] /\ UNCHANGED <<env, plan>>
  BY DEF SplitInv, Typed, Steps
<1>2. /\ \A id \in Ids \ {Id(t)} : Submitted(id)' = Submitted(id) /\ Begun(id)' = Begun(id)
      /\ \A id \in Ids : /\ Parts(id)' = Parts(id) /\ Split(id)' = Split(id)
                         /\ Strategy(Launch(id))' = Strategy(Launch(id))
  BY <1>1, StepCounts, ConfigStays
<1>3. ASSUME NEW id \in Ids \ {Id(t)},
             ran'[id] = ran[id], group'[id] = group[id], result'[id] = result[id]
      PROVE  LaunchOK(id)'
  <2>1. LaunchOK(id)
    BY DEF SplitInv
  <2>2. RanOK(id)'
    BY <1>2, <1>3, <2>1 DEF LaunchOK, RanOK
  <2>3. GroupOK(id)'
    BY <1>2, <1>3, <2>1 DEF LaunchOK, GroupOK
  <2>4. ResultOK(id)'
    BY <1>2, <1>3, <2>1 DEF LaunchOK, ResultOK
  <2> QED BY <2>2, <2>3, <2>4 DEF LaunchOK
<1>4. ASSUME NEW u \in Threads \ {t} PROVE UnderWay(u)'
  <2>1. thr'[u] = thr[u] /\ UnderWay(u)
    BY <1>1 DEF Steps, SplitInv
  <2> SUFFICES ASSUME thr[u].pc # "idle" PROVE UnderWay(u)'
    BY <2>1 DEF UnderWay
  <2>2. Id(u) \in Ids /\ <<u, thr[u].at>> = Id(u)
    BY <1>1, <2>1, IdsAre DEF UnderWay, Id, ThreadStates
  <2>3. \A id \in Ids : id = Id(u) => Id(u)' = id
    BY <2>1 DEF Id
  <2>4. Parts(Id(u))' = Parts(Id(u)) /\ Split(Id(u))' = Split(Id(u))
    <3>1. ASSUME NEW id \in Ids, id = Id(u)
          PROVE  Parts(Id(u))' = Parts(Id(u)) /\ Split(Id(u))' = Split(Id(u))
      BY <1>2, <2>3, <3>1
    <3> QED BY <2>2, <3>1
  <2> QED BY <1>1, <2>1, <2>4 DEF UnderWay
<1> QED BY <1>3, <1>4

\* A step of a thread keeps the invariant, if it does so for the launch it is at.
LEMMA StepKeeps ==
  ASSUME SplitInv, NEW t \in Threads, NEW r, Steps(t, r), thr[t].at <= Len(plan[t]),
         \A id \in Ids \ {Id(t)} :
           ran'[id] = ran[id] /\ group'[id] = group[id] /\ result'[id] = result[id],
         Typed', UnderWay(t)', \A id \in Ids : id = Id(t) => LaunchOK(id)',
         Ordered(Line', Done', Sent')
  PROVE  SplitInv'
<1>1. ConfigOK /\ UNCHANGED <<env, plan>>
  BY DEF SplitInv, Typed, Steps
<1>2. Ids' = Ids
  BY <1>1, ConfigStays
<1>3. \A u \in Threads : UnderWay(u)'
  BY OthersKept
<1>4. \A id \in Ids : LaunchOK(id)'
  BY OthersKept
<1>5. Ordered(Line, Done, Sent)'
  BY <1>1, OrderStays
<1> QED BY <1>2, <1>3, <1>4, <1>5 DEF SplitInv

\* The launch a thread is at when it launches: nothing of it has been sent.
LEMMA LaunchingIs ==
  ASSUME SplitInv, NEW t \in Threads, NEW way, Launching(t, way)
  PROVE  /\ ConfigOK /\ thr \in [Threads -> ThreadStates] /\ thr[t] \in ThreadStates
         /\ thr[t].at <= Len(plan[t]) /\ thr[t].pc = "idle"
         /\ Id(t) \in Ids /\ Id(t) \in Threads \X Nat /\ Launch(Id(t)) = Current(t)
         /\ Strategy(Launch(Id(t))) = way
         /\ Whole(Current(t)) \in Boxes
         /\ ran[Id(t)] = <<>> /\ Done[Id(t)] = 0 /\ Sent[Id(t)] = 0
         /\ group[Id(t)].children = <<>>
<1>1. ConfigOK /\ thr \in [Threads -> ThreadStates] /\ thr[t] \in ThreadStates
  BY DEF SplitInv, Typed
<1>2. thr[t].at <= Len(plan[t]) /\ thr[t].pc = "idle" /\ Strategy(Current(t)) = way
  BY DEF Launching
<1>3. thr[t].at \in 1..Len(plan[t])
  BY <1>1, <1>2, IdsAre DEF ThreadStates
<1>4. /\ Id(t) \in Ids /\ Id(t)[1] = t /\ Id(t)[2] = thr[t].at
      /\ Launch(Id(t)) = Current(t) /\ Launch(Id(t)) \in Launches /\ Id(t) \in Threads \X Nat
  BY <1>1, <1>3, IdsAre DEF Id, Launch, Current
<1>5. Whole(Current(t)) \in Boxes
  BY <1>4 DEF Launches, Whole, Box, Boxes, Origin
<1>6. Submitted(Id(t)) = 0 /\ ~Begun(Id(t))
  BY <1>1, <1>2, <1>4 DEF Submitted, Begun, ThreadStates
<1>7. LaunchOK(Id(t)) /\ ran[Id(t)] \in Seq(Boxes)
  BY <1>4 DEF SplitInv, Typed
<1>8. ran[Id(t)] = <<>> /\ Len(ran[Id(t)]) = 0
  BY <1>6, <1>7, EmptySeq, LenProperties DEF LaunchOK, RanOK
<1>9. group[Id(t)].children = <<>>
  BY <1>6, <1>7 DEF LaunchOK, GroupOK
<1> QED BY <1>1, <1>2, <1>4, <1>5, <1>6, <1>8, <1>9, CountsType

\* A launch is over for its thread.
After(t) == [pc |-> "idle", at |-> thr[t].at + 1, child |-> 0]

\* The step at the end of a launch (SubmitKernel).
LEMMA ReturnSteps ==
  ASSUME SplitInv, NEW t \in Threads, NEW r, Return(t, r), UNCHANGED <<env, plan>>
  PROVE  /\ Steps(t, After(t)) /\ After(t).at = thr[t].at + 1
         /\ thr' \in [Threads -> ThreadStates]
         /\ UnderWay(t)' /\ result' = [result EXCEPT ![Id(t)] = r]
<1>1. thr \in [Threads -> ThreadStates] /\ thr[t] \in ThreadStates
  BY DEF SplitInv, Typed
<1>2. After(t) \in ThreadStates /\ After(t).at = thr[t].at + 1 /\ After(t).pc = "idle"
  BY <1>1 DEF After, ThreadStates
<1>3. thr' = [thr EXCEPT ![t] = After(t)]
  BY DEF Return, After
<1>4. thr'[t] = After(t) /\ thr' \in [Threads -> ThreadStates]
  BY <1>1, <1>2, <1>3
<1>5. UnderWay(t)'
  BY <1>2, <1>4 DEF UnderWay
<1> QED BY <1>2, <1>3, <1>4, <1>5 DEF Steps, Return

\* A native launch is one part.
LEMMA NativeKeeps ==
  ASSUME SplitInv, NEW t \in Threads, LaunchNative(t)
  PROVE  SplitInv'
<1> DEFINE id == Id(t)
           l == Current(t)
           c == Command(id, "native", Whole(l))
<1>1. /\ UNCHANGED <<env, plan, adjusted, threshold, flight, group>>
      /\ Launching(t, "native") /\ Return(t, "success")
      /\ \/ queue' = Append(queue, c) /\ ran' = ran
         \/ ran' = [ran EXCEPT ![id] = Append(@, Whole(l))] /\ queue' = queue
  BY DEF LaunchNative
<1>2. /\ ConfigOK /\ thr[t].at <= Len(plan[t])
      /\ id \in Ids /\ id \in Threads \X Nat /\ Launch(id) = l /\ Strategy(l) = "native"
      /\ Whole(l) \in Boxes /\ ran[id] = <<>> /\ Done[id] = 0 /\ Sent[id] = 0
      /\ group[id].children = <<>>
  BY <1>1, LaunchingIs
<1>3. /\ Steps(t, After(t)) /\ After(t).at = thr[t].at + 1 /\ thr' \in [Threads -> ThreadStates]
      /\ UnderWay(t)' /\ result' = [result EXCEPT ![id] = "success"]
  BY <1>1, ReturnSteps
<1>4. /\ ConfigOK' /\ Ids' = Ids
      /\ \A x \in Ids : /\ Launch(x)' = Launch(x) /\ Parts(x)' = Parts(x) /\ Split(x)' = Split(x)
                        /\ Strategy(Launch(x))' = Strategy(Launch(x))
  BY <1>1, <1>2, ConfigStays
<1>5. /\ \A x \in Ids \ {id} : Submitted(x)' = Submitted(x)
      /\ \A x \in Ids : x = id => Submitted(x)' = Len(Parts(x))
  BY <1>2, <1>3, StepCounts
<1>6. Parts(id) = <<Whole(l)>> /\ Len(Parts(id)) = 1 /\ ~Split(id)
  BY <1>2, PartsAre DEF Split
<1>7. /\ Done \in [Ids -> Nat] /\ Sent \in [Ids -> Nat] /\ Line \in Seq(Commands)
      /\ \A x \in Ids : Done[x] = Len(ran[x]) /\ Sent[x] = Submitted(x)
  BY CountsType
<1>8. c \in Commands /\ Carries(c) /\ c.id = id /\ c.box = Whole(l) /\ c.type = "native"
  BY <1>2 DEF Command, Commands, Carries
<1>9. /\ queue \in Seq(Commands) /\ flight \in Seq(Commands) /\ ran \in [Ids -> Seq(Boxes)]
      /\ result \in [Ids -> {"none", "success", "error"}] /\ group \in [Ids -> Groups]
      /\ adjusted \in BOOLEAN /\ threshold \in Nat \ {0} /\ Ordered(Line, Done, Sent)
  BY DEF SplitInv, Typed
<1>10. LaunchOK(id)
  BY <1>2 DEF SplitInv
<1> HIDE DEF id, l, c
<1>11. Sent' = [Sent EXCEPT ![id] = 1]
  <2>1. Sent' = [x \in Ids |-> Submitted(x)']
    BY <1>4 DEF Sent
  <2>2. \A x \in Ids : Submitted(x)' = [Sent EXCEPT ![id] = 1][x]
    BY <1>2, <1>5, <1>6, <1>7
  <2> QED BY <1>7, <2>1, <2>2
<1>12. Sent' \in [Ids -> Nat] /\ Sent'[id] = 1 /\ \A x \in Ids \ {id} : Sent'[x] = Sent[x]
  BY <1>2, <1>7, <1>11
<1>13. CASE queue' = Append(queue, c) /\ ran' = ran
  <2>1. Line' = Append(Line, c) /\ queue' \in Seq(Commands)
    BY <1>1, <1>8, <1>9, <1>13, LineMoves, AppendProperties DEF Line
  <2>2. Done' = Done
    BY <1>4, <1>13 DEF Done
  <2>3. Part(c, 1, Done, Sent')
    BY <1>2, <1>6, <1>8, <1>12 DEF Part
  <2>4. Ordered(Line', Done', Sent')
    <3>1. /\ c.id \in Ids /\ Part(c, Sent'[c.id], Done, Sent') /\ Sent'[c.id] = Sent[c.id] + 1
          /\ \A x \in Ids \ {c.id} : Sent'[x] = Sent[x]
      BY <1>2, <1>8, <1>12, <2>3
    <3>2. Ordered(Append(Line, c), Done, Sent')
      BY <1>7, <1>8, <1>9, <1>12, <3>1, OrderedSend
    <3> QED BY <2>1, <2>2, <3>2
  <2>5. Typed'
    BY <1>1, <1>2, <1>3, <1>4, <1>9, <1>13, <2>1 DEF Typed
  <2>6. ASSUME NEW x \in Ids, x = id PROVE LaunchOK(x)'
    <3>1. RanOK(x)'
      BY <1>2, <1>4, <1>5, <1>6, <1>13, <2>6, EmptySeq DEF RanOK
    <3>2. GroupOK(x)'
      BY <1>1, <1>2, <1>4, <1>6, <2>6 DEF GroupOK
    <3>3. ResultOK(x)'
      BY <1>2, <1>3, <1>4, <1>9, <2>6 DEF ResultOK
    <3> QED BY <3>1, <3>2, <3>3 DEF LaunchOK
  <2>7. \A x \in Ids \ {id} : ran'[x] = ran[x] /\ group'[x] = group[x] /\ result'[x] = result[x]
    BY <1>1, <1>3, <1>9, <1>13
  <2> QED BY <1>2, <1>3, <2>4, <2>5, <2>6, <2>7, StepKeeps DEF id
<1>14. CASE ran' = [ran EXCEPT ![id] = Append(@, Whole(l))] /\ queue' = queue
  <2>1. Append(ran[id], Whole(l)) = <<Whole(l)>> /\ <<Whole(l)>> \in Seq(Boxes)
    BY <1>2
  <2>2. ran' \in [Ids -> Seq(Boxes)] /\ ran'[id] = <<Whole(l)>>
    BY <1>2, <1>9, <1>14, <2>1
  <2>3. Done' = [Done EXCEPT ![id] = 1]
    <3>1. Done' = [x \in Ids |-> Len(ran'[x])]
      BY <1>4 DEF Done
    <3>2. \A x \in Ids : Len(ran'[x]) = [Done EXCEPT ![id] = 1][x]
      BY <1>2, <1>7, <1>9, <1>14, <2>2
    <3> QED BY <1>7, <3>1, <3>2
  <2>4. Done' \in [Ids -> Nat] /\ Done'[id] = 1 /\ \A x \in Ids \ {id} : Done'[x] = Done[x]
    BY <1>2, <1>7, <2>3
  <2>5. \A x \in Ids : \/ Done'[x] = Done[x] /\ Sent'[x] = Sent[x]
                       \/ Done[x] = Sent[x] /\ Done'[x] = Sent'[x]
    BY <1>2, <1>12, <2>4
  <2>6. Line' = Line
    BY <1>1, <1>14 DEF Line
  <2>7. Ordered(Line', Done', Sent')
    BY <1>7, <1>9, <1>12, <2>4, <2>5, <2>6, OrderedSame
  <2>8. Typed'
    BY <1>1, <1>2, <1>3, <1>4, <1>9, <1>14, <2>2 DEF Typed
  <2>9. ASSUME NEW x \in Ids, x = id PROVE LaunchOK(x)'
    <3>1. RanOK(x)'
      BY <1>2, <1>4, <1>5, <1>6, <2>2, <2>9 DEF RanOK
    <3>2. GroupOK(x)'
      BY <1>1, <1>2, <1>4, <1>6, <2>9 DEF GroupOK
    <3>3. ResultOK(x)'
      BY <1>2, <1>3, <1>4, <1>9, <2>9 DEF ResultOK
    <3> QED BY <3>1, <3>2, <3>3 DEF LaunchOK
  <2>10. \A x \in Ids \ {id} : ran'[x] = ran[x] /\ group'[x] = group[x] /\ result'[x] = result[x]
    BY <1>1, <1>3, <1>9, <1>14
  <2> QED BY <1>2, <1>3, <2>7, <2>8, <2>9, <2>10, StepKeeps DEF id
<1> QED BY <1>1, <1>13, <1>14

\* What the invariant says of the variables.
LEMMA InvTypes ==
  ASSUME SplitInv
  PROVE  /\ ConfigOK /\ thr \in [Threads -> ThreadStates]
         /\ queue \in Seq(Commands) /\ flight \in Seq(Commands) /\ ran \in [Ids -> Seq(Boxes)]
         /\ result \in [Ids -> {"none", "success", "error"}] /\ group \in [Ids -> Groups]
         /\ adjusted \in BOOLEAN /\ threshold \in Nat \ {0} /\ Ordered(Line, Done, Sent)
         /\ Done \in [Ids -> Nat] /\ Sent \in [Ids -> Nat] /\ Line \in Seq(Commands)
         /\ \A x \in Ids : Done[x] = Len(ran[x]) /\ Sent[x] = Submitted(x) /\ LaunchOK(x)
BY CountsType DEF SplitInv, Typed

\* After a step of a thread that executes nothing, the counts of the other launches
\* are the same.
LEMMA CountsAfter ==
  ASSUME SplitInv, NEW t \in Threads, NEW r, Steps(t, r), thr[t].at <= Len(plan[t]), ran' = ran,
         NEW k \in Nat, \A x \in Ids : x = Id(t) => Submitted(x)' = k
  PROVE  /\ Done' = Done /\ Sent' \in [Ids -> Nat] /\ Id(t) \in Ids /\ Sent'[Id(t)] = k
         /\ \A x \in Ids \ {Id(t)} : Sent'[x] = Sent[x]
<1>1. /\ Sent \in [Ids -> Nat] /\ \A x \in Ids : Sent[x] = Submitted(x)
      /\ ConfigOK /\ UNCHANGED <<env, plan>>
  BY InvTypes DEF Steps
<1>2. Ids' = Ids
  BY <1>1, ConfigStays
<1>3. Id(t) \in Ids /\ \A x \in Ids \ {Id(t)} : Submitted(x)' = Submitted(x)
  BY StepCounts
<1>4. Sent' = [x \in Ids |-> Submitted(x)']
  BY <1>2 DEF Sent
<1>5. \A x \in Ids : Submitted(x)' = IF x = Id(t) THEN k ELSE Sent[x]
  BY <1>1, <1>3
<1>6. \A x \in Ids : Sent'[x] = IF x = Id(t) THEN k ELSE Sent[x]
  BY <1>4, <1>5
<1>7. Sent' \in [Ids -> Nat]
  BY <1>1, <1>4, <1>5
<1> QED BY <1>2, <1>3, <1>6, <1>7 DEF Done

\* A launch that fails has no parts.
LEMMA ErrorKeeps ==
  ASSUME SplitInv, NEW t \in Threads, LaunchError(t)
  PROVE  SplitInv'
<1> DEFINE id == Id(t)
<1>1. /\ UNCHANGED <<env, plan, adjusted, threshold, queue, flight, group, ran>>
      /\ Launching(t, "error") /\ Return(t, "error")
  BY DEF LaunchError
<1>2. /\ ConfigOK /\ thr[t].at <= Len(plan[t])
      /\ id \in Ids /\ Strategy(Launch(id)) = "error" /\ Sent[id] = 0
      /\ ran[id] = <<>> /\ group[id].children = <<>>
  BY <1>1, LaunchingIs
<1>3. /\ Steps(t, After(t)) /\ After(t).at = thr[t].at + 1 /\ thr' \in [Threads -> ThreadStates]
      /\ UnderWay(t)' /\ result' = [result EXCEPT ![id] = "error"]
  BY <1>1, ReturnSteps
<1>4. /\ ConfigOK' /\ Ids' = Ids
      /\ \A x \in Ids : /\ Launch(x)' = Launch(x) /\ Parts(x)' = Parts(x) /\ Split(x)' = Split(x)
                        /\ Strategy(Launch(x))' = Strategy(Launch(x))
  BY <1>1, <1>2, ConfigStays
<1>5. Parts(id) = <<>> /\ Len(Parts(id)) = 0 /\ ~Split(id)
  BY <1>2, PartsAre DEF Split
<1>6. \A x \in Ids : x = id => Submitted(x)' = 0
  BY <1>2, <1>3, <1>5, StepCounts
<1>7. Done' = Done /\ Sent' \in [Ids -> Nat] /\ \A x \in Ids : Sent'[x] = Sent[x]
  BY <1>1, <1>2, <1>3, <1>6, CountsAfter
<1> HIDE DEF id
<1>8. Line' = Line
  BY <1>1 DEF Line
<1>9. Ordered(Line', Done', Sent')
  BY <1>7, <1>8, InvTypes, OrderedSame
<1>10. Typed'
  BY <1>1, <1>2, <1>3, <1>4, InvTypes DEF Typed
<1>11. ASSUME NEW x \in Ids, x = id PROVE LaunchOK(x)'
  <2>1. RanOK(x)'
    BY <1>1, <1>2, <1>4, <1>6, <1>11, EmptySeq DEF RanOK
  <2>2. GroupOK(x)'
    BY <1>1, <1>2, <1>4, <1>5, <1>11 DEF GroupOK
  <2>3. ResultOK(x)'
    BY <1>2, <1>3, <1>4, <1>11, InvTypes DEF ResultOK
  <2> QED BY <2>1, <2>2, <2>3 DEF LaunchOK
<1>12. \A x \in Ids \ {id} : ran'[x] = ran[x] /\ group'[x] = group[x] /\ result'[x] = result[x]
  BY <1>1, <1>3, InvTypes
<1> QED BY <1>2, <1>3, <1>9, <1>10, <1>11, <1>12, StepKeeps DEF id

\* The wait before the launch configuration is changed is a command that is no part.
LEMMA WaitIs ==
  ASSUME NEW t \in Threads
  PROVE  WaitAll(t) \in Commands /\ ~Carries(WaitAll(t)) /\ WaitAll(t).type = "waitall"
BY DEF WaitAll, Command, Commands, Carries, Box, Boxes, Origin

\* The parts of a launch are decided, its group has them all.
LEMMA SplitKeeps ==
  ASSUME SplitInv, NEW t \in Threads, LaunchSplit(t)
  PROVE  SplitInv'
<1> DEFINE id == Id(t)
           r == [thr[t] EXCEPT !.pc = IF adjusted THEN "submit" ELSE "configure", !.child = 1]
<1>1. /\ UNCHANGED <<env, plan, threshold, flight, ran, result>>
      /\ Launching(t, "split") /\ adjusted' = TRUE
      /\ queue' = IF adjusted THEN queue ELSE Append(queue, WaitAll(t))
      /\ thr' = [thr EXCEPT ![t].pc = IF adjusted THEN "submit" ELSE "configure", ![t].child = 1]
      /\ LET splits == DecomposeGrid(Current(t).grid, env.splitBlocks)
         IN group' = [group EXCEPT ![id] =
                        [count |-> Len(splits), completed |-> 0, children |-> splits]]
  BY DEF LaunchSplit
<1>2. /\ ConfigOK /\ thr[t].at <= Len(plan[t]) /\ thr[t] \in ThreadStates
      /\ thr \in [Threads -> ThreadStates]
      /\ id \in Ids /\ Launch(id) = Current(t) /\ Strategy(Launch(id)) = "split" /\ Sent[id] = 0
      /\ ran[id] = <<>>
  BY <1>1, LaunchingIs
<1>3. /\ r \in ThreadStates /\ r.at = thr[t].at /\ r.pc # "idle" /\ r.child = 1
      /\ r.pc = "configure" => r.child = 1
  BY <1>2 DEF ThreadStates
<1>4. thr' = [thr EXCEPT ![t] = r]
  BY <1>1, <1>2 DEF ThreadStates
<1> HIDE DEF r
<1>5. Steps(t, r) /\ thr' \in [Threads -> ThreadStates] /\ thr'[t] = r
  BY <1>1, <1>2, <1>3, <1>4 DEF Steps
<1>6. /\ ConfigOK' /\ Ids' = Ids
      /\ \A x \in Ids : /\ Launch(x)' = Launch(x) /\ Parts(x)' = Parts(x) /\ Split(x)' = Split(x)
                        /\ Strategy(Launch(x))' = Strategy(Launch(x))
  BY <1>1, <1>2, ConfigStays
<1>7. /\ Split(id) /\ Parts(id) = DecomposeGrid(Current(t).grid, env.splitBlocks)
      /\ Parts(id) # <<>> /\ Parts(id) \in Seq(Boxes) /\ Len(Parts(id)) \in Nat
  BY <1>2, PartsAre DEF Split, Parts
<1>8. group' = [group EXCEPT ![id] = [count |-> Len(Parts(id)), completed |-> 0,
                                      children |-> Parts(id)]]
  BY <1>1, <1>7
<1>9. \A x \in Ids : x = Id(t) => Submitted(x)' = 0 /\ Begun(x)' = TRUE
  <2>1. \A x \in Ids : x = Id(t) =>
          /\ Submitted(x)' = IF r.pc = "idle" THEN 0 ELSE r.child - 1
          /\ Begun(x)' = (r.pc # "idle")
    BY <1>2, <1>3, <1>5, StepCounts
  <2>2. (IF r.pc = "idle" THEN 0 ELSE r.child - 1) = 0 /\ (r.pc # "idle") = TRUE
    BY <1>3
  <2> QED BY <2>1, <2>2
<1>10. Done' = Done /\ Sent' \in [Ids -> Nat] /\ \A x \in Ids : Sent'[x] = Sent[x]
  <2>1. \A x \in Ids : x = Id(t) => Submitted(x)' = 0
    BY <1>9
  <2>2. /\ Done' = Done /\ Sent' \in [Ids -> Nat] /\ Sent'[Id(t)] = 0
        /\ \A x \in Ids \ {Id(t)} : Sent'[x] = Sent[x]
    BY <1>1, <1>2, <1>5, <2>1, CountsAfter
  <2> QED BY <1>2, <2>2
<1>11. UnderWay(t)'
  <2>1. Id(t)' = id
    BY <1>3, <1>5 DEF Id
  <2>2. \A x \in Ids : x = id => Split(Id(t))' /\ Len(Parts(Id(t)))' = Len(Parts(id))
    BY <1>6, <1>7, <2>1
  <2>3. Split(Id(t))' /\ Len(Parts(Id(t)))' = Len(Parts(id))
    BY <1>2, <2>2
  <2> QED BY <1>1, <1>2, <1>3, <1>5, <1>7, <2>3 DEF UnderWay
<1>12. \A x \in Ids : x = id => Submitted(x)' = 0 /\ Begun(x)' = TRUE
  BY <1>9
<1> HIDE DEF id
<1>13. queue' \in Seq(Commands) /\ (Line' = Line \/ Line' = Append(Line, WaitAll(t)))
  <2>1. CASE adjusted
    BY <1>1, <2>1, InvTypes DEF Line
  <2>2. CASE ~adjusted
    BY <1>1, <2>2, InvTypes, WaitIs, LineMoves, AppendProperties DEF Line
  <2> QED BY <2>1, <2>2
<1>14. Ordered(Line', Done', Sent')
  <2>1. Ordered(Line', Done, Sent)
    BY <1>13, InvTypes, WaitIs, OrderedWait
  <2>2. Line' \in Seq(Commands)
    <3>1. Line \in Seq(Commands) /\ WaitAll(t) \in Commands
      BY InvTypes, WaitIs
    <3>2. Append(Line, WaitAll(t)) \in Seq(Commands)
      BY <3>1, AppendProperties
    <3> QED BY <1>13, <3>1, <3>2
  <2>3. \A x \in Ids : Done[x] = Done[x] /\ Sent'[x] = Sent[x]
    BY <1>10
  <2>4. Ordered(Line', Done, Sent')
    BY <1>10, <2>1, <2>2, <2>3, InvTypes, OrderedSame
  <2> QED BY <1>10, <2>4
<1>15. Typed'
  <2>1. group' \in [Ids -> Groups]
    BY <1>2, <1>7, <1>8, InvTypes DEF Groups
  <2> QED BY <1>1, <1>2, <1>5, <1>6, <1>13, <2>1, InvTypes DEF Typed
<1>16. ASSUME NEW x \in Ids, x = id PROVE LaunchOK(x)'
  <2>1. RanOK(x)'
    BY <1>1, <1>2, <1>6, <1>12, <1>16, EmptySeq DEF RanOK
  <2>2. group'[x].count = Len(Parts(x)) /\ group'[x].completed = 0 /\ group'[x].children = Parts(x)
    BY <1>2, <1>8, <1>16, InvTypes
  <2>3. Len(ran'[x]) = 0 /\ Len(Parts(x)) # 0
    BY <1>1, <1>2, <1>7, <1>16, EmptySeq
  <2>4. GroupOK(x)'
    BY <1>6, <1>7, <1>12, <1>16, <2>2, <2>3 DEF GroupOK
  <2>5. ResultOK(x)'
    BY <1>1, <1>6, <1>16, InvTypes DEF LaunchOK, ResultOK
  <2> QED BY <2>1, <2>4, <2>5 DEF LaunchOK
<1>17. \A x \in Ids \ {id} : ran'[x] = ran[x] /\ group'[x] = group[x] /\ result'[x] = result[x]
  BY <1>1, <1>8, InvTypes
<1> QED BY <1>2, <1>5, <1>11, <1>14, <1>15, <1>16, <1>17, StepKeeps DEF id

\* A thread that is under way has submitted the parts before thr[t].child.
LEMMA UnderWayIs ==
  ASSUME SplitInv, NEW t \in Threads, thr[t].pc # "idle"
  PROVE  /\ ConfigOK /\ thr \in [Threads -> ThreadStates] /\ thr[t] \in ThreadStates
         /\ thr[t].at <= Len(plan[t]) /\ Id(t) \in Ids /\ Id(t) \in Threads \X Nat
         /\ Split(Id(t)) /\ Parts(Id(t)) \in Seq(Boxes) /\ Len(Parts(Id(t))) \in Nat
         /\ thr[t].child \in Nat /\ thr[t].child >= 1 /\ thr[t].child <= Len(Parts(Id(t))) + 1
         /\ Sent[Id(t)] = thr[t].child - 1 /\ Submitted(Id(t)) = thr[t].child - 1
         /\ Begun(Id(t)) /\ Len(ran[Id(t)]) <= thr[t].child - 1 /\ Len(ran[Id(t)]) \in Nat
         /\ group[Id(t)].children =
              IF Len(ran[Id(t)]) = Len(Parts(Id(t))) THEN <<>> ELSE Parts(Id(t))
<1>1. ConfigOK /\ thr \in [Threads -> ThreadStates] /\ thr[t] \in ThreadStates
  BY DEF SplitInv, Typed
<1>2. /\ thr[t].at <= Len(plan[t]) /\ Split(Id(t)) /\ thr[t].child >= 1
      /\ thr[t].child <= Len(Parts(Id(t))) + 1
  BY DEF SplitInv, UnderWay
<1>3. thr[t].at \in 1..Len(plan[t]) /\ thr[t].child \in Nat
  BY <1>1, <1>2, IdsAre DEF ThreadStates
<1>4. Id(t) \in Ids /\ Id(t)[1] = t /\ Id(t)[2] = thr[t].at /\ Id(t) \in Threads \X Nat
  BY <1>1, <1>3, IdsAre DEF Id
<1>5. Parts(Id(t)) \in Seq(Boxes) /\ Len(Parts(Id(t))) \in Nat
  BY <1>1, <1>4, PartsAre
<1>6. Submitted(Id(t)) = thr[t].child - 1 /\ Begun(Id(t))
  BY <1>1, <1>3, <1>4 DEF Submitted, Begun, ThreadStates
<1>7. Sent[Id(t)] = Submitted(Id(t)) /\ LaunchOK(Id(t)) /\ Len(ran[Id(t)]) \in Nat
  BY <1>4, InvTypes, CountsType
<1>8. /\ Len(ran[Id(t)]) <= thr[t].child - 1
      /\ group[Id(t)].children =
           IF Len(ran[Id(t)]) = Len(Parts(Id(t))) THEN <<>> ELSE Parts(Id(t))
  BY <1>2, <1>6, <1>7 DEF LaunchOK, RanOK, GroupOK
<1> QED BY <1>1, <1>2, <1>3, <1>4, <1>5, <1>6, <1>7, <1>8

\* A step of a thread under way that executes nothing and changes no group.
LEMMA UnderWaySteps ==
  ASSUME SplitInv, NEW t \in Threads, thr[t].pc # "idle", NEW r, Steps(t, r),
         r.at = thr[t].at, r.pc = "submit", r.child >= thr[t].child,
         r.child <= Len(Parts(Id(t))) + 1,
         UNCHANGED <<flight, group, ran, result>>, adjusted' \in BOOLEAN,
         threshold' \in Nat \ {0}, queue' \in Seq(Commands), Ordered(Line', Done', Sent')
  PROVE  SplitInv'
<1> DEFINE id == Id(t)
<1>1. /\ ConfigOK /\ thr \in [Threads -> ThreadStates] /\ thr[t].at <= Len(plan[t])
      /\ id \in Ids /\ Split(id) /\ thr[t].child \in Nat /\ thr[t].child >= 1
      /\ Len(Parts(id)) \in Nat /\ Begun(id) /\ Submitted(id) = thr[t].child - 1
      /\ Len(ran[id]) <= thr[t].child - 1 /\ Len(ran[id]) \in Nat
  BY UnderWayIs
<1>2. r \in ThreadStates /\ thr' = [thr EXCEPT ![t] = r] /\ UNCHANGED <<env, plan>>
  BY DEF Steps
<1>3. thr' \in [Threads -> ThreadStates] /\ thr'[t] = r /\ r.child \in Nat
  BY <1>1, <1>2 DEF ThreadStates
<1>4. /\ ConfigOK' /\ Ids' = Ids
      /\ \A x \in Ids : /\ Launch(x)' = Launch(x) /\ Parts(x)' = Parts(x) /\ Split(x)' = Split(x)
                        /\ Strategy(Launch(x))' = Strategy(Launch(x))
  BY <1>1, <1>2, ConfigStays
<1>5. \A x \in Ids : x = id => Submitted(x)' = r.child - 1 /\ Begun(x)' = TRUE
  <2>1. \A x \in Ids : x = id =>
          /\ Submitted(x)' = IF r.pc = "idle" THEN 0 ELSE r.child - 1
          /\ Begun(x)' = (r.pc # "idle")
    BY <1>1, StepCounts
  <2> QED BY <2>1
<1>6. UnderWay(t)'
  <2>1. Id(t)' = id
    BY <1>3 DEF Id
  <2>2. \A x \in Ids : x = id => Split(Id(t))' /\ Len(Parts(Id(t)))' = Len(Parts(id))
    BY <1>1, <1>4, <2>1
  <2>3. Split(Id(t))' /\ Len(Parts(Id(t)))' = Len(Parts(id))
    BY <1>1, <2>2
  <2> QED BY <1>1, <1>2, <1>3, <2>3 DEF UnderWay
<1> HIDE DEF id
<1>7. Typed'
  BY <1>3, <1>4, InvTypes DEF Typed
<1>8. ASSUME NEW x \in Ids, x = id PROVE LaunchOK(x)'
  <2>1. LaunchOK(x)
    BY InvTypes
  <2>2. RanOK(x)'
    BY <1>1, <1>3, <1>4, <1>5, <1>8, <2>1 DEF LaunchOK, RanOK
  <2>3. GroupOK(x)'
    BY <1>1, <1>4, <1>5, <1>8, <2>1 DEF LaunchOK, GroupOK
  <2>4. ResultOK(x)'
    BY <1>4, <2>1 DEF LaunchOK, ResultOK
  <2> QED BY <2>2, <2>3, <2>4 DEF LaunchOK
<1>9. \A x \in Ids \ {id} : ran'[x] = ran[x] /\ group'[x] = group[x] /\ result'[x] = result[x]
  OBVIOUS
<1> QED BY <1>1, <1>6, <1>7, <1>8, <1>9, StepKeeps DEF id

\* The wait is over and the configuration changed.
LEMMA ConfigKeeps ==
  ASSUME SplitInv, NEW t \in Threads, SetLaunchConfig(t)
  PROVE  SplitInv'
<1> DEFINE r == [thr[t] EXCEPT !.pc = "submit"]
<1>1. /\ UNCHANGED <<env, plan, adjusted, queue, flight, group, ran, result>>
      /\ thr[t].pc = "configure" /\ threshold' = 1
      /\ thr' = [thr EXCEPT ![t].pc = "submit"]
  BY DEF SetLaunchConfig
<1>2. /\ ConfigOK /\ thr \in [Threads -> ThreadStates] /\ thr[t] \in ThreadStates
      /\ thr[t].at <= Len(plan[t]) /\ Id(t) \in Ids /\ thr[t].child \in Nat /\ thr[t].child >= 1
      /\ thr[t].child <= Len(Parts(Id(t))) + 1 /\ Sent[Id(t)] = thr[t].child - 1
  BY <1>1, UnderWayIs
<1>3. r \in ThreadStates /\ r.at = thr[t].at /\ r.pc = "submit" /\ r.child = thr[t].child
  BY <1>2 DEF ThreadStates
<1>4. thr' = [thr EXCEPT ![t] = r]
  BY <1>1, <1>2 DEF ThreadStates
<1> HIDE DEF r
<1>5. Steps(t, r)
  BY <1>1, <1>3, <1>4 DEF Steps
<1> DEFINE k == thr[t].child - 1
<1>6. \A x \in Ids : x = Id(t) => Submitted(x)' = k
  <2>1. \A x \in Ids : x = Id(t) => Submitted(x)' = IF r.pc = "idle" THEN 0 ELSE r.child - 1
    BY <1>2, <1>3, <1>5, StepCounts
  <2> QED BY <1>3, <2>1
<1>7. k \in Nat /\ k = Sent[Id(t)]
  BY <1>2
<1> HIDE DEF k
<1>8. /\ Done' = Done /\ Sent' \in [Ids -> Nat] /\ Sent'[Id(t)] = k
      /\ \A x \in Ids \ {Id(t)} : Sent'[x] = Sent[x]
  BY <1>1, <1>2, <1>5, <1>6, <1>7, CountsAfter
<1>9. \A x \in Ids : Done[x] = Done[x] /\ Sent'[x] = Sent[x]
  BY <1>7, <1>8
<1>10. Line' = Line
  BY <1>1 DEF Line
<1>11. Ordered(Line', Done', Sent')
  <2>1. Ordered(Line, Done, Sent')
    BY <1>8, <1>9, InvTypes, OrderedSame
  <2> QED BY <1>8, <1>10, <2>1
<1>12. /\ adjusted' \in BOOLEAN /\ threshold' \in Nat \ {0} /\ queue' \in Seq(Commands)
       /\ r.child >= thr[t].child
  BY <1>1, <1>2, <1>3, InvTypes
<1> QED BY <1>1, <1>2, <1>3, <1>5, <1>11, <1>12, UnderWaySteps

\* The next part is submitted.  The group still has it, as not all parts can be
\* completed before.
LEMMA SubmitKeeps ==
  ASSUME SplitInv, NEW t \in Threads, SubmitChild(t)
  PROVE  SplitInv'
<1> DEFINE id == Id(t)
           k == thr[t].child
           r == [thr[t] EXCEPT !.child = @ + 1]
           c == Command(id, "child", group[id].children[k])
<1>1. /\ UNCHANGED <<env, plan, adjusted, threshold, flight, group, ran, result>>
      /\ thr[t].pc = "submit" /\ k <= Len(group[id].children)
      /\ queue' = Append(queue, c) /\ thr' = [thr EXCEPT ![t].child = @ + 1]
  BY DEF SubmitChild
<1>2. /\ ConfigOK /\ thr \in [Threads -> ThreadStates] /\ thr[t] \in ThreadStates
      /\ thr[t].at <= Len(plan[t]) /\ id \in Ids /\ id \in Threads \X Nat
      /\ Split(id) /\ Parts(id) \in Seq(Boxes) /\ Len(Parts(id)) \in Nat
      /\ k \in Nat /\ k >= 1 /\ Sent[id] = k - 1
      /\ Len(ran[id]) <= k - 1 /\ Len(ran[id]) \in Nat
      /\ group[id].children = IF Len(ran[id]) = Len(Parts(id)) THEN <<>> ELSE Parts(id)
  BY <1>1, UnderWayIs
<1>3. r \in ThreadStates /\ r.at = thr[t].at /\ r.pc = "submit" /\ r.child = k + 1
  <2>1. thr[t].child + 1 \in Nat
    BY <1>2
  <2>2. r = [thr[t] EXCEPT !.child = k + 1]
    BY <1>2 DEF ThreadStates
  <2> QED BY <1>1, <1>2, <2>1, <2>2 DEF ThreadStates
<1>4. thr' = [thr EXCEPT ![t] = r]
  BY <1>1, <1>2 DEF ThreadStates
<1> HIDE DEF r
<1>5. Steps(t, r)
  BY <1>1, <1>3, <1>4 DEF Steps
<1>6. group[id].children = Parts(id) /\ k \in 1..Len(Parts(id))
  BY <1>1, <1>2, EmptySeq
<1>7. Parts(id)[k] \in Boxes
  BY <1>2, <1>6, ElementOfSeq
<1>8. /\ c \in Commands /\ Carries(c) /\ c.id = id /\ c.box = Parts(id)[k] /\ c.type = "child"
  BY <1>2, <1>6, <1>7 DEF Command, Commands, Carries
<1>9. \A x \in Ids : x = Id(t) => Submitted(x)' = k
  <2>1. \A x \in Ids : x = Id(t) => Submitted(x)' = IF r.pc = "idle" THEN 0 ELSE r.child - 1
    BY <1>2, <1>3, <1>5, StepCounts
  <2>2. r.child - 1 = k
    BY <1>2, <1>3
  <2> QED BY <1>3, <2>1, <2>2
<1>10. /\ Done' = Done /\ Sent' \in [Ids -> Nat] /\ Sent'[id] = k
       /\ \A x \in Ids \ {id} : Sent'[x] = Sent[x]
  BY <1>1, <1>2, <1>5, <1>9, CountsAfter
<1>11. Done[id] = Len(ran[id])
  BY <1>2, InvTypes
<1> HIDE DEF id, k, c
<1>12. Part(c, k, Done, Sent')
  BY <1>2, <1>6, <1>8, <1>10, <1>11 DEF Part
<1>13. Ordered(Append(Line, c), Done, Sent')
  <2>1. /\ c.id \in Ids /\ Part(c, Sent'[c.id], Done, Sent') /\ Sent'[c.id] = Sent[c.id] + 1
        /\ \A x \in Ids \ {c.id} : Sent'[x] = Sent[x]
    BY <1>2, <1>8, <1>10, <1>12
  <2> QED BY <1>8, <1>10, <2>1, InvTypes, OrderedSend
<1>14. Line' = Append(Line, c) /\ queue' \in Seq(Commands)
  BY <1>1, <1>8, InvTypes, LineMoves, AppendProperties DEF Line
<1>15. Ordered(Line', Done', Sent')
  BY <1>10, <1>13, <1>14
<1>16. /\ adjusted' \in BOOLEAN /\ threshold' \in Nat \ {0}
       /\ r.child >= thr[t].child /\ r.child <= Len(Parts(Id(t))) + 1
  BY <1>1, <1>2, <1>3, <1>6, InvTypes DEF id, k
<1> QED BY <1>1, <1>3, <1>5, <1>14, <1>15, <1>16, UnderWaySteps

\* The loop over the parts ends, because there are no more or because the listener
\* of the last one has cleared them: all have been submitted.
LEMMA EndKeeps ==
  ASSUME SplitInv, NEW t \in Threads, EndSubmit(t)
  PROVE  SplitInv'
<1> DEFINE id == Id(t)
<1>1. /\ UNCHANGED <<env, plan, adjusted, threshold, queue, flight, group, ran>>
      /\ thr[t].pc = "submit" /\ thr[t].child > Len(group[id].children)
      /\ Return(t, "success")
  BY DEF EndSubmit
<1>2. /\ ConfigOK /\ thr[t].at <= Len(plan[t]) /\ id \in Ids
      /\ Split(id) /\ Parts(id) \in Seq(Boxes) /\ Len(Parts(id)) \in Nat
      /\ thr[t].child \in Nat /\ thr[t].child <= Len(Parts(id)) + 1
      /\ Sent[id] = thr[t].child - 1 /\ Begun(id)
      /\ Len(ran[id]) <= thr[t].child - 1 /\ Len(ran[id]) \in Nat
      /\ group[id].children = IF Len(ran[id]) = Len(Parts(id)) THEN <<>> ELSE Parts(id)
  BY <1>1, UnderWayIs
<1>3. /\ Steps(t, After(t)) /\ After(t).at = thr[t].at + 1 /\ thr' \in [Threads -> ThreadStates]
      /\ UnderWay(t)' /\ result' = [result EXCEPT ![id] = "success"]
  BY <1>1, ReturnSteps
<1>4. /\ ConfigOK' /\ Ids' = Ids
      /\ \A x \in Ids : /\ Launch(x)' = Launch(x) /\ Parts(x)' = Parts(x) /\ Split(x)' = Split(x)
                        /\ Strategy(Launch(x))' = Strategy(Launch(x))
  BY <1>1, <1>2, ConfigStays
<1> DEFINE k == Len(Parts(id))
<1>5. k = Sent[id] /\ k \in Nat
  BY <1>1, <1>2
<1>6. \A x \in Ids : x = id => Submitted(x)' = k /\ Begun(x)' = TRUE
  BY <1>2, <1>3, StepCounts
<1>7. \A x \in Ids : x = Id(t) => Submitted(x)' = k
  BY <1>6
<1> HIDE DEF k
<1>8. /\ Done' = Done /\ Sent' \in [Ids -> Nat] /\ Sent'[id] = k
      /\ \A x \in Ids \ {id} : Sent'[x] = Sent[x]
  BY <1>1, <1>2, <1>3, <1>5, <1>7, CountsAfter
<1> HIDE DEF id
<1>9. \A x \in Ids : Done[x] = Done[x] /\ Sent'[x] = Sent[x]
  BY <1>5, <1>8
<1>10. Line' = Line
  BY <1>1 DEF Line
<1>11. Ordered(Line', Done', Sent')
  <2>1. Ordered(Line, Done, Sent')
    BY <1>8, <1>9, InvTypes, OrderedSame
  <2> QED BY <1>8, <1>10, <2>1
<1>12. Typed'
  BY <1>1, <1>2, <1>3, <1>4, InvTypes DEF Typed
<1>13. ASSUME NEW x \in Ids, x = id PROVE LaunchOK(x)'
  <2>1. LaunchOK(x) /\ Submitted(x) = k
    BY <1>5, <1>13, InvTypes
  <2>2. RanOK(x)'
    BY <1>1, <1>4, <1>6, <1>13, <2>1 DEF LaunchOK, RanOK
  <2>3. GroupOK(x)'
    BY <1>1, <1>2, <1>4, <1>6, <1>13, <2>1 DEF LaunchOK, GroupOK
  <2>4. ResultOK(x)'
    BY <1>2, <1>3, <1>4, <1>13, InvTypes DEF ResultOK, Split
  <2> QED BY <2>2, <2>3, <2>4 DEF LaunchOK
<1>14. \A x \in Ids \ {id} : ran'[x] = ran[x] /\ group'[x] = group[x] /\ result'[x] = result[x]
  BY <1>1, <1>3, InvTypes
<1> QED BY <1>2, <1>3, <1>11, <1>12, <1>13, <1>14, StepKeeps DEF id

\* No more parts are submitted than there are, and none before the launch has begun.
LEMMA SubmittedBound ==
  ASSUME SplitInv, NEW id \in Ids
  PROVE  Submitted(id) <= Len(Parts(id)) /\ (Submitted(id) > 0 => Begun(id))
<1>1. /\ ConfigOK /\ id[1] \in Threads /\ id[2] \in Nat /\ id = <<id[1], id[2]>>
      /\ Len(Parts(id)) \in Nat
  BY InvTypes, IdsAre, PartsAre
<1>2. thr[id[1]] \in ThreadStates
  BY <1>1, InvTypes
<1>3. CASE id[2] < thr[id[1]].at
  BY <1>1, <1>3 DEF Submitted, Begun
<1>4. CASE ~(id[2] < thr[id[1]].at) /\ id[2] = thr[id[1]].at /\ thr[id[1]].pc # "idle"
  <2>1. id = Id(id[1])
    BY <1>1, <1>4 DEF Id
  <2>2. thr[id[1]].child \in Nat /\ thr[id[1]].child <= Len(Parts(id)) + 1
    BY <1>1, <1>4, <2>1, UnderWayIs
  <2> QED BY <1>1, <1>4, <2>2 DEF Submitted, Begun
<1>5. CASE ~(id[2] < thr[id[1]].at) /\ ~(id[2] = thr[id[1]].at /\ thr[id[1]].pc # "idle")
  BY <1>1, <1>5 DEF Submitted
<1> QED BY <1>3, <1>4, <1>5

\* While the threads stand still, so do the counts of submitted parts.
LEMMA QueueCounts ==
  ASSUME SplitInv, UNCHANGED <<env, plan, thr>>
  PROVE  /\ Ids' = Ids /\ ConfigOK' /\ Sent' = Sent /\ \A t \in Threads : UnderWay(t)'
         /\ \A x \in Ids : /\ Submitted(x)' = Submitted(x) /\ Begun(x)' = Begun(x)
                           /\ Parts(x)' = Parts(x) /\ Split(x)' = Split(x)
                           /\ Strategy(Launch(x))' = Strategy(Launch(x))
<1>1. /\ ConfigOK' /\ Ids' = Ids
      /\ \A x \in Ids : /\ Parts(x)' = Parts(x) /\ Split(x)' = Split(x)
                        /\ Strategy(Launch(x))' = Strategy(Launch(x))
  BY InvTypes, ConfigStays
<1>2. \A x \in Ids : Submitted(x)' = Submitted(x) /\ Begun(x)' = Begun(x)
  BY <1>1 DEF Submitted, Begun
<1>3. Sent' = Sent
  BY <1>1, <1>2 DEF Sent
<1>4. ASSUME NEW t \in Threads PROVE UnderWay(t)'
  <2>1. UnderWay(t)
    BY DEF SplitInv
  <2> SUFFICES ASSUME thr[t].pc # "idle" PROVE UnderWay(t)'
    BY DEF UnderWay
  <2>2. Id(t) \in Ids
    BY UnderWayIs
  <2>3. \A x \in Ids : x = Id(t) => Parts(Id(t))' = Parts(Id(t)) /\ Split(Id(t))' = Split(Id(t))
    <3>1. Id(t)' = Id(t)
      BY DEF Id
    <3> QED BY <1>1, <3>1
  <2> QED BY <2>1, <2>2, <2>3 DEF UnderWay
<1> QED BY <1>1, <1>2, <1>3, <1>4

\* A launch of which nothing changes is as it was.
LEMMA LaunchStays ==
  ASSUME SplitInv, NEW x \in Ids, ran'[x] = ran[x], group'[x] = group[x],
         result'[x] = result[x], Submitted(x)' = Submitted(x), Begun(x)' = Begun(x),
         Parts(x)' = Parts(x), Split(x)' = Split(x),
         Strategy(Launch(x))' = Strategy(Launch(x))
  PROVE  LaunchOK(x)'
<1>1. RanOK(x) /\ GroupOK(x) /\ ResultOK(x)
  BY DEF SplitInv, LaunchOK
<1>2. RanOK(x)'
  BY <1>1 DEF RanOK
<1>3. GroupOK(x)'
  BY <1>1 DEF GroupOK
<1>4. ResultOK(x)'
  BY <1>1 DEF ResultOK
<1> QED BY <1>2, <1>3, <1>4 DEF LaunchOK

\* The worker launches a command: the line is the same.
LEMMA WorkerKeeps ==
  ASSUME SplitInv, WorkerLaunch
  PROVE  SplitInv'
<1>1. /\ queue # <<>> /\ queue' = Tail(queue) /\ flight' = Append(flight, Head(queue))
      /\ UNCHANGED <<env, plan, thr, adjusted, threshold, group, ran, result>>
  BY DEF WorkerLaunch
<1>2. /\ Ids' = Ids /\ ConfigOK' /\ Sent' = Sent /\ \A t \in Threads : UnderWay(t)'
      /\ \A x \in Ids : /\ Submitted(x)' = Submitted(x) /\ Begun(x)' = Begun(x)
                        /\ Parts(x)' = Parts(x) /\ Split(x)' = Split(x)
                        /\ Strategy(Launch(x))' = Strategy(Launch(x))
  BY <1>1, QueueCounts
<1>3. Line' = Line /\ Done' = Done
  BY <1>1, <1>2, InvTypes, LineMoves DEF Line, Done
<1>4. Ordered(Line, Done, Sent)'
  BY <1>1, <1>2, <1>3, InvTypes, OrderStays
<1>5. queue' \in Seq(Commands) /\ flight' \in Seq(Commands)
  BY <1>1, InvTypes, HeadTailProperties, AppendProperties
<1>6. Typed'
  BY <1>1, <1>2, <1>5, InvTypes DEF Typed
<1>7. \A x \in Ids : LaunchOK(x)'
  BY <1>1, <1>2, InvTypes DEF LaunchOK, RanOK, GroupOK, ResultOK
<1> QED BY <1>2, <1>4, <1>6, <1>7 DEF SplitInv

\* A command is completed: it is the next part of its launch, and the listener of
\* the last part clears the group.
LEMMA CompleteKeeps ==
  ASSUME SplitInv, Complete
  PROVE  SplitInv'
<1> DEFINE c == Head(flight)
           id == c.id
<1>1. /\ flight # <<>> /\ flight' = Tail(flight)
      /\ UNCHANGED <<env, plan, thr, adjusted, threshold, queue, result>>
      /\ ran' = IF c.type = "waitall" THEN ran ELSE [ran EXCEPT ![id] = Append(@, c.box)]
      /\ group' = IF c.type # "child" THEN group
                  ELSE LET g == [group[id] EXCEPT !.completed = @ + 1]
                       IN [group EXCEPT ![id] =
                             IF GroupEnds(g) THEN [g EXCEPT !.children = <<>>] ELSE g]
  BY DEF Complete
<1>2. /\ Ids' = Ids /\ ConfigOK' /\ Sent' = Sent /\ \A t \in Threads : UnderWay(t)'
      /\ \A x \in Ids : /\ Submitted(x)' = Submitted(x) /\ Begun(x)' = Begun(x)
                        /\ Parts(x)' = Parts(x) /\ Split(x)' = Split(x)
                        /\ Strategy(Launch(x))' = Strategy(Launch(x))
  BY <1>1, QueueCounts
<1>3. /\ Line # <<>> /\ c = Head(Line) /\ Line' = Tail(Line)
      /\ flight' \in Seq(Commands) /\ c \in Commands
  BY <1>1, InvTypes, LineMoves, HeadTailProperties DEF Line
<1>4. c.box \in Boxes
  BY <1>3 DEF Commands
<1> HIDE DEF c
<1>5. CASE ~Carries(c)
  <2>1. ran' = ran /\ group' = group
    BY <1>1, <1>5 DEF Carries
  <2>2. Done' = Done
    BY <1>2, <2>1 DEF Done
  <2>3. Ordered(Tail(Line), Done, Sent)
    BY <1>3, <1>5, InvTypes, OrderedTake
  <2>4. Ordered(Line, Done, Sent)'
    BY <1>1, <1>2, <1>3, <2>2, <2>3, InvTypes, OrderStays
  <2>5. Typed'
    BY <1>1, <1>2, <1>3, <2>1, InvTypes DEF Typed
  <2>6. \A x \in Ids : LaunchOK(x)'
    BY <1>1, <1>2, <2>1, LaunchStays
  <2> QED BY <1>2, <2>4, <2>5, <2>6 DEF SplitInv
<1>6. CASE Carries(c)
  <2> DEFINE k == Len(ran[id])
             e == [x \in Ids |-> IF x = id THEN Done[x] + 1 ELSE Done[x]]
  <2>1. e \in [Ids -> Nat]
    BY InvTypes
  <2>2. id \in Ids
    <3>1. PICK num : Numbers(num, Line, Done, Sent)
      BY InvTypes DEF Ordered
    <3>2. 1 \in 1..Len(Line) /\ c = Line[1]
      BY <1>3, InvTypes, BehindFirst
    <3> QED BY <1>6, <3>1, <3>2 DEF Numbers, Part
  <2>3. e[id] = Done[id] + 1 /\ \A x \in Ids \ {id} : e[x] = Done[x]
    BY <2>2
  <2> HIDE DEF e
  <2>4. Ordered(Tail(Line), e, Sent) /\ Part(c, Done[id] + 1, Done, Sent)
    BY <1>3, <1>6, <2>1, <2>3, InvTypes, OrderedTake
  <2>5. /\ k \in Nat /\ Done[id] = k /\ Sent[id] = Submitted(id) /\ LaunchOK(id)
        /\ ran[id] \in Seq(Boxes) /\ Submitted(id) \in Nat
    BY <2>2, InvTypes, CountsType
  <2>6. /\ k + 1 <= Submitted(id) /\ c.box = Parts(id)[k + 1]
        /\ c.type = IF Split(id) THEN "child" ELSE "native"
    BY <2>4, <2>5 DEF Part
  <2>7. /\ ran' = [ran EXCEPT ![id] = Append(@, c.box)]
        /\ ran'[id] = Append(ran[id], c.box) /\ \A x \in Ids \ {id} : ran'[x] = ran[x]
    BY <1>1, <1>6, <2>2, InvTypes DEF Carries
  <2>8. /\ ran'[id] \in Seq(Boxes) /\ Len(ran'[id]) = k + 1 /\ ran'[id][k + 1] = c.box
        /\ \A i \in 1..k : ran'[id][i] = ran[id][i]
    BY <1>4, <2>5, <2>7, AppendProperties
  <2>9. Done' = e
    <3>1. Done' = [x \in Ids |-> Len(ran'[x])]
      BY <1>2 DEF Done
    <3>2. \A x \in Ids : Len(ran'[x]) = e[x]
      BY <2>3, <2>5, <2>7, <2>8, InvTypes
    <3> QED BY <2>1, <3>1, <3>2
  <2>10. Ordered(Line, Done, Sent)'
    BY <1>1, <1>2, <1>3, <2>4, <2>9, InvTypes, OrderStays
  <2>11. Submitted(id) <= Len(Parts(id)) /\ Begun(id) /\ Len(Parts(id)) \in Nat
    BY <2>2, <2>5, <2>6, SubmittedBound, InvTypes, PartsAre
  <2>12. group[id] \in Groups
    BY <2>2, InvTypes
  <2>13. /\ group' \in [Ids -> Groups]
         /\ \A x \in Ids \ {id} : group'[x] = group[x]
         /\ ~Split(id) => group'[id] = group[id]
         /\ Split(id) => /\ group'[id].count = group[id].count
                         /\ group'[id].completed = group[id].completed + 1
                         /\ group'[id].children =
                              IF group[id].completed + 1 = group[id].count THEN <<>>
                              ELSE group[id].children
    <3>1. CASE ~Split(id)
      BY <1>1, <2>6, <3>1, InvTypes
    <3>2. CASE Split(id)
      <4> DEFINE g == [group[id] EXCEPT !.completed = @ + 1]
                 h == IF GroupEnds(g) THEN [g EXCEPT !.children = <<>>] ELSE g
      <4>1. group' = [group EXCEPT ![id] = h]
        BY <1>1, <2>6, <3>2
      <4>2. /\ g \in Groups /\ g.count = group[id].count
            /\ g.completed = group[id].completed + 1 /\ g.children = group[id].children
        BY <2>12 DEF Groups
      <4> HIDE DEF g
      <4>3. /\ h \in Groups /\ h.count = g.count /\ h.completed = g.completed
            /\ h.children = IF g.completed = g.count THEN <<>> ELSE g.children
        BY <4>2, EmptySeq DEF Groups, GroupEnds
      <4> HIDE DEF h
      <4> QED BY <2>2, <3>2, <4>1, <4>2, <4>3, InvTypes
    <3> QED BY <3>1, <3>2
  <2>14. ran' \in [Ids -> Seq(Boxes)]
    BY <2>2, <2>7, <2>8, InvTypes
  <2>15. Typed'
    BY <1>1, <1>2, <1>3, <2>13, <2>14, InvTypes DEF Typed
  <2>16. ASSUME NEW x \in Ids, x = id PROVE LaunchOK(x)'
    <3>1. RanOK(x)'
      <4>1. \A i \in 1..(k + 1) : ran'[id][i] = Parts(id)[i]
        <5>1. \A i \in 1..k : ran[id][i] = Parts(id)[i]
          BY <2>5 DEF LaunchOK, RanOK
        <5>2. \A i \in 1..(k + 1) : i \in 1..k \/ i = k + 1
          BY <2>5
        <5> QED BY <2>6, <2>8, <5>1, <5>2
      <4> HIDE DEF k
      <4> QED BY <1>2, <2>6, <2>8, <2>16, <4>1 DEF RanOK
    <3>2. GroupOK(x)'
      <4>1. CASE ~Split(id)
        BY <1>2, <2>5, <2>13, <2>16, <4>1 DEF LaunchOK, GroupOK
      <4>2. CASE Split(id)
        <5>1. /\ group[id].count = Len(Parts(id)) /\ group[id].completed = k
              /\ group[id].children = IF k = Len(Parts(id)) THEN <<>> ELSE Parts(id)
          BY <2>5, <2>11, <4>2 DEF LaunchOK, GroupOK
        <5>2. k # Len(Parts(id))
          BY <2>5, <2>6, <2>11
        <5> QED BY <1>2, <2>8, <2>11, <2>13, <2>16, <4>2, <5>1, <5>2 DEF GroupOK
      <4> QED BY <4>1, <4>2
    <3>3. ResultOK(x)'
      BY <1>1, <1>2, <2>5, <2>16 DEF LaunchOK, ResultOK
    <3> QED BY <3>1, <3>2, <3>3 DEF LaunchOK
  <2>17. \A x \in Ids \ {id} : LaunchOK(x)'
    <3>1. result' = result
      BY <1>1
    <3> QED BY <1>2, <2>7, <2>13, <3>1, LaunchStays
  <2>18. \A x \in Ids : LaunchOK(x)'
    BY <2>16, <2>17
  <2> QED BY <1>2, <2>10, <2>15, <2>18 DEF SplitInv
<1> QED BY <1>5, <1>6

\* The invariant holds at the beginning, when nothing has been launched.
LEMMA SplitInit == Init => SplitInv
<1> SUFFICES ASSUME Init PROVE SplitInv
  OBVIOUS
<1>1. ConfigOK
  BY DEF Init, ConfigOK
<1>2. /\ thr = [t \in Threads |-> [pc |-> "idle", at |-> 1, child |-> 0]]
      /\ queue = <<>> /\ flight = <<>> /\ group = [i \in Ids |-> NoGroup]
      /\ ran = [i \in Ids |-> <<>>] /\ result = [i \in Ids |-> "none"]
      /\ adjusted = FALSE /\ threshold = Threshold0
  BY DEF Init
<1>3. Typed
  <2>1. [pc |-> "idle", at |-> 1, child |-> 0] \in ThreadStates
    BY DEF ThreadStates
  <2>2. <<>> \in Seq(Boxes) /\ <<>> \in Seq(Commands)
    BY EmptySeq
  <2>3. NoGroup \in Groups
    BY <2>2 DEF NoGroup, Groups
  <2>4. threshold \in Nat \ {0} /\ adjusted \in BOOLEAN
    BY <1>2, SplitAssumption
  <2> QED BY <1>1, <1>2, <2>1, <2>2, <2>3, <2>4 DEF Typed
<1>4. \A t \in Threads : UnderWay(t)
  BY <1>2 DEF UnderWay
<1>5. ASSUME NEW id \in Ids
      PROVE  Submitted(id) = 0 /\ ~Begun(id) /\ ran[id] = <<>> /\ Len(ran[id]) = 0
  <2>1. id[1] \in Threads /\ id[2] \in Nat /\ id[2] >= 1
    BY <1>1, IdsAre
  <2>2. thr[id[1]] = [pc |-> "idle", at |-> 1, child |-> 0]
    BY <1>2, <2>1
  <2> QED BY <1>2, <2>1, <2>2, EmptySeq DEF Submitted, Begun
<1>6. ASSUME NEW id \in Ids PROVE LaunchOK(id)
  BY <1>2, <1>5 DEF LaunchOK, RanOK, GroupOK, ResultOK, NoGroup
<1>7. Line = <<>> /\ Len(Line) = 0
  BY <1>2 DEF Line
<1>8. \A id \in Ids : Done[id] = 0 /\ Sent[id] = 0
  BY <1>5 DEF Done, Sent
<1>9. Numbers(<<>>, Line, Done, Sent)
  BY <1>7, <1>8 DEF Numbers
<1> QED BY <1>3, <1>4, <1>6, <1>9 DEF SplitInv, Ordered

\* Every step keeps the invariant.
LEMMA SplitNext == SplitInv /\ [Next]_vars => SplitInv'
<1> SUFFICES ASSUME SplitInv, [Next]_vars PROVE SplitInv'
  OBVIOUS
<1>1. CASE \E t \in Threads : \/ LaunchNative(t) \/ LaunchError(t) \/ LaunchSplit(t)
                              \/ SetLaunchConfig(t) \/ SubmitChild(t) \/ EndSubmit(t)
  BY <1>1, NativeKeeps, ErrorKeeps, SplitKeeps, ConfigKeeps, SubmitKeeps, EndKeeps
<1>2. CASE WorkerLaunch \/ Complete
  BY <1>2, WorkerKeeps, CompleteKeeps
<1>3. CASE UNCHANGED vars
  <2>1. UNCHANGED <<env, plan, thr, adjusted, threshold, queue, flight, group, ran, result>>
    BY <1>3 DEF vars
  <2>2. /\ Ids' = Ids /\ ConfigOK' /\ Sent' = Sent /\ \A t \in Threads : UnderWay(t)'
        /\ \A x \in Ids : /\ Submitted(x)' = Submitted(x) /\ Begun(x)' = Begun(x)
                          /\ Parts(x)' = Parts(x) /\ Split(x)' = Split(x)
                          /\ Strategy(Launch(x))' = Strategy(Launch(x))
    BY <2>1, QueueCounts
  <2>3. Line' = Line /\ Done' = Done
    BY <2>1, <2>2 DEF Line, Done
  <2>4. Ordered(Line, Done, Sent)'
    BY <2>1, <2>2, <2>3, InvTypes, OrderStays
  <2>5. Typed'
    BY <2>1, <2>2, InvTypes DEF Typed
  <2>6. \A x \in Ids : LaunchOK(x)'
    BY <2>1, <2>2, InvTypes DEF LaunchOK, RanOK, GroupOK, ResultOK
  <2> QED BY <2>2, <2>4, <2>5, <2>6 DEF SplitInv
<1> QED BY <1>1, <1>2, <1>3 DEF Next

-----------------------------------------------------------------------------
(* What has been executed in the end                                       *)

\* When everything is over, a launch has executed its parts, in order.
LEMMA AllExecuted ==
  ASSUME SplitInv, Over, NEW id \in Ids
  PROVE  Begun(id) /\ ran[id] = Parts(id)
<1>1. /\ ConfigOK /\ queue \in Seq(Commands) /\ flight \in Seq(Commands)
      /\ ran[id] \in Seq(Boxes) /\ Done[id] = Len(ran[id]) /\ Sent[id] = Submitted(id)
      /\ LaunchOK(id) /\ Len(ran[id]) \in Nat /\ Submitted(id) \in Nat
  BY InvTypes, CountsType
<1>2. /\ id[1] \in Threads /\ id[2] \in 1..Len(plan[id[1]]) /\ Len(plan[id[1]]) \in Nat
      /\ Parts(id) \in Seq(Boxes) /\ Len(Parts(id)) \in Nat
  BY <1>1, IdsAre, PartsAre
<1>3. thr[id[1]].at > Len(plan[id[1]]) /\ thr[id[1]].at \in Nat
  BY <1>2, InvTypes DEF Over, ThreadStates
<1>4. Submitted(id) = Len(Parts(id)) /\ Begun(id)
  BY <1>2, <1>3 DEF Submitted, Begun
<1>5. Len(Line) = 0
  <2>1. Len(queue \o flight) = 0 /\ Len(queue \o flight) = Len(queue) + Len(flight)
    BY <1>1, ConcatProperties DEF Over
  <2>2. Len(queue) \in Nat /\ Len(flight) \in Nat
    BY <1>1, LenProperties
  <2>3. Len(flight \o queue) = Len(flight) + Len(queue)
    BY <1>1, ConcatProperties
  <2> QED BY <2>1, <2>2, <2>3 DEF Line
<1>6. Len(ran[id]) = Submitted(id)
  <2>1. PICK num : Numbers(num, Line, Done, Sent)
    BY InvTypes DEF Ordered
  <2>2. ~(Done[id] < Submitted(id) /\ Submitted(id) <= Sent[id])
    BY <1>1, <1>5, <2>1 DEF Numbers
  <2> QED BY <1>1, <2>2 DEF LaunchOK, RanOK
<1>7. \A k \in 1..Len(ran[id]) : ran[id][k] = Parts(id)[k]
  BY <1>1 DEF LaunchOK, RanOK
<1>8. ran[id] = Parts(id)
  BY <1>1, <1>2, <1>4, <1>6, <1>7, SeqEqual
<1> QED BY <1>4, <1>8

\* A block is given by its three numbers.
LEMMA BlocksHave ==
  ASSUME NEW l, NEW b, NEW p \in BlocksOf(l, b)
  PROVE  \E x, y, z : p = <<x, y, z>>
BY DEF BlocksOf

\* A launch whose parts have been executed has executed every block once.
LEMMA PartsExecute ==
  ASSUME ConfigOK, NEW id \in Ids, ran[id] = Parts(id), Strategy(Launch(id)) # "error"
  PROVE  ExecutedAll(id) /\ NoneTwice(id)
<1> DEFINE l == Launch(id)
           s == Parts(id)
           w == Whole(l)
<1>1. /\ l \in Launches /\ s \in Seq(Boxes) /\ Len(s) \in Nat
      /\ DOMAIN s = 1..Len(s) /\ \A i \in 1..Len(s) : s[i] \in Boxes
  BY IdsAre, PartsAre, LenProperties, ElementOfSeq
<1>2. Executed(id) = UNION {BlocksOf(l, s[i]) : i \in 1..Len(s)}
  BY <1>1 DEF Executed, ToSet
<1>3. CASE Strategy(l) = "native"
  <2>1. s = <<w>>
    BY <1>3, PartsAre
  <2>2. Len(s) = 1 /\ s[1] = w
    BY <2>1
  <2> HIDE DEF s, w
  <2>3. Executed(id) = BlocksOf(l, w)
    BY <1>2, <2>2
  <2>4. \A i, j \in 1..Len(s) : ~(i < j)
    BY <2>2
  <2> QED BY <1>1, <2>3, <2>4 DEF ExecutedAll, NoneTwice, s, w
<1>4. CASE Strategy(l) = "split"
  <2>1. Parted(s, w, env.splitBlocks) /\ CapabilitySupportsGrid(l)
    BY <1>4, PartsAre DEF Split
  <2>2. w \in Boxes /\ Inside(w, w)
    <3>1. w \in Boxes /\ w.off \in [Axes -> Nat] /\ w.len \in [Axes -> Nat]
      BY <1>1 DEF Launches, Whole, Box, Boxes, Origin
    <3> HIDE DEF w
    <3> QED BY <3>1 DEF Inside
  <2> HIDE DEF l, s, w
  <2>3. \A i \in 1..Len(s) : Inside(s[i], w)
    BY <2>1 DEF Parted
  <2>4. ASSUME NEW x, NEW y, NEW z
        PROVE  /\ <<x, y, z>> \in BlocksOf(l, w) <=>
                    <<x, y, z>> \in Grid /\ Holds(w, <<x, y, z>>)
               /\ \A i \in 1..Len(s) : <<x, y, z>> \in BlocksOf(l, s[i]) <=>
                    <<x, y, z>> \in Grid /\ Holds(s[i], <<x, y, z>>)
    <3>1. <<x, y, z>> \in BlocksOf(l, w) <=>
            <<x, y, z>> \in Grid /\ Holds(w, <<x, y, z>>)
      BY <1>1, <2>1, <2>2, BlocksAre DEF w
    <3>2. ASSUME NEW i \in 1..Len(s)
          PROVE  <<x, y, z>> \in BlocksOf(l, s[i]) <=>
                   <<x, y, z>> \in Grid /\ Holds(s[i], <<x, y, z>>)
      <4>1. s[i] \in Boxes /\ Inside(s[i], Whole(l))
        BY <1>1, <2>3 DEF w, s
      <4> QED BY <1>1, <2>1, <4>1, BlocksAre DEF l
    <3> QED BY <3>1, <3>2
  <2>5. \A p \in Grid : Holds(w, p) <=> \E i \in 1..Len(s) : Holds(s[i], p)
    <3>1. ASSUME NEW p \in Grid, NEW i \in 1..Len(s), Holds(s[i], p) PROVE Holds(w, p)
      <4>1. \A a \in Axes : /\ p[a] \in Nat /\ w.off[a] \in Nat /\ w.len[a] \in Nat
                            /\ s[i].off[a] \in Nat /\ s[i].len[a] \in Nat
        BY <1>1, <2>2 DEF Grid, Boxes, s
      <4>2. Inside(s[i], w)
        BY <2>3
      <4> QED BY <3>1, <4>1, <4>2 DEF Holds, Inside
    <3>2. \A p \in Grid : Holds(w, p) => \E i \in 1..Len(s) : Holds(s[i], p)
      BY <2>1 DEF Parted
    <3> QED BY <3>1, <3>2
  <2>6. ASSUME NEW x, NEW y, NEW z
        PROVE  <<x, y, z>> \in BlocksOf(l, w) <=>
                 \E i \in 1..Len(s) : <<x, y, z>> \in BlocksOf(l, s[i])
    BY <2>4, <2>5
  <2>7. Executed(id) = BlocksOf(l, w)
    <3>1. Executed(id) = UNION {BlocksOf(l, s[i]) : i \in 1..Len(s)}
      BY <1>2 DEF l, s
    <3>2. ASSUME NEW p \in BlocksOf(l, w) PROVE p \in Executed(id)
      <4>1. PICK x, y, z : p = <<x, y, z>>
        BY BlocksHave
      <4>2. PICK i \in 1..Len(s) : p \in BlocksOf(l, s[i])
        BY <2>6, <4>1
      <4> QED BY <3>1, <4>2
    <3>3. ASSUME NEW p \in Executed(id) PROVE p \in BlocksOf(l, w)
      <4>1. PICK i \in 1..Len(s) : p \in BlocksOf(l, s[i])
        BY <3>1
      <4>2. PICK x, y, z : p = <<x, y, z>>
        BY <4>1, BlocksHave
      <4> QED BY <2>6, <4>1, <4>2
    <3> QED BY <3>2, <3>3
  <2>8. ASSUME NEW i \in 1..Len(s), NEW j \in 1..Len(s), i < j
        PROVE  BlocksOf(l, s[i]) \cap BlocksOf(l, s[j]) = {}
    <3> SUFFICES ASSUME NEW p \in BlocksOf(l, s[i]), p \in BlocksOf(l, s[j]) PROVE FALSE
      OBVIOUS
    <3>1. PICK x, y, z : p = <<x, y, z>>
      BY BlocksHave
    <3>2. p \in Grid /\ Holds(s[i], p) /\ Holds(s[j], p)
      BY <2>4, <3>1
    <3> QED BY <2>1, <2>8, <3>2 DEF Parted
  <2>9. NoneTwice(id)
    BY <1>1, <2>8 DEF NoneTwice, l, s
  <2> QED BY <2>7, <2>9 DEF ExecutedAll, l, w
<1>5. Strategy(l) \in {"native", "split", "error"}
  BY PartsAre
<1> QED BY <1>3, <1>4, <1>5

\* SplitInv holds throughout.
LEMMA SplitAlways == Spec => []SplitInv
<1>1. Init => SplitInv
  BY SplitInit
<1>2. SplitInv /\ [Next]_vars => SplitInv'
  BY SplitNext
<1> QED BY <1>1, <1>2, PTL DEF Spec

\* Every launch that succeeded has executed every block of its grid exactly once
\* in the end, whatever its size, the number of threads and the configuration; one
\* that failed has executed none (SubmitSplitCommands).
THEOREM EveryBlockOnce == Spec => []ExecutedOnce
<1>1. SplitInv => ExecutedOnce
  <2> SUFFICES ASSUME SplitInv, NEW id \in Ids
               PROVE  /\ Over /\ result[id] = "success" => ExecutedAll(id) /\ NoneTwice(id)
                      /\ result[id] = "error" => ran[id] = <<>>
    BY DEF ExecutedOnce
  <2>1. ConfigOK /\ LaunchOK(id) /\ ran[id] \in Seq(Boxes)
    BY InvTypes
  <2>2. ASSUME Over, result[id] = "success" PROVE ExecutedAll(id) /\ NoneTwice(id)
    <3>1. ran[id] = Parts(id)
      BY <2>2, AllExecuted
    <3>2. Strategy(Launch(id)) # "error"
      BY <2>1, <2>2 DEF LaunchOK, ResultOK
    <3> QED BY <2>1, <3>1, <3>2, PartsExecute
  <2>3. ASSUME result[id] = "error" PROVE ran[id] = <<>>
    <3>1. Strategy(Launch(id)) = "error"
      BY <2>1, <2>3 DEF LaunchOK, ResultOK
    <3>2. Parts(id) = <<>>
      BY <2>1, <3>1, PartsAre
    <3>3. Submitted(id) <= 0
      BY <3>2, SubmittedBound
    <3>4. Len(ran[id]) = 0
      BY <2>1, <3>3, CountsType DEF LaunchOK, RanOK
    <3> QED BY <2>1, <3>4, EmptySeq
  <2> QED BY <2>2, <2>3
<1> QED BY <1>1, SplitAlways, PTL

\* In the end no group holds its commands (the listener of SubmitSplitCommands).
THEOREM GroupsAreReleased == Spec => []GroupsReleased
<1>1. SplitInv => GroupsReleased
  <2> SUFFICES ASSUME SplitInv, Over, NEW id \in Ids PROVE group[id].children = <<>>
    BY DEF GroupsReleased
  <2>1. LaunchOK(id) /\ Begun(id) /\ ran[id] = Parts(id)
    BY InvTypes, AllExecuted
  <2> QED BY <2>1 DEF LaunchOK, GroupOK
<1> QED BY <1>1, SplitAlways, PTL

-----------------------------------------------------------------------------
(* How long a preemption waits                                             *)

\* One thread has launches at most.
Alone ==
  \A t, u \in Threads : plan[t] # <<>> /\ plan[u] # <<>> => t = u
NoChild(s) == \A i \in 1..Len(s) : s[i].type # "child"

\* Before the threshold is 1 no part has been submitted, since the thread that
\* configures the queue waits for all commands first: it finds none in flight.
DelayOK ==
  /\ threshold = 1 => Len(flight) <= 1
  /\ threshold # 1 => NoChild(Line) /\ (adjusted => \E t \in Threads : thr[t].pc = "configure")
  /\ \A t \in Threads : thr[t].pc = "submit" => threshold = 1
  /\ \A t \in Threads : thr[t].pc = "configure" => Line = <<>> \/ Line[Len(Line)] = WaitAll(t)
DelayInv == Alone => DelayOK

\* The thread with launches is the only one under way.
LEMMA OnlyOne ==
  ASSUME SplitInv, Alone, NEW t \in Threads, thr[t].at <= Len(plan[t])
  PROVE  \A u \in Threads : u # t => thr[u].pc = "idle"
<1>1. ConfigOK /\ thr \in [Threads -> ThreadStates]
  BY InvTypes
<1>2. \A u \in Threads : thr[u].at \in Nat \ {0} /\ plan[u] \in Seq(Launches) /\ Len(plan[u]) \in Nat
  BY <1>1, IdsAre DEF ThreadStates
<1>3. \A u \in Threads : thr[u].at <= Len(plan[u]) => plan[u] # <<>>
  BY <1>2, EmptySeq
<1>4. \A u \in Threads : thr[u].pc # "idle" => thr[u].at <= Len(plan[u])
  BY UnderWayIs
<1> QED BY <1>3, <1>4 DEF Alone

\* A command is added at the end of the line.
LEMMA LineAppended ==
  ASSUME SplitInv, NEW c \in Commands, queue' = Append(queue, c), flight' = flight
  PROVE  /\ Line' # <<>> /\ Line'[Len(Line')] = c
         /\ NoChild(Line) /\ c.type # "child" => NoChild(Line')
<1>1. Line \in Seq(Commands) /\ queue \in Seq(Commands) /\ flight \in Seq(Commands)
  BY InvTypes
<1>2. Line' = Append(Line, c)
  BY <1>1, LineMoves DEF Line
<1>3. /\ Line' \in Seq(Commands) /\ Len(Line') = Len(Line) + 1 /\ Len(Line) \in Nat
      /\ Line'[Len(Line) + 1] = c /\ \A i \in 1..Len(Line) : Line'[i] = Line[i]
  BY <1>1, <1>2, AppendProperties, LenProperties
<1>4. Line' # <<>>
  BY <1>3, EmptySeq
<1>5. \A i \in 1..Len(Line') : i \in 1..Len(Line) \/ i = Len(Line) + 1
  BY <1>3
<1> QED BY <1>3, <1>4, <1>5 DEF NoChild

\* When no thread is under way after a step that adds no part.
LEMMA NoneUnderWay ==
  ASSUME DelayOK, \A t \in Threads : thr'[t].pc = "idle",
         UNCHANGED <<adjusted, threshold, flight>>,
         threshold # 1 => ~adjusted /\ NoChild(Line')
  PROVE  DelayOK'
BY DEF DelayOK, NoChild

\* Native launches and launches that fail.
LEMMA LaunchDelays ==
  ASSUME SplitInv, Alone, DelayOK, NEW t \in Threads, LaunchNative(t) \/ LaunchError(t)
  PROVE  DelayOK'
<1> DEFINE way == IF LaunchNative(t) THEN "native" ELSE "error"
           c == Command(Id(t), "native", Whole(Current(t)))
<1>1. /\ UNCHANGED <<env, plan, adjusted, threshold, flight>>
      /\ Launching(t, way) /\ \E r : Return(t, r)
      /\ queue' = queue \/ queue' = Append(queue, c)
  BY DEF LaunchNative, LaunchError
<1>2. /\ thr \in [Threads -> ThreadStates] /\ thr[t].at <= Len(plan[t]) /\ thr[t].pc = "idle"
      /\ Id(t) \in Threads \X Nat /\ Whole(Current(t)) \in Boxes
  BY <1>1, LaunchingIs
<1>3. \A u \in Threads : thr[u].pc = "idle"
  BY <1>2, OnlyOne
<1>4. \A u \in Threads : thr'[u].pc = "idle"
  BY <1>1, <1>2, <1>3 DEF Return
<1>5. c \in Commands /\ c.type = "native"
  BY <1>2 DEF Commands, Command
<1>6. threshold # 1 => ~adjusted /\ NoChild(Line)
  BY <1>3 DEF DelayOK
<1>7. NoChild(Line) => NoChild(Line')
  <2>1. CASE queue' = queue
    BY <1>1, <2>1 DEF Line
  <2>2. CASE queue' = Append(queue, c)
    BY <1>1, <1>5, <2>2, LineAppended
  <2> QED BY <1>1, <2>1, <2>2
<1> QED BY <1>1, <1>4, <1>6, <1>7, NoneUnderWay

\* The end of a launch that was split.
LEMMA EndDelays ==
  ASSUME SplitInv, Alone, DelayOK, NEW t \in Threads, EndSubmit(t)
  PROVE  DelayOK'
<1>1. /\ UNCHANGED <<env, plan, adjusted, threshold, queue, flight>>
      /\ thr[t].pc = "submit" /\ Return(t, "success")
  BY DEF EndSubmit
<1>2. thr \in [Threads -> ThreadStates] /\ thr[t].at <= Len(plan[t])
  BY <1>1, UnderWayIs
<1>3. \A u \in Threads : thr'[u].pc = "idle"
  BY <1>1, <1>2, OnlyOne DEF Return
<1>4. threshold = 1
  BY <1>1 DEF DelayOK
<1> QED BY <1>1, <1>3, <1>4, NoneUnderWay

\* A launch that is split: its thread configures the queue unless that was done.
LEMMA SplitDelays ==
  ASSUME SplitInv, Alone, DelayOK, NEW t \in Threads, LaunchSplit(t)
  PROVE  DelayOK'
<1>1. /\ UNCHANGED <<env, plan, threshold, flight>> /\ Launching(t, "split")
      /\ thr' = [thr EXCEPT ![t].pc = IF adjusted THEN "submit" ELSE "configure",
                            ![t].child = 1]
      /\ queue' = IF adjusted THEN queue ELSE Append(queue, WaitAll(t))
      /\ adjusted' = TRUE
  BY DEF LaunchSplit
<1>2. /\ thr \in [Threads -> ThreadStates] /\ thr[t].at <= Len(plan[t]) /\ thr[t].pc = "idle"
  BY <1>1, LaunchingIs
<1>3. \A u \in Threads : thr[u].pc = "idle"
  BY <1>2, OnlyOne
<1>4. /\ thr'[t].pc = IF adjusted THEN "submit" ELSE "configure"
      /\ \A u \in Threads : u # t => thr'[u].pc = "idle"
  BY <1>1, <1>2, <1>3 DEF ThreadStates
<1>5. CASE adjusted
  <2>1. threshold = 1
    BY <1>3, <1>5 DEF DelayOK
  <2>2. \A u \in Threads : thr'[u].pc # "configure"
    BY <1>4, <1>5
  <2> QED BY <1>1, <2>1, <2>2 DEF DelayOK
<1>6. CASE ~adjusted
  <2>1. WaitAll(t) \in Commands /\ WaitAll(t).type = "waitall"
    BY WaitIs DEF Carries, WaitAll, Command
  <2>2. /\ Line' # <<>> /\ Line'[Len(Line')] = WaitAll(t)
        /\ NoChild(Line) => NoChild(Line')
    BY <1>1, <1>6, <2>1, LineAppended
  <2>3. NoChild(Line') => NoChild(Line)'
    BY DEF NoChild
  <2>4. \A u \in Threads : thr'[u].pc = "configure" => u = t
    BY <1>4
  <2>5. thr'[t].pc = "configure" /\ \A u \in Threads : thr'[u].pc # "submit"
    BY <1>4, <1>6
  <2> QED BY <1>1, <2>2, <2>3, <2>4, <2>5 DEF DelayOK
<1> QED BY <1>5, <1>6

\* A part is submitted, which the queue has been configured for.
LEMMA SubmitDelays ==
  ASSUME SplitInv, Alone, DelayOK, NEW t \in Threads, SubmitChild(t)
  PROVE  DelayOK'
<1>1. /\ UNCHANGED <<env, plan, adjusted, threshold, flight>> /\ thr[t].pc = "submit"
      /\ thr' = [thr EXCEPT ![t].child = @ + 1]
  BY DEF SubmitChild
<1>2. thr \in [Threads -> ThreadStates] /\ thr[t].at <= Len(plan[t])
  BY <1>1, UnderWayIs
<1>3. \A u \in Threads : thr'[u].pc = thr[u].pc
  BY <1>1, <1>2 DEF ThreadStates
<1>4. \A u \in Threads : thr'[u].pc # "configure"
  BY <1>1, <1>2, <1>3, OnlyOne
<1>5. threshold = 1
  BY <1>1 DEF DelayOK
<1> QED BY <1>1, <1>4, <1>5 DEF DelayOK

\* The threshold is set when the wait for all commands is over.
LEMMA ConfigDelays ==
  ASSUME SplitInv, Alone, DelayOK, NEW t \in Threads, SetLaunchConfig(t)
  PROVE  DelayOK'
<1>1. /\ UNCHANGED <<env, plan, adjusted, queue, flight>> /\ thr[t].pc = "configure"
      /\ ~Contains(queue \o flight, WaitAll(t)) /\ threshold' = 1
      /\ thr' = [thr EXCEPT ![t].pc = "submit"]
  BY DEF SetLaunchConfig
<1>2. /\ thr \in [Threads -> ThreadStates] /\ thr[t].at <= Len(plan[t])
      /\ queue \in Seq(Commands) /\ flight \in Seq(Commands)
  BY <1>1, UnderWayIs, InvTypes
<1>3. \A u \in Threads : thr'[u].pc # "configure"
  BY <1>1, <1>2, OnlyOne DEF ThreadStates
<1>4. /\ Len(queue) \in Nat /\ Len(flight) \in Nat /\ Line \in Seq(Commands)
      /\ Len(Line) = Len(flight) + Len(queue)
      /\ \A i \in 1..Len(Line) : Line[i] = IF i <= Len(flight) THEN flight[i]
                                           ELSE queue[i - Len(flight)]
  BY <1>2, ConcatProperties, LenProperties DEF Line
<1>5. /\ queue \o flight \in Seq(Commands) /\ Len(queue \o flight) = Len(queue) + Len(flight)
      /\ \A i \in 1..(Len(queue) + Len(flight)) :
           (queue \o flight)[i] = IF i <= Len(queue) THEN queue[i] ELSE flight[i - Len(queue)]
  BY <1>2, ConcatProperties
<1>6. ASSUME Line # <<>> PROVE FALSE
  <2>1. Line[Len(Line)] = WaitAll(t)
    BY <1>1, <1>6 DEF DelayOK
  <2>2. Len(Line) \in 1..Len(Line)
    BY <1>4, <1>6, EmptySeq
  <2>3. \E i \in 1..Len(queue \o flight) : (queue \o flight)[i] = WaitAll(t)
    <3>1. CASE Len(Line) <= Len(flight)
      <4>1. flight[Len(Line)] = WaitAll(t) /\ Len(Line) \in 1..Len(flight)
        BY <1>4, <2>1, <2>2, <3>1
      <4>2. /\ Len(queue) + Len(Line) \in 1..(Len(queue) + Len(flight))
            /\ ~(Len(queue) + Len(Line) <= Len(queue))
            /\ (Len(queue) + Len(Line)) - Len(queue) = Len(Line)
        BY <1>4, <4>1
      <4>3. (queue \o flight)[Len(queue) + Len(Line)] = WaitAll(t)
        BY <1>5, <4>1, <4>2
      <4> QED BY <1>5, <4>2, <4>3
    <3>2. CASE ~(Len(Line) <= Len(flight))
      <4> DEFINE k == Len(Line) - Len(flight)
      <4>1. queue[k] = WaitAll(t) /\ k \in 1..Len(queue) /\ k \in 1..(Len(queue) + Len(flight))
        BY <1>4, <2>1, <2>2, <3>2
      <4> HIDE DEF k
      <4>2. (queue \o flight)[k] = WaitAll(t)
        BY <1>5, <4>1
      <4> QED BY <1>5, <4>1, <4>2
    <3> QED BY <3>1, <3>2
  <2> QED BY <1>1, <1>5, <2>3 DEF Contains
<1>7. Len(flight) = 0
  BY <1>4, <1>6, EmptySeq
<1> QED BY <1>1, <1>3, <1>7 DEF DelayOK

\* A command is launched: one at most is in flight when the threshold is 1.
LEMMA WorkerDelays ==
  ASSUME SplitInv, DelayOK, WorkerLaunch
  PROVE  DelayOK'
<1>1. /\ queue # <<>> /\ queue' = Tail(queue) /\ flight' = Append(flight, Head(queue))
      /\ UNCHANGED <<env, plan, thr, adjusted, threshold>> /\ Len(flight) < threshold
      /\ queue \in Seq(Commands) /\ flight \in Seq(Commands)
  BY InvTypes DEF WorkerLaunch
<1>2. Line' = Line
  BY <1>1, LineMoves DEF Line
<1>3. Head(queue) \in Commands /\ Len(flight) \in Nat
  BY <1>1, HeadTailProperties, LenProperties
<1>4. Len(flight') = Len(flight) + 1
  BY <1>1, <1>3, AppendProperties
<1>5. threshold = 1 => Len(flight') <= 1
  BY <1>1, <1>3, <1>4
<1> QED BY <1>1, <1>2, <1>5 DEF DelayOK, NoChild

\* A command is completed: the end of the line stays.
LEMMA CompleteDelays ==
  ASSUME SplitInv, DelayOK, Complete
  PROVE  DelayOK'
<1>1. /\ flight # <<>> /\ flight' = Tail(flight)
      /\ UNCHANGED <<env, plan, thr, adjusted, threshold, queue>>
      /\ queue \in Seq(Commands) /\ flight \in Seq(Commands) /\ Line \in Seq(Commands)
  BY InvTypes DEF Complete
<1>2. Line # <<>> /\ Line' = Tail(Line)
  BY <1>1, LineMoves DEF Line
<1>3. /\ Len(Line) \in Nat /\ Line' \in Seq(Commands) /\ Len(Line') = Len(Line) - 1
      /\ \A i \in 1..Len(Line') : Line'[i] = Line[i + 1] /\ i + 1 \in 1..Len(Line)
  BY <1>1, <1>2, BehindFirst
<1>4. Len(flight') = Len(flight) - 1 /\ Len(flight) \in Nat
  BY <1>1, HeadTailProperties, LenProperties
<1>5. NoChild(Line) => NoChild(Line)'
  BY <1>3 DEF NoChild
<1>6. Line' # <<>> => Line'[Len(Line')] = Line[Len(Line)]
  <2> SUFFICES ASSUME Line' # <<>> PROVE Line'[Len(Line')] = Line[Len(Line)]
    OBVIOUS
  <2>1. Len(Line') \in Nat /\ Len(Line') # 0
    BY <1>3, EmptySeq, LenProperties
  <2>2. Len(Line') \in 1..Len(Line') /\ Len(Line') + 1 = Len(Line)
    BY <1>3, <2>1
  <2> QED BY <1>3, <2>2
<1> QED BY <1>1, <1>2, <1>4, <1>5, <1>6 DEF DelayOK

\* The strengthened invariant is one.
LEMMA DelayAlways == Spec => []DelayInv
<1>1. Init => DelayInv
  <2> SUFFICES ASSUME Init PROVE DelayOK
    BY DEF DelayInv
  <2>1. /\ queue = <<>> /\ flight = <<>> /\ adjusted = FALSE
        /\ thr = [t \in Threads |-> [pc |-> "idle", at |-> 1, child |-> 0]]
    BY DEF Init
  <2>2. Line = <<>> /\ Len(Line) = 0 /\ Len(flight) = 0
    BY <2>1 DEF Line
  <2> QED BY <2>1, <2>2 DEF DelayOK, NoChild
<1>2. SplitInv /\ DelayInv /\ [Next]_vars => DelayInv'
  <2> SUFFICES ASSUME SplitInv, DelayInv, [Next]_vars, Alone' PROVE DelayOK'
    BY DEF DelayInv
  <2>1. plan' = plan
    BY DEF Next, vars, LaunchNative, LaunchError, LaunchSplit, SetLaunchConfig, SubmitChild,
           EndSubmit, WorkerLaunch, Complete
  <2>2. Alone /\ DelayOK
    BY <2>1 DEF DelayInv, Alone
  <2>3. CASE \E t \in Threads : \/ LaunchNative(t) \/ LaunchError(t) \/ LaunchSplit(t)
                                \/ SetLaunchConfig(t) \/ SubmitChild(t) \/ EndSubmit(t)
    BY <2>2, <2>3, LaunchDelays, SplitDelays, ConfigDelays, SubmitDelays, EndDelays
  <2>4. CASE WorkerLaunch \/ Complete
    BY <2>2, <2>4, WorkerDelays, CompleteDelays
  <2>5. CASE UNCHANGED vars
    BY <2>2, <2>5 DEF vars, DelayOK, NoChild, Line
  <2> QED BY <2>3, <2>4, <2>5 DEF Next
<1> QED BY <1>1, <1>2, SplitAlways, PTL DEF Spec

\* Whoever counts at most one thread with launches finds no two.
LEMMA CountedAlone ==
  ASSUME Cardinality({t \in Threads : plan[t] # <<>>}) <= 1
  PROVE  Alone
<1> DEFINE S == {t \in Threads : plan[t] # <<>>}
<1>1. IsFiniteSet(S) /\ Cardinality(S) \in Nat
  BY SplitAssumption, FS_Subset, FS_CardinalityType
<1>2. Cardinality(S) = 0 \/ Cardinality(S) = 1
  BY <1>1
<1>3. CASE Cardinality(S) = 0
  BY <1>1, <1>3, FS_EmptySet DEF Alone
<1>4. CASE Cardinality(S) = 1
  BY <1>1, <1>4, FS_Singleton DEF Alone
<1> QED BY <1>2, <1>3, <1>4

\* If one thread uses the queue, one part is in flight at most, and it has at most
\* splitBlocks blocks, whatever the threshold was before the queue was configured
\* (SetLpSplitThresholdOnce, DecomposeGrid).
THEOREM PreemptionIsPrompt == Spec => []PreemptionDelay
<1>1. SplitInv /\ DelayInv => PreemptionDelay
  <2> SUFFICES ASSUME SplitInv, DelayInv,
                      Cardinality({t \in Threads : plan[t] # <<>>}) <= 1,
                      NEW i \in DOMAIN flight, NEW j \in DOMAIN flight,
                      flight[i].type = "child"
               PROVE  /\ Volume(flight[i].box.len) <= env.splitBlocks
                      /\ flight[j].type = "child" => i = j
    BY DEF PreemptionDelay
  <2>1. DelayOK
    BY CountedAlone DEF DelayInv
  <2>2. /\ queue \in Seq(Commands) /\ flight \in Seq(Commands) /\ ConfigOK
        /\ Len(flight) \in Nat /\ i \in 1..Len(flight) /\ j \in 1..Len(flight)
    BY InvTypes, LenProperties
  <2>3. i \in 1..Len(Line) /\ Line[i] = flight[i]
    <3>1. Len(queue) \in Nat
      BY <2>2, LenProperties
    <3>2. Len(Line) = Len(flight) + Len(queue)
      BY <2>2, ConcatProperties DEF Line
    <3>3. i \in 1..(Len(flight) + Len(queue)) /\ i <= Len(flight)
      BY <2>2, <3>1
    <3> QED BY <2>2, <3>2, <3>3, ConcatProperties DEF Line
  <2>4. threshold = 1
    BY <2>1, <2>3 DEF DelayOK, NoChild
  <2>5. i = 1 /\ j = 1
    BY <2>1, <2>2, <2>4 DEF DelayOK
  <2>6. PICK k : Part(flight[i], k, Done, Sent)
    <3>1. PICK num : Numbers(num, Line, Done, Sent)
      BY InvTypes DEF Ordered
    <3>2. Carries(Line[i])
      BY <2>3 DEF Carries
    <3> QED BY <2>3, <3>1, <3>2 DEF Numbers
  <2> DEFINE id == flight[i].id
  <2>7. /\ id \in Ids /\ k \in Nat /\ Done[id] < k /\ k <= Sent[id]
        /\ flight[i].box = Parts(id)[k] /\ Split(id)
    BY <2>6 DEF Part
  <2> HIDE DEF id
  <2>8. /\ Done[id] \in Nat /\ Sent[id] = Submitted(id) /\ Submitted(id) \in Nat
        /\ Submitted(id) <= Len(Parts(id)) /\ Len(Parts(id)) \in Nat
    BY <2>2, <2>7, InvTypes, CountsType, SubmittedBound, PartsAre
  <2>9. k \in 1..Len(Parts(id))
    BY <2>7, <2>8
  <2>10. Volume(Parts(id)[k].len) <= env.splitBlocks
    BY <2>2, <2>7, <2>9, PartsAre DEF Parted
  <2> QED BY <2>5, <2>7, <2>10
<1> QED BY <1>1, SplitAlways, DelayAlways, PTL

=============================================================================
