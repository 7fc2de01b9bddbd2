------------------------ MODULE MrtkAlgorithmProofs ------------------------
(***************************************************************************)
(* What the kernel computes before any task runs, and without a tick: the  *)
(* bit searches of mrtk_priotable.c, and the partition of mrtk_sched.c.    *)
(*                                                                         *)
(* A partition sorts and sums, by folds.  A fold chooses a function on the *)
(* subsets of a set that satisfies a recursive equation; that there is one *)
(* and what it returns is shown with SubsetInduction, which speaks of a    *)
(* set of subsets, and looks at a counterexample with the fewest elements. *)
(* What the theorems need is that a sort gives the same elements in order, *)
(* and that sums grow by one element and keep the order of their terms.    *)
(***************************************************************************)
EXTENDS MrtkPartition, MrtkPrioTable, MrtkHeapProofs, SequenceTheorems,
        FiniteSetTheorems, WellFoundedInduction

-----------------------------------------------------------------------------
(* BIT SEARCHES.                                                           *)

\* A state of the search from the right, and the word that it began with:
\* the skipped bits are 0, and bits below `window` are left to look at.
Searching(word, s, window) ==
    /\ s.word \subseteq Nat
    /\ s.hghbitset \in Nat
    /\ \A b \in Nat : b \in s.word <=> b + s.hghbitset - 1 \in word
    /\ \A b \in word : b >= s.hghbitset - 1
    /\ \E b \in s.word : b < window

(* A turn of the search halves the window.                                 *)
LEMMA SkipRightSearches ==
    ASSUME NEW word \in SUBSET Nat, NEW s, NEW n \in Nat \ {0},
           Searching(word, s, 2 * n)
    PROVE  Searching(word, SkipRight(s, n), n)
<1> DEFINE half == s.word \cap 0..(n - 1)
           q == SkipRight(s, n)
<1>1. CASE half # {}
  <2>1. q = s
    BY <1>1 DEF SkipRight
  <2>2. \E b \in s.word : b < n
    BY <1>1
  <2> QED BY <2>1, <2>2 DEF Searching
<1>2. CASE half = {}
  <2>1. q.word = RightShift(s.word, n) /\ q.hghbitset = s.hghbitset + n
    BY <1>2 DEF SkipRight
  <2>2. \A b \in s.word : b \in Nat /\ b >= n
    BY <1>2 DEF Searching
  <2>3. \A b \in Nat : b \in q.word <=> b + n \in s.word
    <3>1. \A b \in Nat : b \in RightShift(s.word, n) => b + n \in s.word
      BY <2>2 DEF RightShift
    <3>2. \A b \in Nat : b + n \in s.word => b \in RightShift(s.word, n)
      <4> SUFFICES ASSUME NEW b \in Nat, b + n \in s.word
                   PROVE  b \in RightShift(s.word, n)
        OBVIOUS
      <4>1. b = (b + n) - n /\ b + n >= n
        OBVIOUS
      <4> QED BY <4>1 DEF RightShift
    <3> QED BY <2>1, <3>1, <3>2
  <2>4. q.word \subseteq Nat /\ q.hghbitset \in Nat
    BY <2>1, <2>2 DEF RightShift, Searching
  <2>5. \A b \in Nat : b \in q.word <=> b + q.hghbitset - 1 \in word
    <3> SUFFICES ASSUME NEW b \in Nat
                 PROVE  b \in q.word <=> b + q.hghbitset - 1 \in word
      OBVIOUS
    <3>1. b + n \in s.word <=> (b + n) + s.hghbitset - 1 \in word
      BY DEF Searching
    <3>2. (b + n) + s.hghbitset - 1 = b + q.hghbitset - 1
      BY <2>1 DEF Searching
    <3> QED BY <2>3, <3>1, <3>2
  <2>6. \A b \in word : b >= q.hghbitset - 1
    <3> SUFFICES ASSUME NEW b \in word PROVE b >= q.hghbitset - 1
      OBVIOUS
    <3> DEFINE c == b - (s.hghbitset - 1)
    <3>1. c \in Nat /\ c + s.hghbitset - 1 = b
      BY DEF Searching
    <3>2. c \in s.word
      BY <3>1 DEF Searching
    <3> QED BY <2>1, <2>2, <3>1, <3>2 DEF Searching
  <2>7. \E b \in q.word : b < n
    <3>1. PICK b \in s.word : b < 2 * n
      BY DEF Searching
    <3>2. b - n \in Nat /\ (b - n) + n = b /\ b - n < n
      BY <2>2, <3>1
    <3> QED BY <2>3, <3>2
  <2> QED BY <2>4, <2>5, <2>6, <2>7 DEF Searching
<1> QED BY <1>1, <1>2

(* In a window of two bits the last test tells which of them it is.        *)
LEMMA LastOnRightFinds ==
    ASSUME NEW word \in SUBSET Nat, NEW s, Searching(word, s, 2)
    PROVE  /\ LastOnRight(s) \in word
           /\ \A b \in word : LastOnRight(s) <= b
<1>1. s.hghbitset \in Nat /\ s.word \subseteq Nat
  BY DEF Searching
<1>2. CASE 0 \in s.word
  <2>1. LastOnRight(s) = s.hghbitset - 1
    BY <1>2 DEF LastOnRight
  <2>2. 0 + s.hghbitset - 1 \in word /\ 0 + s.hghbitset - 1 = s.hghbitset - 1
    BY <1>1, <1>2 DEF Searching
  <2> QED BY <2>1, <2>2 DEF Searching
<1>3. CASE 0 \notin s.word
  <2>1. LastOnRight(s) = s.hghbitset
    BY <1>1, <1>3 DEF LastOnRight
  <2>2. 1 \in s.word
    BY <1>1, <1>3 DEF Searching
  <2>3. 1 + s.hghbitset - 1 \in word /\ 1 + s.hghbitset - 1 = s.hghbitset
    BY <1>1, <2>2 DEF Searching
  <2>4. s.hghbitset - 1 \notin word
    <3>1. 0 + s.hghbitset - 1 \notin word /\ 0 + s.hghbitset - 1 = s.hghbitset - 1
      BY <1>1, <1>3 DEF Searching
    <3> QED BY <3>1
  <2>5. ASSUME NEW b \in word PROVE s.hghbitset <= b
    <3>1. b \in Nat /\ b >= s.hghbitset - 1 /\ b # s.hghbitset - 1
      BY <2>4 DEF Searching
    <3> QED BY <1>1, <3>1
  <2> QED BY <2>1, <2>3, <2>5
<1> QED BY <1>2, <1>3

(* mrtk_findhghbitsetonright32 returns the lowest bit that is set.         *)
THEOREM RightFindsLowest32 ==
    ASSUME NEW word \in SUBSET (0..31), word # {}
    PROVE  /\ mrtk_findhghbitsetonright32(word) \in word
           /\ \A b \in word : mrtk_findhghbitsetonright32(word) <= b
<1>1. CASE 0 \in word
  BY <1>1 DEF mrtk_findhghbitsetonright32
<1>2. CASE 0 \notin word
  <2> DEFINE s0 == [word |-> word, hghbitset |-> 1]
             s1 == SkipRight(s0, 16)
             s2 == SkipRight(s1, 8)
             s3 == SkipRight(s2, 4)
             s4 == SkipRight(s3, 2)
  <2>1. Searching(word, s0, 2 * 16)
    <3>1. s0.word = word /\ s0.hghbitset = 1 /\ \A b \in Nat : b + 1 - 1 = b
      OBVIOUS
    <3>2. \E b \in word : b < 2 * 16
      <4>1. PICK b \in word : TRUE
        OBVIOUS
      <4> QED BY <4>1
    <3> QED BY <3>1, <3>2 DEF Searching
  <2> HIDE DEF s0
  <2>2. Searching(word, s1, 2 * 8)
    BY <2>1, SkipRightSearches
  <2> HIDE DEF s1
  <2>3. Searching(word, s2, 2 * 4)
    BY <2>2, SkipRightSearches
  <2> HIDE DEF s2
  <2>4. Searching(word, s3, 2 * 2)
    BY <2>3, SkipRightSearches
  <2> HIDE DEF s3
  <2>5. Searching(word, s4, 2)
    BY <2>4, SkipRightSearches
  <2>6. mrtk_findhghbitsetonright32(word) = LastOnRight(s4)
    BY <1>2 DEF mrtk_findhghbitsetonright32, s0, s1, s2, s3
  <2> HIDE DEF s4
  <2> QED BY <2>5, <2>6, LastOnRightFinds
<1> QED BY <1>1, <1>2

(* mrtk_findhghbitsetonright8 returns the lowest bit that is set.          *)
THEOREM RightFindsLowest8 ==
    ASSUME NEW word \in SUBSET (0..7), word # {}
    PROVE  /\ mrtk_findhghbitsetonright8(word) \in word
           /\ \A b \in word : mrtk_findhghbitsetonright8(word) <= b
<1>1. CASE 0 \in word
  BY <1>1 DEF mrtk_findhghbitsetonright8
<1>2. CASE 0 \notin word
  <2> DEFINE s0 == [word |-> word, hghbitset |-> 1]
             s1 == SkipRight(s0, 4)
             s2 == SkipRight(s1, 2)
  <2>1. Searching(word, s0, 2 * 4)
    <3>1. s0.word = word /\ s0.hghbitset = 1 /\ \A b \in Nat : b + 1 - 1 = b
      OBVIOUS
    <3>2. \E b \in word : b < 2 * 4
      <4>1. PICK b \in word : TRUE
        OBVIOUS
      <4> QED BY <4>1
    <3> QED BY <3>1, <3>2 DEF Searching
  <2> HIDE DEF s0
  <2>2. Searching(word, s1, 2 * 2)
    BY <2>1, SkipRightSearches
  <2> HIDE DEF s1
  <2>3. Searching(word, s2, 2)
    BY <2>2, SkipRightSearches
  <2>4. mrtk_findhghbitsetonright8(word) = LastOnRight(s2)
    BY <1>2 DEF mrtk_findhghbitsetonright8, s0, s1
  <2> HIDE DEF s2
  <2> QED BY <2>3, <2>4, LastOnRightFinds
<1> QED BY <1>1, <1>2

-----------------------------------------------------------------------------
\* A state of the search from the left in a word of 32 bits with one bit,
\* `first`: it has been shifted into the window, by an even number of places.
Shifted(first, s, window) ==
    \E b \in (32 - window)..31, half \in Nat :
        /\ s.word = {b}
        /\ b = first + 2 * half
        /\ s.hghbitset = 30 - 2 * half

(* A turn of this search halves the window.                                *)
LEMMA SkipLeftShifts ==
    ASSUME NEW first \in 0..31, NEW m \in 1..8, NEW s, Shifted(first, s, 4 * m)
    PROVE  Shifted(first, SkipLeft(s, 2 * m, 32), 2 * m)
<1> DEFINE q == SkipLeft(s, 2 * m, 32)
<1>1. PICK b \in (32 - 4 * m)..31, half \in Nat :
          s.word = {b} /\ b = first + 2 * half /\ s.hghbitset = 30 - 2 * half
  BY DEF Shifted
<1>2. CASE b < 32 - 2 * m
  <2>1. s.word \cap (32 - 2 * m)..(32 - 1) = {}
    BY <1>1, <1>2
  <2>2. q.word = LeftShift(s.word, 2 * m, 32) /\ q.hghbitset = s.hghbitset - 2 * m
    BY <2>1 DEF SkipLeft
  <2>3. LeftShift(s.word, 2 * m, 32) = {b + 2 * m}
    BY <1>1, <1>2 DEF LeftShift
  <2>4. /\ b + 2 * m \in (32 - 2 * m)..31 /\ half + m \in Nat
        /\ b + 2 * m = first + 2 * (half + m)
        /\ s.hghbitset - 2 * m = 30 - 2 * (half + m)
    BY <1>1, <1>2
  <2> HIDE DEF q
  <2>5. Shifted(first, q, 2 * m)
    BY <2>2, <2>3, <2>4 DEF Shifted
  <2> QED BY <2>5 DEF q
<1>3. CASE ~(b < 32 - 2 * m)
  <2>1. b \in s.word \cap (32 - 2 * m)..(32 - 1)
    BY <1>1, <1>3
  <2>2. q = s
    BY <2>1 DEF SkipLeft
  <2>3. b \in (32 - 2 * m)..31
    BY <1>1, <1>3
  <2> HIDE DEF q
  <2>4. Shifted(first, q, 2 * m)
    BY <1>1, <2>2, <2>3 DEF Shifted
  <2> QED BY <2>4 DEF q
<1> QED BY <1>2, <1>3

(* mrtk_findhghbitsetonleft32 does not return "the index of the first bit  *)
(* set" (mrtk_priotable.c:146) of a word whose only bit has an odd index,  *)
(* the highest one apart: it returns the index below.                      *)
THEOREM LeftMissesOdd ==
    ASSUME NEW k \in 0..14
    PROVE  mrtk_findhghbitsetonleft32({2 * k + 1}) = 2 * k
<1> DEFINE first == 2 * k + 1
           s0 == [word |-> {first}, hghbitset |-> 30]
           s1 == SkipLeft(s0, 16, 32)
           s2 == SkipLeft(s1, 8, 32)
           s3 == SkipLeft(s2, 4, 32)
           s4 == SkipLeft(s3, 2, 32)
<1>1. Shifted(first, s0, 4 * 8)
  <2>1. s0.word = {first} /\ s0.hghbitset = 30 - 2 * 0 /\ first = first + 2 * 0
    OBVIOUS
  <2>2. first \in (32 - 4 * 8)..31 /\ 0 \in Nat
    OBVIOUS
  <2> HIDE DEF s0, first
  <2> QED BY <2>1, <2>2 DEF Shifted
<1>2. first \in 0..31
  OBVIOUS
<1> HIDE DEF s0, first
<1>3. Shifted(first, s1, 4 * 4)
  <2>1. Shifted(first, SkipLeft(s0, 2 * 8, 32), 2 * 8)
    BY <1>1, <1>2, SkipLeftShifts
  <2> QED BY <2>1
<1> HIDE DEF s1
<1>4. Shifted(first, s2, 4 * 2)
  <2>1. Shifted(first, SkipLeft(s1, 2 * 4, 32), 2 * 4)
    BY <1>2, <1>3, SkipLeftShifts
  <2> QED BY <2>1
<1> HIDE DEF s2
<1>5. Shifted(first, s3, 4 * 1)
  <2>1. Shifted(first, SkipLeft(s2, 2 * 2, 32), 2 * 2)
    BY <1>2, <1>4, SkipLeftShifts
  <2> QED BY <2>1
<1> HIDE DEF s3
<1>6. Shifted(first, s4, 2)
  <2>1. Shifted(first, SkipLeft(s3, 2 * 1, 32), 2 * 1)
    BY <1>2, <1>5, SkipLeftShifts
  <2> QED BY <2>1
<1> HIDE DEF s4
<1>7. LastOnLeft(s4) = 2 * k
  <2>1. PICK b \in 30..31, half \in Nat :
            s4.word = {b} /\ b = first + 2 * half /\ s4.hghbitset = 30 - 2 * half
    BY <1>6 DEF Shifted
  <2>2. b = 31 /\ 30 - 2 * half = 2 * k
    BY <2>1 DEF first
  <2>3. 1 \notin s4.word
    BY <2>1, <2>2
  <2> QED BY <2>1, <2>2, <2>3 DEF LastOnLeft
<1>8. mrtk_findhghbitsetonleft32({first}) = LastOnLeft(s4)
  <2>1. 31 \notin {first}
    BY DEF first
  <2> QED BY <2>1 DEF mrtk_findhghbitsetonleft32, s0, s1, s2, s3, s4
<1> QED BY <1>7, <1>8 DEF first

-----------------------------------------------------------------------------
(* FINITE SETS.                                                            *)

(* A set of natural numbers has a least element.                           *)
LEMMA LeastNumber ==
    ASSUME NEW T, T \subseteq Nat, T # {}
    PROVE  \E n \in T : \A m \in T : n <= m
<1> DEFINE R == {ss \in Nat \X Nat : ss[1] < ss[2]}
<1>1. IsWellFoundedOn(R, Nat)
  <2>1. R = OpToRel(<, Nat)
    BY DEF OpToRel
  <2> QED BY <2>1, NatLessThanWellFounded
<1>2. PICK n \in T : \A m \in T : ~(<<m, n>> \in R)
  <2> HIDE DEF R
  <2> QED BY <1>1, WFMin
<1>3. \A m \in T : ~(m < n)
  BY <1>2
<1> QED BY <1>3

LEMMA LeastIsMin ==
    ASSUME NEW T, T \subseteq Nat, T # {}
    PROVE  Min(T) \in T /\ \A m \in T : Min(T) <= m
  BY LeastNumber DEF Min

LEMMA GreatestIsMax ==
    ASSUME NEW T, T \subseteq Nat, T # {}, NEW b \in Nat, \A m \in T : m <= b
    PROVE  Max(T) \in T /\ \A m \in T : m <= Max(T)
<1> DEFINE L == {b - m : m \in T}
<1>1. L \subseteq Nat /\ L # {}
  <2>1. \A m \in T : m \in Nat /\ m <= b
    OBVIOUS
  <2>2. \A m \in T : b - m \in Nat
    BY <2>1
  <2> QED BY <2>2
<1>2. PICK n \in L : \A m \in L : n <= m
  BY <1>1, LeastNumber
<1>3. PICK x \in T : n = b - x
  OBVIOUS
<1>4. \A m \in T : x >= m
  <2> TAKE m \in T
  <2>1. b - x <= b - m /\ x \in Nat /\ m \in Nat
    BY <1>2, <1>3
  <2> QED BY <2>1
<1>5. Max(T) \in T /\ \A m \in T : Max(T) >= m
  <2> HIDE DEF L
  <2> QED BY <1>4 DEF Max
<1>6. \A m \in T : m \in Int
  OBVIOUS
<1> QED BY <1>5, <1>6

(* What holds of the empty set, and of a set when it holds of the set      *)
(* without any one of its elements, holds of every finite set.             *)
LEMMA SubsetInduction ==
    ASSUME NEW D, IsFiniteSet(D), NEW G, {} \in G,
           \A z \in SUBSET D : z # {} /\ (\A x \in z : z \ {x} \in G) => z \in G
    PROVE  \A z \in SUBSET D : z \in G
<1> DEFINE T == {n \in Nat : \E z \in SUBSET D : z \notin G /\ Cardinality(z) = n}
<1>1. \A z \in SUBSET D : IsFiniteSet(z) /\ Cardinality(z) \in Nat
  BY FS_Subset, FS_CardinalityType
<1>2. SUFFICES ASSUME T # {} PROVE FALSE
  BY <1>1
<1>3. PICK n \in T : \A m \in T : n <= m
  BY <1>2, LeastNumber
<1>4. PICK z \in SUBSET D : z \notin G /\ Cardinality(z) = n
  OBVIOUS
<1>5. PICK x \in z : z \ {x} \notin G
  BY <1>4
<1>6. Cardinality(z \ {x}) = n - 1
  BY <1>1, <1>4, <1>5, FS_RemoveElement
<1>7. z \ {x} \in SUBSET D /\ n - 1 \in Nat
  BY <1>1, <1>4, <1>5, <1>6
<1>8. n - 1 \in T
  BY <1>5, <1>6, <1>7
<1>9. n <= n - 1 /\ n \in Nat
  BY <1>3, <1>8
<1> QED BY <1>9

-----------------------------------------------------------------------------
(* FOLDS.  A fold chooses a function that satisfies a recursive equation:  *)
(* there is one, and two of them agree.                                    *)

\* Take the elements of a set one by one, in the order of pick.
Turn(D, pick, step, base, g) ==
    [z \in SUBSET D |->
        IF z = {} THEN base ELSE step[<<pick[z], g[z \ {pick[z]}]>>]]

Picks(D, pick) == \A z \in SUBSET D : z # {} => pick[z] \in z

Recursive(D, R, pick, step, base) ==
    \E g \in [SUBSET D -> R] : g = Turn(D, pick, step, base, g)

LEMMA RecursionExists ==
    ASSUME NEW D, IsFiniteSet(D), NEW R, NEW base \in R,
           NEW step \in [D \X R -> R], NEW pick, Picks(D, pick)
    PROVE  Recursive(D, R, pick, step, base)
<1> DEFINE F(g) == Turn(D, pick, step, base, g)
           Upto(g, n) == \A z \in SUBSET D : Cardinality(z) <= n => g[z] = F(g)[z]
           T == {n \in Nat : ~\E g \in [SUBSET D -> R] : Upto(g, n)}
<1>1. \A z \in SUBSET D : IsFiniteSet(z) /\ Cardinality(z) \in Nat
                          /\ Cardinality(z) <= Cardinality(D)
  BY FS_Subset, FS_CardinalityType
<1>2. ASSUME NEW g \in [SUBSET D -> R]
      PROVE  F(g) \in [SUBSET D -> R]
  BY <1>2 DEF Turn, Picks
<1>3. \A z \in SUBSET D : z # {} =>
          /\ pick[z] \in z /\ z \ {pick[z]} \in SUBSET D
          /\ Cardinality(z \ {pick[z]}) = Cardinality(z) - 1
          /\ Cardinality(z) # 0
  BY <1>1, FS_RemoveElement, FS_EmptySet DEF Picks
<1>4. T = {}
  <2>1. SUFFICES ASSUME T # {} PROVE FALSE
    OBVIOUS
  <2>2. PICK n \in T : \A m \in T : n <= m
    BY <2>1, LeastNumber
  <2>3. CASE n = 0
    <3> DEFINE g == [z \in SUBSET D |-> base]
    <3>1. g \in [SUBSET D -> R]
      OBVIOUS
    <3>2. Upto(g, 0)
      <4> TAKE z \in SUBSET D
      <4> HAVE Cardinality(z) <= 0
      <4>1. z = {}
        BY <1>1, FS_EmptySet
      <4> QED BY <4>1 DEF Turn
    <3> QED BY <2>3, <3>1, <3>2
  <2>4. CASE n # 0
    <3>1. n - 1 \in Nat /\ n - 1 \notin T
      <4>1. n \in Nat /\ n - 1 \in Nat /\ ~(n <= n - 1)
        BY <2>4
      <4>2. (n - 1 \in T) => n <= n - 1
        BY <2>2
      <4> QED BY <4>1, <4>2
    <3>2. PICK g \in [SUBSET D -> R] : Upto(g, n - 1)
      BY <3>1
    <3>3. Upto(F(g), n)
      <4> TAKE z \in SUBSET D
      <4> HAVE Cardinality(z) <= n
      <4>1. CASE z = {}
        BY <4>1 DEF Turn
      <4>2. CASE z # {}
        <5> DEFINE y == z \ {pick[z]}
        <5>1. g[y] = F(g)[y]
          BY <1>1, <1>3, <3>2, <4>2
        <5>2. F(g)[z] = step[<<pick[z], g[y]>>] /\ F(F(g))[z] = step[<<pick[z], F(g)[y]>>]
          BY <4>2 DEF Turn
        <5> QED BY <5>1, <5>2
      <4> QED BY <4>1, <4>2
    <3>4. F(g) \in [SUBSET D -> R]
      BY <1>2
    <3> HIDE DEF F, Upto
    <3> QED BY <3>3, <3>4
  <2> QED BY <2>3, <2>4
<1>5. PICK g \in [SUBSET D -> R] : Upto(g, Cardinality(D))
  BY <1>4, FS_CardinalityType
<1>6. \A z \in SUBSET D : g[z] = F(g)[z]
  BY <1>1, <1>5
<1>7. F(g) \in [SUBSET D -> R]
  BY <1>2
<1>8. g = F(g)
  <2> HIDE DEF F
  <2> QED BY <1>6, <1>7
<1> QED BY <1>8 DEF Recursive

Least(z) == CHOOSE x \in z : TRUE

\* g[z] is the sum of f over z, for the subsets z of S.
Sums(f, S, g) ==
    g = [z \in SUBSET S |-> IF z = {} THEN 0 ELSE f[Least(z)] + g[z \ {Least(z)}]]

LEMMA SumsExist ==
    ASSUME NEW S, IsFiniteSet(S), NEW f, \A x \in S : f[x] \in Int
    PROVE  /\ \E g \in [SUBSET S -> Int] : Sums(f, S, g)
           /\ \E g : Sums(f, S, g) /\ SumFunctionOnSet(f, S) = g[S]
<1> DEFINE step == [p \in S \X Int |-> f[p[1]] + p[2]]
           pick == [z \in SUBSET S |-> Least(z)]
<1>1. Picks(S, pick) /\ step \in [S \X Int -> Int]
  BY DEF Picks, Least
<1>2. PICK g \in [SUBSET S -> Int] : g = Turn(S, pick, step, 0, g)
  <2>1. 0 \in Int
    OBVIOUS
  <2> HIDE DEF step, pick
  <2>2. Recursive(S, Int, pick, step, 0)
    BY <1>1, <2>1, RecursionExists
  <2> QED BY <2>2 DEF Recursive
<1>3. Sums(f, S, g)
  <2>1. ASSUME NEW z \in SUBSET S, z # {}
        PROVE  step[<<pick[z], g[z \ {pick[z]}]>>] = f[Least(z)] + g[z \ {Least(z)}]
    <3>1. Least(z) \in S /\ pick[z] = Least(z) /\ z \ {Least(z)} \in SUBSET S
      BY <2>1 DEF Least
    <3>2. g[z \ {Least(z)}] \in Int
      BY <3>1
    <3> QED BY <3>1, <3>2
  <2>2. Turn(S, pick, step, 0, g) =
           [z \in SUBSET S |-> IF z = {} THEN 0 ELSE f[Least(z)] + g[z \ {Least(z)}]]
    <3> HIDE DEF step, pick
    <3> QED BY <2>1 DEF Turn
  <2> HIDE DEF step, pick
  <2> QED BY <1>2, <2>2 DEF Sums
<1>4. \E h : Sums(f, S, h) /\ SumFunctionOnSet(f, S) = h[S]
  <2> DEFINE h == CHOOSE h : Sums(f, S, h)
  <2>1. Sums(f, S, h)
    BY <1>3
  <2>2. SumFunctionOnSet(f, S) = h[S]
    BY DEF SumFunctionOnSet, FoldFunctionOnSet, MapThenFoldSet, Sums, Least
  <2> QED BY <2>1, <2>2
<1> QED BY <1>3, <1>4

LEMMA SumsAgree ==
    ASSUME NEW D, IsFiniteSet(D), NEW S \in SUBSET D, NEW f, NEW g, NEW h,
           Sums(f, D, g), Sums(f, S, h)
    PROVE  \A z \in SUBSET S : g[z] = h[z]
<1> DEFINE G == {z \in SUBSET S : g[z] = h[z]}
<1>1. IsFiniteSet(S)
  BY FS_Subset
<1>2. {} \in G
  BY DEF Sums
<1>3. ASSUME NEW z \in SUBSET S, z # {}
      PROVE  (\A x \in z : z \ {x} \in G) => z \in G
  <2>1. Least(z) \in z
    BY <1>3 DEF Least
  <2>2. /\ g[z] = f[Least(z)] + g[z \ {Least(z)}]
        /\ h[z] = f[Least(z)] + h[z \ {Least(z)}]
    BY <1>3 DEF Sums
  <2>3. z \ {Least(z)} \in G => z \in G
    BY <1>3, <2>2
  <2> QED BY <2>1, <2>3
<1> HIDE DEF G
<1>4. \A z \in SUBSET S : z \in G
  BY <1>1, <1>2, <1>3, SubsetInduction
<1> QED BY <1>4 DEF G

(* The sums over the subsets of D are one function of the subset.          *)
SumsBy(f, D, g) ==
    /\ g \in [SUBSET D -> Int]
    /\ Sums(f, D, g)
    /\ \A S \in SUBSET D : SumFunctionOnSet(f, S) = g[S]

LEMMA SumIsFunction ==
    ASSUME NEW D, IsFiniteSet(D), NEW f, \A x \in D : f[x] \in Int
    PROVE  \E g : SumsBy(f, D, g)
<1>1. PICK g \in [SUBSET D -> Int] : Sums(f, D, g)
  BY SumsExist
<1>2. ASSUME NEW S \in SUBSET D
      PROVE  SumFunctionOnSet(f, S) = g[S]
  <2>1. IsFiniteSet(S) /\ \A x \in S : f[x] \in Int
    BY FS_Subset
  <2>2. PICK h : Sums(f, S, h) /\ SumFunctionOnSet(f, S) = h[S]
    BY <2>1, SumsExist
  <2>3. g[S] = h[S]
    BY <1>1, <2>2, SumsAgree
  <2> QED BY <2>2, <2>3
<1> QED BY <1>1, <1>2 DEF SumsBy

(* The sum over a set is the value at any one of its elements and the sum  *)
(* over the others.                                                        *)
SumSplits(f, S) ==
    \A x \in S : SumFunctionOnSet(f, S) = f[x] + SumFunctionOnSet(f, S \ {x})

LEMMA SumStep ==
    ASSUME NEW D, IsFiniteSet(D), NEW f, \A x \in D : f[x] \in Int,
           NEW S \in SUBSET D
    PROVE  /\ SumFunctionOnSet(f, {}) = 0
           /\ SumFunctionOnSet(f, S) \in Int
           /\ SumSplits(f, S)
<1>1. PICK g : SumsBy(f, D, g)
  BY SumIsFunction
<1>2. ASSUME NEW z \in SUBSET D, z # {}
      PROVE  Least(z) \in z /\ g[z] = f[Least(z)] + g[z \ {Least(z)}]
  BY <1>1, <1>2 DEF Sums, Least, SumsBy
<1>3. g[{}] = 0 /\ g \in [SUBSET D -> Int]
  BY <1>1 DEF Sums, SumsBy
<1> DEFINE G == {z \in SUBSET D : \A x \in z : g[z] = f[x] + g[z \ {x}]}
<1>4. {} \in G
  OBVIOUS
<1>5. ASSUME NEW z \in SUBSET D, z # {}, \A x \in z : z \ {x} \in G
      PROVE  z \in G
  <2> DEFINE l == Least(z)
  <2>1. l \in z /\ g[z] = f[l] + g[z \ {l}]
    BY <1>2, <1>5
  <2>2. ASSUME NEW x \in z, x # l
        PROVE  g[z] = f[x] + g[z \ {x}]
    <3> DEFINE w == (z \ {l}) \ {x}
    <3>1. (z \ {x}) \ {l} = w /\ w \in SUBSET D
      OBVIOUS
    <3>2. g[z \ {l}] = f[x] + g[w]
      BY <1>5, <2>1, <2>2
    <3>3. g[z \ {x}] = f[l] + g[(z \ {x}) \ {l}]
      BY <1>5, <2>1, <2>2
    <3>4. g[z \ {x}] = f[l] + g[w]
      BY <3>1, <3>3
    <3>5. f[l] \in Int /\ f[x] \in Int /\ g[w] \in Int
      BY <1>3, <2>1, <2>2, <3>1
    <3> HIDE DEF w, l
    <3> QED BY <2>1, <3>2, <3>4, <3>5
  <2> QED BY <2>1, <2>2
<1> HIDE DEF G
<1>6. \A z \in SUBSET D : z \in G
  BY <1>4, <1>5, SubsetInduction
<1>7. \A z \in SUBSET D : SumFunctionOnSet(f, z) = g[z] /\ g[z] \in Int
  BY <1>1 DEF SumsBy
<1>8. \A x \in S : S \ {x} \in SUBSET D
  OBVIOUS
<1>9. {} \in SUBSET D
  OBVIOUS
<1> QED BY <1>3, <1>6, <1>7, <1>8, <1>9 DEF G, SumSplits

(* What holds between two functions at every element of a set holds        *)
(* between their sums.                                                     *)
LEMMA SumBound ==
    ASSUME NEW D, IsFiniteSet(D), NEW f, NEW g,
           \A x \in D : f[x] \in Int /\ g[x] \in Int,
           NEW S \in SUBSET D, NEW a \in Int, NEW b \in Int,
           \A x \in S : a * f[x] <= b * g[x]
    PROVE  a * SumFunctionOnSet(f, S) <= b * SumFunctionOnSet(g, S)
<1> DEFINE F(z) == SumFunctionOnSet(f, z)
           H(z) == SumFunctionOnSet(g, z)
           G == {z \in SUBSET S : a * F(z) <= b * H(z)}
<1>1. IsFiniteSet(S)
  BY FS_Subset
<1>2. /\ F({}) = 0 /\ H({}) = 0
      /\ \A z \in SUBSET S : /\ F(z) \in Int /\ H(z) \in Int
                             /\ \A x \in z : F(z) = f[x] + F(z \ {x}) /\ H(z) = g[x] + H(z \ {x})
  <2>1. \A z \in SUBSET S : z \in SUBSET D
    OBVIOUS
  <2> QED BY <2>1, SumStep DEF SumSplits
<1> HIDE DEF F, H
<1>3. {} \in G
  BY <1>2
<1>4. ASSUME NEW z \in SUBSET S, z # {}, \A x \in z : z \ {x} \in G
      PROVE  z \in G
  <2>1. PICK x \in z : TRUE
    BY <1>4
  <2> DEFINE y == z \ {x}
  <2>2. y \in SUBSET S /\ a * F(y) <= b * H(y)
    BY <1>4, <2>1
  <2>3. F(z) = f[x] + F(y) /\ H(z) = g[x] + H(y)
    BY <1>2, <2>1
  <2>4. f[x] \in Int /\ g[x] \in Int /\ F(y) \in Int /\ H(y) \in Int
    BY <1>2, <2>2
  <2>5. a * f[x] <= b * g[x]
    OBVIOUS
  <2>6. a * (f[x] + F(y)) <= b * (g[x] + H(y))
    <3> HIDE DEF y
    <3>1. \A u, v, w \in Int : u * (v + w) = u * v + u * w
      OBVIOUS
    <3>2. /\ a * (f[x] + F(y)) = a * f[x] + a * F(y)
          /\ b * (g[x] + H(y)) = b * g[x] + b * H(y)
      BY <2>4, <3>1
    <3>3. a * f[x] \in Int /\ a * F(y) \in Int /\ b * g[x] \in Int /\ b * H(y) \in Int
      BY <2>4
    <3> QED BY <2>2, <2>5, <3>2, <3>3
  <2> QED BY <2>3, <2>6
<1> HIDE DEF G
<1>5. \A z \in SUBSET S : z \in G
  BY <1>1, <1>3, <1>4, SubsetInduction
<1> QED BY <1>5 DEF G, F, H

LEMMA SumCongruent ==
    ASSUME NEW D, IsFiniteSet(D), NEW f, NEW g,
           \A x \in D : f[x] \in Int /\ g[x] \in Int,
           NEW S \in SUBSET D, \A x \in S : f[x] = g[x]
    PROVE  SumFunctionOnSet(f, S) = SumFunctionOnSet(g, S)
<1>1. PICK a \in Int : a = 1
  OBVIOUS
<1>2. \A x \in S : a * f[x] <= a * g[x] /\ a * g[x] <= a * f[x]
  BY <1>1
<1>3. a * SumFunctionOnSet(f, S) <= a * SumFunctionOnSet(g, S)
  BY <1>2, SumBound
<1>4. a * SumFunctionOnSet(g, S) <= a * SumFunctionOnSet(f, S)
  BY <1>2, SumBound
<1>5. SumFunctionOnSet(f, S) \in Int /\ SumFunctionOnSet(g, S) \in Int
  BY SumStep
<1> QED BY <1>1, <1>3, <1>4, <1>5

-----------------------------------------------------------------------------
(* FEASIBILITY.  What mrtk_IsEdfSchedulingFeasible accepts.                *)

TasksOK == prop \in [Users -> Properties]

LEMMA UsersAreFinite == IsFiniteSet(Users) /\ Users \subseteq Nat
<1>1. UsersMax - 1 \in Int /\ 0 \in Int
  BY PartitionAssumption
<1>2. IsFiniteSet(0..(UsersMax - 1))
  BY <1>1, FS_Interval, Zenon
<1>3. Users \in SUBSET (0..(UsersMax - 1)) /\ 0..(UsersMax - 1) \subseteq Nat
  BY PartitionAssumption
<1>4. IsFiniteSet(Users)
  BY <1>2, <1>3, FS_Subset
<1> QED BY <1>3, <1>4

LEMMA TaskNumbers ==
    ASSUME TasksOK, NEW t \in Users
    PROVE  /\ prop[t].executiontime \in Nat
           /\ prop[t].period \in 1..(U32 - 1)
           /\ prop[t].deadline \in 1..prop[t].period
           /\ Capacity(t) \in Nat
           /\ Capacity(t) * prop[t].period = prop[t].executiontime * Scale
<1> DEFINE C == prop[t].executiontime
           T == prop[t].period
<1>1. /\ C \in Nat /\ T \in 1..(U32 - 1) /\ prop[t].deadline \in 1..T
      /\ Scale % T = 0
  BY PartitionAssumption DEF TasksOK
<1>2. Scale \in Nat /\ T \in Nat \ {0}
  BY <1>1, PartitionAssumption, HeapAssumption
<1> HIDE DEF C, T
<1>3. Scale = T * (Scale \div T) /\ Scale \div T \in Nat
  BY <1>1, <1>2
<1>4. PICK k \in Nat : Scale = T * k
  BY <1>3
<1>5. C * Scale = (C * k) * T /\ C * k \in Nat
  BY <1>1, <1>2, <1>4
<1>6. \A n \in Nat : (n * T) \div T = n
  BY <1>2
<1>7. (C * Scale) \div T = C * k
  BY <1>5, <1>6
<1> QED BY <1>1, <1>5, <1>7 DEF Capacity, C, T

(* The need of the jobs that are due is below the bound the code computes, *)
(* which grows from deadline - period on.                                  *)
LEMMA JobsFitDemand ==
    ASSUME TasksOK, NEW t \in Users, NEW x \in Nat
    PROVE  LET bound == (x - prop[t].deadline) * Capacity(t) + prop[t].executiontime * Scale
           IN  /\ JobsDue(t, x) \in Nat
               /\ bound \in Int
               /\ Scale * JobsDue(t, x) <= bound
               /\ bound = (x + (prop[t].period - prop[t].deadline)) * Capacity(t)
<1> DEFINE C == prop[t].executiontime
           T == prop[t].period
           d == prop[t].deadline
           cap == Capacity(t)
           bound == (x - d) * cap + C * Scale
<1>1. /\ C \in Nat /\ T \in Nat \ {0} /\ d \in Nat /\ d <= T /\ cap \in Nat
      /\ cap * T = C * Scale /\ Scale \in Nat
  BY TaskNumbers, PartitionAssumption, HeapAssumption
<1>2. JobsDue(t, x) = IF x < d THEN 0 ELSE ((x - d) \div T + 1) * C
  BY DEF JobsDue
<1> HIDE DEF C, T, d, cap
<1>3. bound = (x + (T - d)) * cap
  <2>1. (x - d) * cap + cap * T = (x + (T - d)) * cap
    BY <1>1
  <2> QED BY <1>1, <2>1
<1>4. bound \in Int
  BY <1>1
<1>5. CASE x < d
  <2>1. x + (T - d) \in Nat
    BY <1>1
  <2>2. 0 <= (x + (T - d)) * cap
    BY <1>1, <2>1
  <2>3. JobsDue(t, x) = 0
    BY <1>2, <1>5
  <2>4. Scale * 0 = 0
    BY <1>1
  <2> QED BY <1>3, <1>4, <2>2, <2>3, <2>4 DEF C, T, d, cap
<1>6. CASE ~(x < d)
  <2> DEFINE k == (x - d) \div T
  <2>1. x - d \in Nat
    BY <1>1, <1>6
  <2>2. k \in Nat /\ k * T <= x - d
    BY <1>1, <2>1
  <2> HIDE DEF k
  <2>3. (k + 1) * C \in Nat
    BY <1>1, <2>2
  <2>4. Scale * ((k + 1) * C) = k * (C * Scale) + C * Scale
    BY <1>1, <2>2
  <2>5. k * (C * Scale) = (k * T) * cap
    <3>1. k * (cap * T) = (k * T) * cap
      BY <1>1, <2>2
    <3> QED BY <1>1, <3>1
  <2>6. (k * T) * cap <= (x - d) * cap
    <3>1. k * T \in Nat
      BY <1>1, <2>2
    <3> QED BY <1>1, <2>1, <2>2, <3>1
  <2>7. Scale * ((k + 1) * C) <= bound
    <3>1. C * Scale \in Nat /\ (k * T) * cap \in Int /\ (x - d) * cap \in Int
      BY <1>1, <2>1, <2>2
    <3> QED BY <2>4, <2>5, <2>6, <3>1
  <2>8. JobsDue(t, x) = (k + 1) * C
    BY <1>2, <1>6 DEF k
  <2> QED BY <1>3, <1>4, <2>3, <2>7, <2>8 DEF C, T, d, cap
<1> QED BY <1>5, <1>6

LEMMA MaxMarginBounds ==
    ASSUME TasksOK, NEW S \in SUBSET Users, S # {}
    PROVE  /\ MaxMargin(S) \in Nat
           /\ \A t \in S : prop[t].period - prop[t].deadline <= MaxMargin(S)
<1> DEFINE M == {prop[t].period - prop[t].deadline : t \in S}
<1>1. \A t \in S : LET m == prop[t].period - prop[t].deadline IN m \in Nat /\ m <= U32
  <2> TAKE t \in S
  <2>1. prop[t].period \in 1..(U32 - 1) /\ prop[t].deadline \in 1..prop[t].period
    BY TaskNumbers
  <2> QED BY <2>1, HeapAssumption
<1>2. M \subseteq Nat /\ M # {} /\ \A m \in M : m <= U32
  BY <1>1
<1>3. U32 \in Nat
  BY HeapAssumption
<1>4. Max(M) \in M /\ \A m \in M : m <= Max(M)
  <2> HIDE DEF M
  <2> QED BY <1>2, <1>3, GreatestIsMax
<1>5. MaxMargin(S) = Max(M)
  BY DEF MaxMargin
<1> HIDE DEF MaxMargin
<1> QED BY <1>2, <1>4, <1>5

\* The jobs of S that are released and due within x need no more than x.
InTime(S, x) == SumFunctionOnSet([t \in Users |-> JobsDue(t, x)], S) <= x

(* The arithmetic of the test: V is the utilization, D the demand at x, J  *)
(* the need of the jobs due, and u the usage allowed, in per cent.         *)
LEMMA BeyondLimit ==
    ASSUME NEW x \in Nat, NEW m \in Nat, NEW u \in 1..99, NEW N \in Nat \ {0},
           NEW V \in Int, NEW D \in Int, NEW J \in Int,
           N * J <= D, D <= (x + m) * V, 100 * V <= u * N,
           ~(x * (100 - u) < u * m)
    PROVE  J <= x
<1>1. x + m \in Nat /\ u \in Int /\ 100 - u \in Int
  OBVIOUS
<1>2. (x + m) * (100 * V) <= (x + m) * (u * N)
  <2>1. 100 * V \in Int /\ u * N \in Int
    OBVIOUS
  <2> QED BY <1>1, <2>1
<1>3. (x + m) * (100 * V) = 100 * ((x + m) * V)
  BY <1>1
<1>4. 100 * D <= (x + m) * (u * N)
  BY <1>1, <1>2, <1>3
<1>5. (x + m) * (u * N) = (x * u + u * m) * N
  BY <1>1
<1>6. x * u + u * m <= 100 * x
  <2>1. x * (100 - u) = 100 * x - x * u
    BY <1>1
  <2>2. x * (100 - u) \in Int /\ u * m \in Int /\ x * u \in Int
    BY <1>1
  <2> QED BY <2>1, <2>2
<1>7. (x * u + u * m) * N <= (100 * x) * N
  <2>1. x * u + u * m \in Int /\ 100 * x \in Int
    BY <1>1
  <2> QED BY <1>6, <2>1
<1>8. (100 * x) * N = 100 * (N * x) /\ N * x \in Int /\ N * J \in Int
  OBVIOUS
<1>9. N * J <= N * x
  <2>1. (x + m) * (u * N) \in Int /\ (x * u + u * m) * N \in Int
    BY <1>1
  <2> QED BY <1>4, <1>5, <1>7, <1>8, <2>1
<1> QED BY <1>9

(* Tasks that pass the test of mrtk_IsEdfSchedulingFeasible meet their     *)
(* deadlines: below the limit by the demand that the loop computes, and    *)
(* from there on because the processor is not used enough to fall behind.  *)
THEOREM FeasibleTasksMeetDeadlines ==
    ASSUME TasksOK, NEW S \in SUBSET Users, S # {}, IsEdfSchedulingFeasible(S),
           NEW x \in Nat \ {0}
    PROVE  InTime(S, x)
<1> DEFINE jobs == [t \in Users |-> JobsDue(t, x)]
           bound == [t \in Users |-> (x - prop[t].deadline) * Capacity(t)
                                        + prop[t].executiontime * Scale]
           load == [t \in Users |-> Capacity(t)]
           m == MaxMargin(S)
           J == SumFunctionOnSet(jobs, S)
           D == SumFunctionOnSet(bound, S)
           V == SumFunctionOnSet(load, S)
<1>1. \A t \in Users : /\ jobs[t] \in Int /\ bound[t] \in Int
                       /\ load[t] \in Nat /\ load[t] \in Int
                       /\ Scale * jobs[t] <= bound[t]
                       /\ bound[t] = (x + (prop[t].period - prop[t].deadline)) * load[t]
  BY JobsFitDemand, TaskNumbers
<1>2. m \in Nat /\ \A t \in S : prop[t].period - prop[t].deadline <= m
  BY MaxMarginBounds
<1>3. Scale \in Nat \ {0} /\ MaxCpuUsage \in 1..99
  BY PartitionAssumption
<1>4. J \in Int /\ D \in Int /\ V \in Int
  <2> HIDE DEF jobs, bound, load
  <2>1. /\ \A t \in Users : jobs[t] \in Int
        /\ \A t \in Users : bound[t] \in Int
        /\ \A t \in Users : load[t] \in Int
    BY <1>1
  <2> QED BY <2>1, UsersAreFinite, SumStep
<1>5. Scale * J <= D
  <2>1. PICK a \in Int : a = 1
    OBVIOUS
  <2>2. \A t \in S : Scale * jobs[t] <= a * bound[t]
    <3> HIDE DEF jobs, bound
    <3> QED BY <1>1, <2>1
  <2>3. Scale \in Int
    BY <1>3
  <2>4. Scale * J <= a * D
    <3> HIDE DEF jobs, bound
    <3> QED BY <1>1, <2>2, <2>3, UsersAreFinite, SumBound
  <2> QED BY <1>4, <2>1, <2>4
<1>6. D <= (x + m) * V
  <2>1. PICK a \in Int : a = 1
    OBVIOUS
  <2>2. \A t \in S : a * bound[t] <= (x + m) * load[t]
    <3> TAKE t \in S
    <3> DEFINE n == x + (prop[t].period - prop[t].deadline)
    <3>1. n \in Int /\ n <= x + m
      BY <1>2, TaskNumbers
    <3>2. load[t] \in Nat /\ bound[t] = n * load[t] /\ bound[t] \in Int
      BY <1>1
    <3> HIDE DEF n, load, bound, m
    <3>3. n * load[t] <= (x + m) * load[t]
      BY <1>2, <3>1, <3>2
    <3> QED BY <2>1, <3>2, <3>3
  <2>3. PICK b \in Int : b = x + m
    BY <1>2
  <2>4. a * D <= b * V
    <3> HIDE DEF load, bound, m
    <3>1. \A t \in S : a * bound[t] <= b * load[t]
      BY <2>2, <2>3
    <3>2. \A t \in Users : bound[t] \in Int /\ load[t] \in Int
      BY <1>1
    <3> QED BY <3>1, <3>2, UsersAreFinite, SumBound
  <2> HIDE DEF m, V, D
  <2> QED BY <1>4, <2>1, <2>3, <2>4
<1>7. 100 * V <= MaxCpuUsage * Scale
  BY DEF IsEdfSchedulingFeasible, Utilization
<1>8. BelowLimit(x, m) => D < x * Scale
  <2>1. ASSUME BelowLimit(x, m)
        PROVE  x \in 1..(MaxCpuUsage * m)
    <3> HIDE DEF m
    <3>1. x * (100 - MaxCpuUsage) < MaxCpuUsage * m
      BY <2>1 DEF BelowLimit
    <3>2. x <= x * (100 - MaxCpuUsage)
      BY <1>3
    <3>3. MaxCpuUsage * m \in Int /\ x * (100 - MaxCpuUsage) \in Int
      BY <1>2, <1>3
    <3> QED BY <3>1, <3>2, <3>3
  <2> QED BY <2>1 DEF IsEdfSchedulingFeasible, Demand
<1> HIDE DEF J, D, V, m
<1>9. CASE BelowLimit(x, m)
  <2>1. Scale * J < Scale * x
    <3>1. Scale * J \in Int /\ x * Scale = Scale * x /\ Scale * x \in Int
      BY <1>3, <1>4
    <3> QED BY <1>4, <1>5, <1>8, <1>9, <3>1
  <2>2. J <= x
    BY <1>3, <1>4, <2>1
  <2> QED BY <2>2 DEF InTime, J
<1>10. CASE ~BelowLimit(x, m)
  <2>1. J <= x
    <3>1. ~(x * (100 - MaxCpuUsage) < MaxCpuUsage * m)
      BY <1>10 DEF BelowLimit
    <3> QED BY <1>2, <1>3, <1>4, <1>5, <1>6, <1>7, <3>1, BeyondLimit
  <2> QED BY <2>1 DEF InTime, J
<1> QED BY <1>9, <1>10

-----------------------------------------------------------------------------
(* SORTING.  Both insertion sorts give the same elements, in order.        *)

LEMMA InsertAtPlace ==
    ASSUME NEW E, NEW s \in Seq(E), NEW e \in E, NEW i \in 1..(Len(s) + 1)
    PROVE  /\ InsertAt(s, i, e) \in Seq(E)
           /\ Len(InsertAt(s, i, e)) = Len(s) + 1
           /\ \A j \in 1..(Len(s) + 1) :
                 InsertAt(s, i, e)[j] = IF j < i THEN s[j]
                                        ELSE IF j = i THEN e ELSE s[j - 1]
<1> DEFINE l == SubSeq(s, 1, i - 1)
           r == SubSeq(s, i, Len(s))
           m == <<e>>
<1>1. Len(s) \in Nat /\ i \in Int /\ i - 1 \in Int /\ \A j \in 1..Len(s) : s[j] \in E
  BY LenProperties, ElementOfSeq
<1>2. l \in Seq(E) /\ Len(l) = i - 1 /\ \A j \in 1..(i - 1) : l[j] = s[j]
  <2>1. \A j \in 1..(i - 1) : s[j] \in E
    BY <1>1
  <2>2. /\ l \in Seq(E)
        /\ Len(l) = IF 1 <= i - 1 THEN i - 1 - 1 + 1 ELSE 0
        /\ \A j \in 1..(i - 1 - 1 + 1) : l[j] = s[1 + j - 1]
    BY <1>1, <2>1, SubSeqProperties
  <2>3. \A j \in 1..(i - 1) : j \in 1..(i - 1 - 1 + 1) /\ 1 + j - 1 = j
    BY <1>1
  <2> HIDE DEF l
  <2> QED BY <1>1, <2>2, <2>3
<1>3. r \in Seq(E) /\ Len(r) = Len(s) - i + 1 /\ \A j \in 1..(Len(s) - i + 1) : r[j] = s[i + j - 1]
  <2>1. \A j \in i..Len(s) : s[j] \in E
    BY <1>1
  <2>2. /\ r \in Seq(E)
        /\ Len(r) = IF i <= Len(s) THEN Len(s) - i + 1 ELSE 0
        /\ \A j \in 1..(Len(s) - i + 1) : r[j] = s[i + j - 1]
    BY <1>1, <2>1, SubSeqProperties
  <2> HIDE DEF r
  <2> QED BY <1>1, <2>2
<1>4. m \in Seq(E) /\ Len(m) = 1 /\ m[1] = e
  OBVIOUS
<1> HIDE DEF l, r, m
<1>5. /\ l \o m \in Seq(E) /\ Len(l \o m) = i
      /\ \A j \in 1..i : (l \o m)[j] = IF j < i THEN s[j] ELSE e
  <2>1. /\ l \o m \in Seq(E) /\ Len(l \o m) = Len(l) + Len(m)
        /\ \A j \in 1..(Len(l) + Len(m)) :
              (l \o m)[j] = IF j <= Len(l) THEN l[j] ELSE m[j - Len(l)]
    BY <1>2, <1>4, ConcatProperties
  <2>2. Len(l) + Len(m) = i /\ Len(l) = i - 1
    BY <1>1, <1>2, <1>4
  <2>3. \A j \in 1..i : (j <= i - 1 <=> j < i) /\ (~(j < i) => j - (i - 1) = 1)
    BY <1>1
  <2>4. ASSUME NEW j \in 1..i
        PROVE  (l \o m)[j] = IF j < i THEN s[j] ELSE e
    <3>1. CASE j < i
      <4>1. j <= Len(l) /\ j \in 1..(i - 1)
        BY <2>2, <3>1, <1>1
      <4> QED BY <2>1, <2>2, <4>1, <3>1, <1>2
    <3>2. CASE ~(j < i)
      <4>1. ~(j <= Len(l)) /\ j - Len(l) = 1
        BY <2>2, <2>3, <3>2
      <4> QED BY <2>1, <2>2, <4>1, <3>2, <1>4
    <3> QED BY <3>1, <3>2
  <2> QED BY <2>1, <2>2, <2>4
<1> DEFINE q == l \o m
<1>0. q \in Seq(E)
  BY <1>5
<1> HIDE DEF q
<1>6. /\ q \o r \in Seq(E) /\ Len(q \o r) = Len(q) + Len(r)
      /\ \A j \in 1..(Len(q) + Len(r)) :
            (q \o r)[j] = IF j <= Len(q) THEN q[j] ELSE r[j - Len(q)]
  BY <1>3, <1>0, ConcatProperties
<1>7. Len(q) + Len(r) = Len(s) + 1 /\ Len(q) = i
  BY <1>1, <1>3, <1>5 DEF q
<1>8. ASSUME NEW j \in 1..(Len(s) + 1)
      PROVE  (q \o r)[j] = IF j < i THEN s[j] ELSE IF j = i THEN e ELSE s[j - 1]
  <2>1. CASE j <= i
    <3>1. j \in 1..i
      BY <1>1, <2>1
    <3>2. (q \o r)[j] = q[j]
      BY <1>6, <1>7, <2>1
    <3>3. q[j] = IF j < i THEN s[j] ELSE e
      BY <1>5, <3>1 DEF q
    <3>4. ~(j < i) => j = i
      BY <1>1, <2>1
    <3> QED BY <3>2, <3>3, <3>4
  <2>2. CASE ~(j <= i)
    <3>1. j - i \in 1..(Len(s) - i + 1) /\ i + (j - i) - 1 = j - 1 /\ ~(j < i) /\ j # i
      BY <1>1, <2>2
    <3>2. (q \o r)[j] = r[j - i]
      BY <1>6, <1>7, <2>2
    <3>3. r[j - i] = s[i + (j - i) - 1]
      BY <1>3, <3>1
    <3> QED BY <3>1, <3>2, <3>3
  <2> QED BY <2>1, <2>2
<1>9. InsertAt(s, i, e) = q \o r
  BY DEF InsertAt, q, l, m, r
<1> QED BY <1>6, <1>7, <1>8, <1>9

\* The elements of s differ and their ranks grow.
Sorted(s, rank) ==
    \A a, b \in 1..Len(s) : a < b => s[a] # s[b] /\ rank[s[a]] <= rank[s[b]]

Inserted(s, e, rank) ==
    InsertAt(s, Max({j \in 1..Len(s) : rank[s[j]] <= rank[e]} \cup {0}) + 1, e)

Elements(s) == {s[j] : j \in 1..Len(s)}

\* e is inserted at i, before the first element of a greater rank.
InsertedBefore(s, e, rank, i) ==
    /\ i \in 1..(Len(s) + 1)
    /\ i # 1 => rank[s[i - 1]] <= rank[e]
    /\ \A j \in 1..Len(s) : j >= i => rank[e] < rank[s[j]]
    /\ Inserted(s, e, rank) = InsertAt(s, i, e)

LEMMA InsertedInSeq ==
    ASSUME NEW E, NEW rank \in [E -> Int], NEW s \in Seq(E), NEW e \in E
    PROVE  /\ \E i : InsertedBefore(s, e, rank, i)
           /\ Inserted(s, e, rank) \in Seq(E)
           /\ Len(Inserted(s, e, rank)) = Len(s) + 1
<1> DEFINE A == {j \in 1..Len(s) : rank[s[j]] <= rank[e]} \cup {0}
           i == Max(A) + 1
<1>1. Len(s) \in Nat /\ \A j \in 1..Len(s) : s[j] \in E
  BY LenProperties, ElementOfSeq
<1>2. A \subseteq Nat /\ A # {} /\ \A j \in A : j <= Len(s)
  BY <1>1
<1>3. Max(A) \in A /\ \A j \in A : j <= Max(A)
  <2> HIDE DEF A
  <2> QED BY <1>1, <1>2, GreatestIsMax
<1>4. i \in 1..(Len(s) + 1) /\ i - 1 = Max(A)
  <2>1. Max(A) \in Nat /\ Max(A) <= Len(s)
    BY <1>2, <1>3
  <2> QED BY <1>1, <2>1
<1>5. i # 1 => rank[s[i - 1]] <= rank[e]
  <2>1. i # 1 => Max(A) # 0
    BY <1>4
  <2>2. Max(A) # 0 => rank[s[Max(A)]] <= rank[e]
    BY <1>3
  <2> QED BY <1>4, <2>1, <2>2
<1>6. ASSUME NEW j \in 1..Len(s), j >= i
      PROVE  rank[e] < rank[s[j]]
  <2>1. ~(j <= Max(A))
    BY <1>4, <1>6
  <2>2. j \notin A
    BY <1>3, <2>1
  <2>3. rank[e] \in Int /\ rank[s[j]] \in Int
    BY <1>1
  <2> QED BY <2>2, <2>3
<1>7. Inserted(s, e, rank) = InsertAt(s, i, e)
  BY DEF Inserted
<1> HIDE DEF i
<1>8. InsertAt(s, i, e) \in Seq(E) /\ Len(InsertAt(s, i, e)) = Len(s) + 1
  BY <1>4, InsertAtPlace
<1>9. InsertedBefore(s, e, rank, i)
  BY <1>4, <1>5, <1>6, <1>7 DEF InsertedBefore
<1> QED BY <1>7, <1>8, <1>9

LEMMA InsertedSorted ==
    ASSUME NEW E, NEW rank \in [E -> Int], NEW s \in Seq(E), NEW e \in E,
           Sorted(s, rank), e \notin Elements(s)
    PROVE  /\ Sorted(Inserted(s, e, rank), rank)
           /\ Elements(Inserted(s, e, rank)) = Elements(s) \cup {e}
<1> DEFINE r == Inserted(s, e, rank)
           n == Len(s)
<1>0. PICK i : InsertedBefore(s, e, rank, i)
  BY InsertedInSeq
<1>1. /\ i \in 1..(n + 1)
      /\ i # 1 => rank[s[i - 1]] <= rank[e]
      /\ \A j \in 1..n : j >= i => rank[e] < rank[s[j]]
      /\ r = InsertAt(s, i, e)
      /\ Len(r) = n + 1
  BY <1>0, InsertedInSeq DEF InsertedBefore
<1>2. n \in Nat /\ \A j \in 1..n : s[j] \in E /\ rank[s[j]] \in Int /\ s[j] # e
  BY LenProperties, ElementOfSeq DEF Elements
<1>3. \A j \in 1..(n + 1) : r[j] = IF j < i THEN s[j] ELSE IF j = i THEN e ELSE s[j - 1]
  <2>1. i \in 1..(Len(s) + 1)
    BY <1>1
  <2>2. \A j \in 1..(Len(s) + 1) :
           InsertAt(s, i, e)[j] = IF j < i THEN s[j]
                                  ELSE IF j = i THEN e ELSE s[j - 1]
    BY <2>1, InsertAtPlace
  <2> HIDE DEF r
  <2> QED BY <1>1, <2>2
<1> HIDE DEF r
<1>4. rank[e] \in Int
  OBVIOUS
<1>5. \A j \in 1..n : j < i => rank[s[j]] <= rank[e]
  <2> TAKE j \in 1..n
  <2> HAVE j < i
  <2>1. i - 1 \in 1..n /\ (j < i - 1 \/ j = i - 1) /\ i # 1
    BY <1>1, <1>2
  <2>2. rank[s[j]] <= rank[s[i - 1]]
    BY <1>2, <2>1 DEF Sorted
  <2> QED BY <1>1, <1>2, <1>4, <2>1, <2>2
<1>6. ASSUME NEW a \in 1..Len(r), NEW b \in 1..Len(r), a < b
      PROVE  r[a] # r[b] /\ rank[r[a]] <= rank[r[b]]
  <2>1. a \in 1..(n + 1) /\ b \in 1..(n + 1)
    BY <1>1
  <2>2. CASE b < i
    <3>1. a \in 1..n /\ b \in 1..n /\ r[a] = s[a] /\ r[b] = s[b]
      BY <1>1, <1>2, <1>3, <1>6, <2>1, <2>2
    <3> QED BY <1>6, <3>1 DEF Sorted
  <2>3. CASE b = i
    <3>1. a \in 1..n /\ a < i /\ r[a] = s[a] /\ r[b] = e
      BY <1>1, <1>2, <1>3, <1>6, <2>1, <2>3
    <3> QED BY <1>2, <1>5, <3>1
  <2>4. CASE b > i /\ a < i
    <3>1. a \in 1..n /\ b - 1 \in 1..n /\ a < b - 1 /\ r[a] = s[a] /\ r[b] = s[b - 1]
      BY <1>1, <1>2, <1>3, <1>6, <2>1, <2>4
    <3> QED BY <3>1 DEF Sorted
  <2>5. CASE b > i /\ a = i
    <3>1. b - 1 \in 1..n /\ b - 1 >= i /\ r[a] = e /\ r[b] = s[b - 1]
      BY <1>1, <1>2, <1>3, <1>6, <2>1, <2>5
    <3>2. rank[e] < rank[s[b - 1]] /\ rank[s[b - 1]] \in Int /\ s[b - 1] # e
      BY <1>1, <1>2, <3>1
    <3> QED BY <1>4, <3>1, <3>2
  <2>6. CASE b > i /\ a > i
    <3>1. a - 1 \in 1..n /\ b - 1 \in 1..n /\ a - 1 < b - 1 /\ r[a] = s[a - 1] /\ r[b] = s[b - 1]
      BY <1>1, <1>2, <1>3, <1>6, <2>1, <2>6
    <3> QED BY <3>1 DEF Sorted
  <2> QED BY <1>1, <2>1, <2>2, <2>3, <2>4, <2>5, <2>6
<1>7. Elements(r) = Elements(s) \cup {e}
  <2>1. ASSUME NEW x \in Elements(r)
        PROVE  x \in Elements(s) \cup {e}
    <3>1. PICK j \in 1..(n + 1) : x = r[j]
      BY <1>1 DEF Elements
    <3>2. (j < i => j \in 1..n) /\ (j > i => j - 1 \in 1..n)
      BY <1>1, <1>2
    <3>3. x = e \/ (j < i /\ x = s[j]) \/ (j > i /\ x = s[j - 1])
      BY <1>1, <1>3, <3>1
    <3> QED BY <3>2, <3>3 DEF Elements
  <2>2. e \in Elements(r)
    BY <1>1, <1>2, <1>3 DEF Elements
  <2>3. ASSUME NEW x \in Elements(s)
        PROVE  x \in Elements(r)
    <3>1. PICK j \in 1..n : x = s[j]
      BY DEF Elements
    <3>2. CASE j < i
      <4>1. j \in 1..(n + 1) /\ r[j] = x
        BY <1>1, <1>2, <1>3, <3>1, <3>2
      <4> QED BY <1>1, <4>1 DEF Elements
    <3>3. CASE ~(j < i)
      <4>1. j + 1 \in 1..(n + 1) /\ ~(j + 1 < i) /\ j + 1 # i /\ j + 1 - 1 = j
        BY <1>1, <1>2, <3>1, <3>3
      <4>2. r[j + 1] = x
        BY <1>3, <3>1, <4>1
      <4> QED BY <1>1, <4>1, <4>2 DEF Elements
    <3> QED BY <3>2, <3>3
  <2> QED BY <2>1, <2>2, <2>3
<1> QED BY <1>6, <1>7 DEF Sorted, r

\* g[z] is what the sort makes of the elements of s at the positions z.
SortBy(E, rank, s, g) ==
    /\ g \in [SUBSET (1..Len(s)) -> Seq(E)]
    /\ g = [z \in SUBSET (1..Len(s)) |->
               IF z = {} THEN <<>>
               ELSE Inserted(g[z \ {Max(z)}], s[Max(z)], rank)]

LEMMA Positions ==
    ASSUME NEW E, NEW s \in Seq(E)
    PROVE  /\ Len(s) \in Nat /\ DOMAIN s = 1..Len(s)
           /\ \A j \in 1..Len(s) : s[j] \in E
           /\ IsFiniteSet(1..Len(s)) /\ Cardinality(1..Len(s)) = Len(s)
           /\ \A z \in SUBSET (1..Len(s)) : z # {} => Max(z) \in z
<1>1. Len(s) \in Nat /\ DOMAIN s = 1..Len(s) /\ \A j \in 1..Len(s) : s[j] \in E
  BY LenProperties, ElementOfSeq
<1> DEFINE n == Len(s)
<1>2. n \in Nat
  BY <1>1
<1> HIDE DEF n
<1>3. IsFiniteSet(1..n) /\ Cardinality(1..n) = n
  <2>1. 1 \in Int /\ n \in Int /\ (IF 1 > n THEN 0 ELSE n - 1 + 1) = n
    BY <1>2
  <2>2. IsFiniteSet(1..n) /\ Cardinality(1..n) = IF 1 > n THEN 0 ELSE n - 1 + 1
    BY <2>1, FS_Interval, Zenon
  <2> QED BY <2>1, <2>2
<1>4. \A z \in SUBSET (1..n) : z # {} => Max(z) \in z
  <2> TAKE z \in SUBSET (1..n)
  <2> HAVE z # {}
  <2>1. z \subseteq Nat /\ \A m \in z : m <= n
    BY <1>2
  <2> QED BY <1>2, <2>1, GreatestIsMax
<1> QED BY <1>1, <1>3, <1>4 DEF n

LEMMA SortExists ==
    ASSUME NEW E, NEW rank \in [E -> Int], NEW s \in Seq(E)
    PROVE  \E g : SortBy(E, rank, s, g)
<1> DEFINE D == 1..Len(s)
           step == [p \in D \X Seq(E) |-> Inserted(p[2], s[p[1]], rank)]
           pick == [z \in SUBSET D |-> Max(z)]
<1>1. IsFiniteSet(D) /\ Picks(D, pick)
  BY Positions DEF Picks
<1>2. step \in [D \X Seq(E) -> Seq(E)]
  <2>1. ASSUME NEW j \in D, NEW r \in Seq(E)
        PROVE  Inserted(r, s[j], rank) \in Seq(E)
    <3>1. s[j] \in E
      BY Positions
    <3> HIDE DEF D
    <3> QED BY <3>1, InsertedInSeq
  <2> HIDE DEF D
  <2> QED BY <2>1
<1>3. << >> \in Seq(E)
  OBVIOUS
<1>4. PICK g \in [SUBSET D -> Seq(E)] : g = Turn(D, pick, step, <<>>, g)
  <2> HIDE DEF step, pick, D
  <2>1. PICK b \in Seq(E) : b = <<>>
    BY <1>3
  <2>2. Recursive(D, Seq(E), pick, step, b)
    BY <1>1, <1>2, RecursionExists
  <2> QED BY <2>1, <2>2 DEF Recursive
<1>5. ASSUME NEW z \in SUBSET D, z # {}
      PROVE  step[<<pick[z], g[z \ {pick[z]}]>>] = Inserted(g[z \ {Max(z)}], s[Max(z)], rank)
  <2>1. Max(z) \in D /\ pick[z] = Max(z) /\ z \ {Max(z)} \in SUBSET D
    BY <1>1, <1>5 DEF Picks
  <2>2. g[z \ {Max(z)}] \in Seq(E)
    BY <2>1
  <2> HIDE DEF D
  <2> QED BY <2>1, <2>2
<1>6. Turn(D, pick, step, <<>>, g) =
         [z \in SUBSET D |->
             IF z = {} THEN <<>> ELSE Inserted(g[z \ {Max(z)}], s[Max(z)], rank)]
  <2> HIDE DEF step, pick, D
  <2> QED BY <1>5 DEF Turn
<1> HIDE DEF step, pick
<1> QED BY <1>4, <1>6 DEF SortBy

\* r holds the elements of s, once each and by growing rank.
SortedCopy(r, s, E, rank) ==
    /\ r \in Seq(E)
    /\ Sorted(r, rank)
    /\ Elements(r) = Elements(s)
    /\ Len(r) = Len(s)

LEMMA SortSorts ==
    ASSUME NEW E, NEW rank \in [E -> Int], NEW s \in Seq(E),
           \A a, b \in 1..Len(s) : s[a] = s[b] => a = b,
           NEW g, SortBy(E, rank, s, g)
    PROVE  SortedCopy(g[1..Len(s)], s, E, rank)
<1> DEFINE D == 1..Len(s)
           Good(z) == /\ Sorted(g[z], rank)
                      /\ Elements(g[z]) = {s[j] : j \in z}
                      /\ Len(g[z]) = Cardinality(z)
           G == {z \in SUBSET D : Good(z)}
<1>1. /\ IsFiniteSet(D) /\ Cardinality(D) = Len(s)
      /\ \A z \in SUBSET D : z # {} => Max(z) \in z
      /\ \A j \in D : s[j] \in E
  BY Positions
<1>2. /\ g \in [SUBSET D -> Seq(E)]
      /\ g[{}] = <<>>
      /\ \A z \in SUBSET D :
            z # {} => g[z] = Inserted(g[z \ {Max(z)}], s[Max(z)], rank)
  <2> HIDE DEF D
  <2>1. g = [z \in SUBSET D |->
               IF z = {} THEN <<>>
               ELSE Inserted(g[z \ {Max(z)}], s[Max(z)], rank)]
    BY DEF SortBy, D
  <2>2. g \in [SUBSET D -> Seq(E)]
    BY DEF SortBy, D
  <2> QED BY <2>1, <2>2
<1>3. {} \in G
  BY <1>2, FS_EmptySet DEF Sorted, Elements
<1>4. ASSUME NEW z \in SUBSET D, z # {}, \A x \in z : z \ {x} \in G
      PROVE  z \in G
  <2> DEFINE m == Max(z)
             y == z \ {m}
  <2>1. m \in z /\ m \in D /\ y \in SUBSET D /\ s[m] \in E
    BY <1>1, <1>4
  <2>2. Good(y)
    BY <1>4, <2>1
  <2>3. g[y] \in Seq(E) /\ g[z] = Inserted(g[y], s[m], rank)
    BY <1>2, <1>4, <2>1
  <2>4. s[m] \notin Elements(g[y])
    BY <2>1, <2>2
  <2>5. PICK q \in Seq(E), e \in E : q = g[y] /\ e = s[m]
    BY <2>1, <2>3
  <2>6. Sorted(q, rank) /\ e \notin Elements(q) /\ g[z] = Inserted(q, e, rank)
    BY <2>2, <2>3, <2>4, <2>5
  <2>7. /\ Sorted(Inserted(q, e, rank), rank)
        /\ Elements(Inserted(q, e, rank)) = Elements(q) \cup {e}
    BY <2>6, InsertedSorted
  <2>8. Elements(g[z]) = {s[j] : j \in z}
    BY <2>1, <2>2, <2>5, <2>6, <2>7
  <2>9. Len(Inserted(q, e, rank)) = Len(q) + 1
    BY InsertedInSeq
  <2>10. Cardinality(z) = Cardinality(y) + 1
    <3> HIDE DEF D
    <3>1. IsFiniteSet(y) /\ z = y \cup {m} /\ m \notin y
      BY <1>1, <2>1, FS_Subset
    <3> HIDE DEF y
    <3> QED BY <3>1, FS_AddElement
  <2>11. Len(g[z]) = Cardinality(z)
    BY <2>2, <2>5, <2>6, <2>9, <2>10
  <2> QED BY <2>6, <2>7, <2>8, <2>11
<1>5. D \in G
  <2>1. D \in SUBSET D
    OBVIOUS
  <2> HIDE DEF G, D
  <2> QED BY <1>1, <1>3, <1>4, <2>1, SubsetInduction
<1>6. Good(D) /\ g[D] \in Seq(E)
  <2> HIDE DEF Good, D
  <2> QED BY <1>2, <1>5
<1> QED BY <1>1, <1>6 DEF SortedCopy, Elements

\* The ranks by which the code sorts.
ByCapacity == [t \in Users |-> -Capacity(t)]

LEMMA CapacityRanks == ASSUME TasksOK PROVE ByCapacity \in [Users -> Int]
  BY TaskNumbers DEF ByCapacity

\* A task once.
Once(s) == \A a, b \in 1..Len(s) : s[a] = s[b] => a = b

LEMMA TasksSorted ==
    ASSUME TasksOK, NEW tasks \in Seq(Users), Once(tasks)
    PROVE  SortedCopy(SortTasksToPartitioned(tasks), tasks, Users, ByCapacity)
<1> DEFINE D == 1..Len(tasks)
           Sorting(h) == h = [z \in SUBSET D |->
                                 IF z = {} THEN <<>>
                                 ELSE InsertTask(h[z \ {Max(z)}], tasks[Max(z)])]
<1>1. PICK g : SortBy(Users, ByCapacity, tasks, g)
  BY CapacityRanks, SortExists
<1>2. /\ g \in [SUBSET D -> Seq(Users)]
      /\ g = [z \in SUBSET D |->
                 IF z = {} THEN <<>>
                 ELSE Inserted(g[z \ {Max(z)}], tasks[Max(z)], ByCapacity)]
  BY <1>1 DEF SortBy
<1>3. ASSUME NEW s \in Seq(Users), NEW t \in Users
      PROVE  InsertTask(s, t) = Inserted(s, t, ByCapacity)
  <2>1. DOMAIN s = 1..Len(s) /\ \A j \in 1..Len(s) : s[j] \in Users
    BY Positions
  <2>2. \A u \in Users : Capacity(u) >= Capacity(t) <=> ByCapacity[u] <= ByCapacity[t]
    BY TaskNumbers DEF ByCapacity
  <2>3. {j \in DOMAIN s : Capacity(s[j]) >= Capacity(t)}
           = {j \in 1..Len(s) : ByCapacity[s[j]] <= ByCapacity[t]}
    BY <2>1, <2>2
  <2> QED BY <2>3 DEF InsertTask, Inserted
<1>4. \A z \in SUBSET D : z # {} => Max(z) \in z /\ Max(z) \in D /\ tasks[Max(z)] \in Users
  BY Positions
<1>5. Sorting(g)
  <2>1. ASSUME NEW z \in SUBSET D, z # {}
        PROVE  InsertTask(g[z \ {Max(z)}], tasks[Max(z)])
                  = Inserted(g[z \ {Max(z)}], tasks[Max(z)], ByCapacity)
    <3>1. g[z \ {Max(z)}] \in Seq(Users)
      BY <1>2
    <3> QED BY <1>3, <1>4, <2>1, <3>1
  <2> HIDE DEF D
  <2> QED BY <1>2, <2>1
<1>6. PICK h : Sorting(h) /\ SortTasksToPartitioned(tasks) = h[D]
  <2> DEFINE h == CHOOSE h : Sorting(h)
  <2>1. Sorting(h)
    BY <1>5
  <2>2. DOMAIN tasks = D
    BY Positions
  <2>3. SortTasksToPartitioned(tasks) = h[D]
    BY <2>2 DEF SortTasksToPartitioned, FoldLeft, MapThenFoldSet
  <2> QED BY <2>1, <2>3
<1>7. h[D] = g[D]
  <2> DEFINE G == {z \in SUBSET D : h[z] = g[z]}
  <2>1. {} \in G
    BY <1>5, <1>6
  <2>2. ASSUME NEW z \in SUBSET D, z # {}, \A x \in z : z \ {x} \in G
        PROVE  z \in G
    <3>1. h[z \ {Max(z)}] = g[z \ {Max(z)}]
      BY <1>4, <2>2
    <3>2. /\ h[z] = InsertTask(h[z \ {Max(z)}], tasks[Max(z)])
          /\ g[z] = InsertTask(g[z \ {Max(z)}], tasks[Max(z)])
      <4> HIDE DEF D
      <4> QED BY <1>5, <1>6, <2>2
    <3> QED BY <3>1, <3>2
  <2>3. IsFiniteSet(D)
    BY Positions
  <2>4. D \in SUBSET D
    OBVIOUS
  <2> HIDE DEF G, D
  <2>5. D \in G
    BY <2>1, <2>2, <2>3, <2>4, SubsetInduction
  <2> QED BY <2>5 DEF G
<1>8. SortedCopy(g[1..Len(tasks)], tasks, Users, ByCapacity)
  BY <1>1, CapacityRanks, SortSorts DEF Once
<1> QED BY <1>6, <1>7, <1>8

\* The elements of ProcessorCapacityList, and the rank they are sorted by.
Processor == [processorid : CPUs, total_capacity : Nat]

ByLoad == [p \in Processor |-> p.total_capacity]

LEMMA ProcessorsSorted ==
    ASSUME NEW list \in Seq(Processor), Once(list)
    PROVE  SortedCopy(SortProcessors(list), list, Processor, ByLoad)
<1> DEFINE D == 1..Len(list)
           Sorting(h) == h = [z \in SUBSET D |->
                                 IF z = {} THEN <<>>
                                 ELSE InsertProcessor(h[z \ {Max(z)}], list[Max(z)])]
<1>1. ByLoad \in [Processor -> Int]
  BY DEF ByLoad, Processor
<1>2. PICK g : SortBy(Processor, ByLoad, list, g)
  BY <1>1, SortExists
<1>3. /\ g \in [SUBSET D -> Seq(Processor)]
      /\ g = [z \in SUBSET D |->
                 IF z = {} THEN <<>>
                 ELSE Inserted(g[z \ {Max(z)}], list[Max(z)], ByLoad)]
  BY <1>2 DEF SortBy
<1>4. ASSUME NEW s \in Seq(Processor), NEW p \in Processor
      PROVE  InsertProcessor(s, p) = Inserted(s, p, ByLoad)
  <2>1. DOMAIN s = 1..Len(s) /\ \A j \in 1..Len(s) : s[j] \in Processor
    BY Positions
  <2>2. \A q \in Processor : q.total_capacity = ByLoad[q]
    BY DEF ByLoad
  <2>3. {j \in DOMAIN s : s[j].total_capacity <= p.total_capacity}
           = {j \in 1..Len(s) : ByLoad[s[j]] <= ByLoad[p]}
    BY <2>1, <2>2
  <2> QED BY <2>3 DEF InsertProcessor, Inserted
<1>5. \A z \in SUBSET D : z # {} => Max(z) \in z /\ Max(z) \in D /\ list[Max(z)] \in Processor
  BY Positions
<1>6. Sorting(g)
  <2>1. ASSUME NEW z \in SUBSET D, z # {}
        PROVE  InsertProcessor(g[z \ {Max(z)}], list[Max(z)])
                  = Inserted(g[z \ {Max(z)}], list[Max(z)], ByLoad)
    <3>1. g[z \ {Max(z)}] \in Seq(Processor)
      BY <1>3
    <3> QED BY <1>4, <1>5, <2>1, <3>1
  <2> HIDE DEF D
  <2> QED BY <1>3, <2>1
<1>7. PICK h : Sorting(h) /\ SortProcessors(list) = h[D]
  <2> DEFINE h == CHOOSE h : Sorting(h)
  <2>1. Sorting(h)
    BY <1>6
  <2>2. DOMAIN list = D
    BY Positions
  <2>3. SortProcessors(list) = h[D]
    BY <2>2 DEF SortProcessors, FoldLeft, MapThenFoldSet
  <2> QED BY <2>1, <2>3
<1>8. h[D] = g[D]
  <2> DEFINE G == {z \in SUBSET D : h[z] = g[z]}
  <2>1. {} \in G
    BY <1>6, <1>7
  <2>2. ASSUME NEW z \in SUBSET D, z # {}, \A x \in z : z \ {x} \in G
        PROVE  z \in G
    <3>1. h[z \ {Max(z)}] = g[z \ {Max(z)}]
      BY <1>5, <2>2
    <3>2. /\ h[z] = InsertProcessor(h[z \ {Max(z)}], list[Max(z)])
          /\ g[z] = InsertProcessor(g[z \ {Max(z)}], list[Max(z)])
      <4> HIDE DEF D
      <4> QED BY <1>6, <1>7, <2>2
    <3> QED BY <3>1, <3>2
  <2>3. IsFiniteSet(D)
    BY Positions
  <2>4. D \in SUBSET D
    OBVIOUS
  <2> HIDE DEF G, D
  <2>5. D \in G
    BY <2>1, <2>2, <2>3, <2>4, SubsetInduction
  <2> QED BY <2>5 DEF G
<1>9. SortedCopy(g[1..Len(list)], list, Processor, ByLoad)
  BY <1>1, <1>2, SortSorts DEF Once
<1> QED BY <1>7, <1>8, <1>9

-----------------------------------------------------------------------------
(* THE INVARIANT.                                                          *)

\* Which tasks exist, wait to be placed, and are placed.
TaskInv ==
    /\ TasksOK
    /\ State \in [Users -> {"SLEEPING", "READY", "EXECUTING"}]
    /\ TasksToPartitioned \in Seq(Users)
    /\ allocation \in [CPUs -> SUBSET Users]
    /\ \A t \in Elements(TasksToPartitioned) : State[t] # "SLEEPING"
    /\ \A c \in CPUs : \A t \in allocation[c] : State[t] # "SLEEPING"
    /\ \A c, d \in CPUs : c # d => allocation[c] \cap allocation[d] = {}

\* Until mrtk_start is over, a task created is in one place.
PlaceInv ==
    phase # "running" =>
        /\ Once(TasksToPartitioned)
        /\ \A c \in CPUs : allocation[c] \cap Elements(TasksToPartitioned) = {}
        /\ \A t \in Users : State[t] # "SLEEPING" =>
              t \in Elements(TasksToPartitioned) \/ \E c \in CPUs : t \in allocation[c]
        /\ \A t \in Users : State[t] # "EXECUTING"

\* What holds at each phase of mrtk_start.
PhaseInv ==
    /\ phase \in {"create", "placing", "partitioned", "running"}
    /\ found \in BOOLEAN
    /\ RunningTask \in Users \cup {0, Idle}
    /\ phase = "create" => \A c \in CPUs : allocation[c] = {}
    /\ phase = "placing" => /\ TasksToPartitioned # <<>>
                            /\ Sorted(TasksToPartitioned, ByCapacity)
    /\ phase = "create" => ~found
    /\ phase = "partitioned" /\ found => TasksToPartitioned = <<>>

\* Each CPU is in the list once, with the load of its tasks.
ListInv ==
    phase # "running" =>
        /\ ProcessorCapacityList \in Seq(Processor)
        /\ Len(ProcessorCapacityList) = NbProcessors
        /\ Sorted(ProcessorCapacityList, ByLoad)
        /\ \A a, b \in 1..NbProcessors :
              ProcessorCapacityList[a].processorid = ProcessorCapacityList[b].processorid
                 => a = b
        /\ \A c \in CPUs : \E j \in 1..NbProcessors : ProcessorCapacityList[j].processorid = c
        /\ \A j \in 1..NbProcessors :
              ProcessorCapacityList[j].total_capacity
                 = Utilization(allocation[ProcessorCapacityList[j].processorid])

QueuesInv ==
    /\ RdyQueue \in [CPUs -> QueueType]
    /\ \A c \in CPUs : GoodQueue(RdyQueue[c])
    /\ \A c \in CPUs : Members(RdyQueue[c]) \subseteq Users
    /\ phase # "running" =>
          \A c \in CPUs : Held(RdyQueue[c]) = {Entry(t, prop[t].deadline) : t \in allocation[c]}

\* At every time, and not only at those that the runs look at.
DeadlineInv == \A c \in CPUs : \A x \in Nat \ {0} : InTime(allocation[c], x)

IInv == TaskInv /\ PlaceInv /\ PhaseInv /\ ListInv /\ QueuesInv /\ DeadlineInv

LEMMA Loads ==
    ASSUME TasksOK, NEW S \in SUBSET Users
    PROVE  /\ Utilization({}) = 0
           /\ Utilization(S) \in Nat
           /\ \A t \in Users \ S : Utilization(S \cup {t}) = Utilization(S) + Capacity(t)
<1> DEFINE f == [t \in Users |-> Capacity(t)]
<1>1. \A t \in Users : f[t] \in Nat /\ f[t] \in Int /\ f[t] = Capacity(t)
  BY TaskNumbers
<1>2. Utilization({}) = 0 /\ Utilization(S) \in Int
  <2> HIDE DEF f
  <2>1. SumFunctionOnSet(f, {}) = 0 /\ SumFunctionOnSet(f, S) \in Int
    BY <1>1, UsersAreFinite, SumStep
  <2> QED BY <2>1 DEF Utilization, f
<1>3. 0 <= Utilization(S)
  <2>1. PICK a \in Int : a = 0
    OBVIOUS
  <2>2. PICK b \in Int : b = 1
    OBVIOUS
  <2>3. \A t \in S : a * f[t] <= b * f[t]
    <3> HIDE DEF f
    <3> QED BY <1>1, <2>1, <2>2
  <2>4. a * SumFunctionOnSet(f, S) <= b * SumFunctionOnSet(f, S)
    <3> HIDE DEF f
    <3> QED BY <1>1, <2>3, UsersAreFinite, SumBound
  <2>5. SumFunctionOnSet(f, S) = Utilization(S)
    BY DEF Utilization
  <2> HIDE DEF f
  <2> QED BY <1>2, <2>1, <2>2, <2>4, <2>5
<1>4. ASSUME NEW t \in Users \ S
      PROVE  Utilization(S \cup {t}) = Utilization(S) + Capacity(t)
  <2>0. PICK R : R = S \cup {t}
    OBVIOUS
  <2>1. R \in SUBSET Users /\ t \in R /\ R \ {t} = S
    BY <2>0
  <2>2. SumFunctionOnSet(f, R) = f[t] + SumFunctionOnSet(f, R \ {t})
    <3> HIDE DEF f
    <3>1. IsFiniteSet(Users) /\ \A u \in Users : f[u] \in Int
      BY <1>1, UsersAreFinite
    <3>2. SumSplits(f, R)
      BY <2>1, <3>1, SumStep
    <3> QED BY <2>1, <3>2 DEF SumSplits
  <2>3. Utilization(R) = SumFunctionOnSet(f, R) /\ Utilization(S) = SumFunctionOnSet(f, S)
    BY DEF Utilization
  <2> HIDE DEF f
  <2>4. Utilization(R) = f[t] + Utilization(S)
    BY <2>1, <2>2, <2>3
  <2> QED BY <1>1, <1>2, <2>0, <2>4
<1> QED BY <1>2, <1>3, <1>4

(* A queue of other users has room for one more.                           *)
LEMMA RoomForUser ==
    ASSUME NEW q, GoodQueue(q), NEW t \in Users, Members(q) \subseteq Users \ {t}
    PROVE  q.last < QueueSize - 1
<1> DEFINE B == 0..(UsersMax - 1)
           f == [i \in 1..q.last |-> q.tab[i].TaskId]
<1>1. /\ q.last \in 0..(QueueSize - 1) /\ QueueSize \in Nat
      /\ UsersMax \in Nat /\ UsersMax + 2 <= QueueSize
  BY QueueEntries, PartitionAssumption, HeapAssumption
<1>2. t \in B /\ Users \subseteq B
  BY PartitionAssumption
<1>3. IsFiniteSet(B) /\ Cardinality(B) = UsersMax
  <2>1. UsersMax # 0
    BY <1>1, <1>2
  <2>2. 0 \in Int /\ UsersMax - 1 \in Int /\ ~(0 > UsersMax - 1) /\ UsersMax - 1 - 0 + 1 = UsersMax
    BY <1>1, <2>1
  <2>3. IsFiniteSet(B) /\ Cardinality(B) = UsersMax - 1 - 0 + 1
    BY <2>2, FS_Interval, Zenon
  <2> QED BY <2>2, <2>3
<1>4. IsFiniteSet(B \ {t}) /\ Cardinality(B \ {t}) = UsersMax - 1
  <2> HIDE DEF B
  <2> QED BY <1>2, <1>3, FS_RemoveElement
<1>5. f \in [1..q.last -> B \ {t}]
  <2>1. \A i \in 1..q.last : q.tab[i].TaskId \in Members(q)
    BY DEF Members, Slots
  <2> HIDE DEF B
  <2> QED BY <1>2, <2>1
<1>6. SUFFICES ASSUME UsersMax - 1 < q.last PROVE FALSE
  BY <1>1
<1>7. IsFiniteSet(1..q.last) /\ Cardinality(1..q.last) = q.last
  <2>1. 1 \in Int /\ q.last \in Int /\ ~(1 > q.last) /\ q.last - 1 + 1 = q.last
    BY <1>1, <1>6, <1>2
  <2>2. IsFiniteSet(1..q.last) /\ Cardinality(1..q.last) = q.last - 1 + 1
    BY <2>1, FS_Interval, Zenon
  <2> QED BY <2>1, <2>2
<1>8. \E x, y \in 1..q.last : x # y /\ f[x] = f[y]
  <2> DEFINE S == 1..q.last
             R == B \ {t}
  <2>1. Cardinality(R) < Cardinality(S)
    BY <1>4, <1>6, <1>7
  <2> HIDE DEF B, f, S, R
  <2>2. IsFiniteSet(S) /\ IsFiniteSet(R) /\ f \in [S -> R]
    BY <1>4, <1>5, <1>7 DEF S, R
  <2>3. \E x, y \in S : x # y /\ f[x] = f[y]
    BY <2>1, <2>2, FS_PigeonHole
  <2> QED BY <2>3 DEF S
<1>9. \A x, y \in 1..q.last : f[x] = f[y] => x = y
  BY DEF GoodQueue, GoodTable
<1> QED BY <1>8, <1>9

\* The entries of the tasks S.
Entries(S) == {Entry(t, prop[t].deadline) : t \in S}

LEMMA EntriesOf ==
    ASSUME NEW q, GoodQueue(q), NEW S, Held(q) = Entries(S)
    PROVE  Members(q) = S
<1>1. Members(q) = {e.TaskId : e \in Held(q)}
  BY QueueEntries
<1>2. \A t : Entry(t, prop[t].deadline).TaskId = t
  BY DEF Entry
<1>3. \A e \in Entries(S) : e.TaskId \in S
  BY <1>2 DEF Entries
<1>4. \A t \in S : \E e \in Entries(S) : e.TaskId = t
  BY <1>2 DEF Entries
<1>5. Members(q) = {e.TaskId : e \in Entries(S)}
  BY <1>1
<1> QED BY <1>3, <1>4, <1>5

LEMMA PlacedInQueue ==
    ASSUME TasksOK, NEW q, GoodQueue(q), NEW S \in SUBSET Users,
           Held(q) = Entries(S), NEW t \in Users \ S
    PROVE  LET r == InsertInQueue(q, t, prop[t].deadline)
           IN  /\ GoodQueue(r)
               /\ Held(r) = Entries(S \cup {t})
               /\ Members(r) \subseteq Users
<1> DEFINE r == InsertInQueue(q, t, prop[t].deadline)
<1>1. Members(q) = S
  BY EntriesOf
<1>2. q.last < QueueSize - 1
  BY <1>1, RoomForUser
<1>3. t \in Nat /\ t \notin Members(q) /\ prop[t].deadline \in 0..(U32 - 1)
  <2>1. prop[t].deadline \in 1..prop[t].period /\ prop[t].period \in 1..(U32 - 1)
    BY TaskNumbers
  <2> QED BY <1>1, <2>1, UsersAreFinite, HeapAssumption
<1>4. GoodQueue(r) /\ Held(r) = Held(q) \cup {Entry(t, prop[t].deadline)}
  <2> DEFINE d == prop[t].deadline
  <2> HIDE DEF d
  <2>1. d \in 0..(U32 - 1)
    BY <1>3 DEF d
  <2>2. /\ GoodQueue(InsertInQueue(q, t, d))
        /\ Held(InsertInQueue(q, t, d)) = Held(q) \cup {Entry(t, d)}
    BY <1>2, <1>3, <2>1, InsertAddsEntry
  <2> QED BY <2>2 DEF d
<1>5. Held(r) = Entries(S \cup {t})
  BY <1>4 DEF Entries
<1>6. Members(r) = S \cup {t}
  BY <1>4, <1>5, EntriesOf
<1> QED BY <1>4, <1>5, <1>6

-----------------------------------------------------------------------------
(* THE INITIAL STATE.                                                      *)

LEMMA InitIInv == Init => IInv
<1> SUFFICES ASSUME Init PROVE IInv
  OBVIOUS
<1>1. TasksOK
  <2>1. (CHOOSE p \in Properties : TRUE) \in Properties
    BY PartitionAssumption
  <2> QED BY <2>1 DEF Init, TasksOK
<1>2. Elements(TasksToPartitioned) = {} /\ \A c \in CPUs : allocation[c] = {}
  BY DEF Init, Elements
<1>3. TaskInv
  BY <1>1, <1>2 DEF Init, TaskInv
<1>4. PlaceInv
  BY <1>2 DEF Init, PlaceInv, Once
<1>5. PhaseInv
  BY <1>2 DEF Init, PhaseInv
<1>6. ListInv
  <2>1. NbProcessors \in Nat /\ \A j \in 1..NbProcessors : j - 1 \in CPUs
    BY PartitionAssumption DEF CPUs
  <2> DEFINE l == [j \in 1..NbProcessors |-> [processorid |-> j - 1, total_capacity |-> 0]]
  <2>2. ProcessorCapacityList = l
    BY DEF Init
  <2>3. l \in Seq(Processor) /\ Len(l) = NbProcessors
    BY <2>1 DEF Processor
  <2>4. Sorted(l, ByLoad)
    <3>1. \A j \in 1..NbProcessors : l[j] \in Processor /\ ByLoad[l[j]] = 0
      BY <2>1 DEF Processor, ByLoad
    <3>2. \A a, b \in 1..NbProcessors : a < b => l[a] # l[b]
      <4>1. \A a \in 1..NbProcessors : l[a].processorid = a - 1
        OBVIOUS
      <4>2. \A a, b \in 1..NbProcessors : a < b => a - 1 # b - 1
        BY <2>1
      <4> QED BY <4>1, <4>2
    <3> HIDE DEF l
    <3> QED BY <2>3, <3>1, <3>2 DEF Sorted
  <2>5. \A j \in 1..NbProcessors : l[j].processorid = j - 1 /\ l[j].total_capacity = 0
    OBVIOUS
  <2>6. \A c \in CPUs : c + 1 \in 1..NbProcessors /\ c + 1 - 1 = c
    BY <2>1 DEF CPUs
  <2>7. Utilization({}) = 0
    BY <1>1, Loads
  <2> HIDE DEF l
  <2>8. \A a, b \in 1..NbProcessors : l[a].processorid = l[b].processorid => a = b
    BY <2>1, <2>5
  <2>9. \A c \in CPUs : \E j \in 1..NbProcessors : l[j].processorid = c
    <3> TAKE c \in CPUs
    <3>1. PICK j \in 1..NbProcessors : j = c + 1
      BY <2>6
    <3>2. j - 1 = c
      BY <3>1, <2>1 DEF CPUs
    <3>3. l[j].processorid = j - 1
      BY <2>5
    <3> QED BY <3>2, <3>3
  <2>10. \A j \in 1..NbProcessors : l[j].total_capacity = Utilization(allocation[l[j].processorid])
    BY <1>2, <2>1, <2>5, <2>7
  <2> QED BY <2>2, <2>3, <2>4, <2>8, <2>9, <2>10 DEF ListInv
<1>7. QueuesInv
  <2>1. GoodQueue(QueuesInit) /\ Held(QueuesInit) = {}
    BY InitIsGood
  <2>2. Members(QueuesInit) = {}
    BY DEF Members, Slots, QueuesInit
  <2> QED BY <1>2, <2>1, <2>2 DEF Init, QueuesInv, GoodQueue
<1>8. DeadlineInv
  <2> SUFFICES ASSUME NEW c \in CPUs, NEW x \in Nat \ {0} PROVE InTime(allocation[c], x)
    BY DEF DeadlineInv
  <2> DEFINE f == [t \in Users |-> JobsDue(t, x)]
  <2>1. \A t \in Users : f[t] \in Int
    BY <1>1, JobsFitDemand
  <2>2. SumFunctionOnSet(f, {}) = 0
    <3> HIDE DEF f
    <3> QED BY <2>1, UsersAreFinite, SumStep
  <2> QED BY <1>2, <2>2 DEF InTime
<1> QED BY <1>3, <1>4, <1>5, <1>6, <1>7, <1>8 DEF IInv

-----------------------------------------------------------------------------
(* THE STEPS.                                                              *)

LEMMA Numbers ==
    TasksOK => \A t \in Users : Capacity(t) \in Nat /\ \A x \in Nat : JobsDue(t, x) \in Nat
  BY TaskNumbers, JobsFitDemand

LEMMA NumbersAfter ==
    TasksOK' => (\A t \in Users : Capacity(t) \in Nat /\ \A x \in Nat : JobsDue(t, x) \in Nat)'
  BY Numbers, PTL

\* One more element at the end.
LEMMA ElementsAppend ==
    ASSUME NEW E, NEW s \in Seq(E), NEW e \in E
    PROVE  /\ Elements(Append(s, e)) = Elements(s) \cup {e}
           /\ Once(s) /\ e \notin Elements(s) => Once(Append(s, e))
<1> DEFINE r == Append(s, e)
           n == Len(s)
<1>1. /\ n \in Nat /\ r \in Seq(E) /\ Len(r) = n + 1
      /\ \A j \in 1..n : r[j] = s[j]
      /\ r[n + 1] = e
  BY Positions, AppendProperties
<1> HIDE DEF r
<1>2. 1..Len(r) = (1..n) \cup {n + 1}
  BY <1>1
<1>3. Elements(r) = Elements(s) \cup {e}
  BY <1>1, <1>2 DEF Elements
<1>4. ASSUME Once(s), e \notin Elements(s)
      PROVE  Once(r)
  <2>1. \A j \in 1..n : s[j] # e
    BY <1>4 DEF Elements
  <2> QED BY <1>1, <1>2, <1>4, <2>1 DEF Once
<1> QED BY <1>3, <1>4 DEF r

(* The first element goes.                                                 *)
LEMMA ElementsTail ==
    ASSUME NEW E, NEW s \in Seq(E), s # <<>>, Once(s)
    PROVE  /\ Head(s) \in Elements(s) /\ Head(s) = s[1]
           /\ Tail(s) \in Seq(E)
           /\ Len(Tail(s)) = Len(s) - 1
           /\ Len(s) # 0
           /\ Elements(Tail(s)) = Elements(s) \ {Head(s)}
           /\ Once(Tail(s))
<1> DEFINE r == Tail(s)
           n == Len(s)
<1>1. n \in Nat /\ n # 0 /\ Head(s) = s[1]
  BY Positions, EmptySeq
<1>2. /\ r \in Seq(E) /\ Len(r) = n - 1 /\ \A j \in 1..(n - 1) : r[j] = s[j + 1]
  BY HeadTailProperties
<1> HIDE DEF r
<1>3. \A j \in 1..(n - 1) : j + 1 \in 1..n /\ j + 1 # 1
  BY <1>1
<1>4. \A j \in 1..n : j = 1 \/ (j - 1 \in 1..(n - 1) /\ (j - 1) + 1 = j)
  BY <1>1
<1>5. s[1] \in Elements(s) /\ 1 \in 1..n
  BY <1>1 DEF Elements
<1>6. \A j \in 1..n : j # 1 => s[j] # s[1]
  BY <1>5 DEF Once
<1>7. Elements(r) = Elements(s) \ {s[1]}
  <2>1. ASSUME NEW x \in Elements(r)
        PROVE  x \in Elements(s) \ {s[1]}
    <3>1. PICK j \in 1..(n - 1) : x = r[j]
      BY <1>2 DEF Elements
    <3>2. x = s[j + 1]
      BY <1>2, <3>1
    <3> QED BY <1>3, <1>6, <3>2 DEF Elements
  <2>2. ASSUME NEW x \in Elements(s), x # s[1]
        PROVE  x \in Elements(r)
    <3>1. PICK j \in 1..n : x = s[j]
      BY DEF Elements
    <3>2. PICK k \in 1..(n - 1) : k + 1 = j
      BY <1>4, <2>2, <3>1
    <3>3. x = r[k]
      BY <1>2, <3>1, <3>2
    <3> QED BY <1>2, <3>3 DEF Elements
  <2> QED BY <2>1, <2>2
<1>8. Once(r)
  <2> SUFFICES ASSUME NEW a \in 1..Len(r), NEW b \in 1..Len(r), r[a] = r[b]
               PROVE  a = b
    BY DEF Once
  <2>1. s[a + 1] = s[b + 1] /\ a + 1 \in 1..n /\ b + 1 \in 1..n
    BY <1>2, <1>3
  <2>2. a + 1 = b + 1
    BY <2>1 DEF Once
  <2> QED BY <1>1, <1>2, <2>2
<1> QED BY <1>1, <1>2, <1>5, <1>7, <1>8 DEF r

LEMMA CreateTaskIInv ==
    ASSUME IInv, NEW t \in Users, NEW p \in Properties, CreateTask(t, p)
    PROVE  IInv'
<1>1. /\ State' = [State EXCEPT ![t] = "READY"] /\ State[t] = "SLEEPING"
      /\ prop' = [prop EXCEPT ![t] = p]
      /\ TasksToPartitioned' = Append(TasksToPartitioned, t)
      /\ ProcessorCapacityList' = ProcessorCapacityList /\ allocation' = allocation
      /\ RdyQueue' = RdyQueue /\ found' = found /\ phase' = phase
      /\ RunningTask' = RunningTask
      /\ phase \in {"create", "running"}
  BY DEF CreateTask, result
<1>2. /\ TasksOK
      /\ State \in [Users -> {"SLEEPING", "READY", "EXECUTING"}]
      /\ TasksToPartitioned \in Seq(Users)
      /\ allocation \in [CPUs -> SUBSET Users]
      /\ \A u \in Elements(TasksToPartitioned) : State[u] # "SLEEPING"
      /\ \A c \in CPUs : \A u \in allocation[c] : State[u] # "SLEEPING"
      /\ \A c, d \in CPUs : c # d => allocation[c] \cap allocation[d] = {}
  BY DEF IInv, TaskInv
<1>3. t \notin Elements(TasksToPartitioned) /\ \A c \in CPUs : t \notin allocation[c]
  BY <1>1, <1>2
<1>4. TasksOK'
  BY <1>1, <1>2 DEF TasksOK
<1>5. /\ TasksToPartitioned' \in Seq(Users)
      /\ Elements(TasksToPartitioned') = Elements(TasksToPartitioned) \cup {t}
      /\ Once(TasksToPartitioned) => Once(TasksToPartitioned')
  BY <1>1, <1>2, <1>3, ElementsAppend
<1>6. \A u \in Users : u # t => prop'[u] = prop[u] /\ State'[u] = State[u]
  BY <1>1, <1>2 DEF TasksOK
<1>7. State'[t] = "READY"
  BY <1>1, <1>2
<1>8. TaskInv'
  <2>1. State' \in [Users -> {"SLEEPING", "READY", "EXECUTING"}]
    BY <1>1, <1>2
  <2>2. \A u \in Elements(TasksToPartitioned') : State'[u] # "SLEEPING"
    <3>1. Elements(TasksToPartitioned) \subseteq Users
      BY <1>2, Positions DEF Elements
    <3> QED BY <1>2, <1>5, <1>6, <1>7, <3>1
  <2>3. \A c \in CPUs : \A u \in allocation[c] : State'[u] # "SLEEPING"
    BY <1>2, <1>6, <1>7
  <2> QED BY <1>1, <1>2, <1>4, <1>5, <2>1, <2>2, <2>3 DEF TaskInv
<1>9. PlaceInv'
  <2> SUFFICES ASSUME phase # "running" PROVE PlaceInv'
    BY <1>1 DEF PlaceInv
  <2>1. /\ Once(TasksToPartitioned)
        /\ \A c \in CPUs : allocation[c] \cap Elements(TasksToPartitioned) = {}
        /\ \A u \in Users : State[u] # "SLEEPING" =>
              u \in Elements(TasksToPartitioned) \/ \E c \in CPUs : u \in allocation[c]
        /\ \A u \in Users : State[u] # "EXECUTING"
    BY DEF IInv, PlaceInv
  <2>2. \A c \in CPUs : allocation[c] \cap Elements(TasksToPartitioned') = {}
    BY <1>3, <1>5, <2>1
  <2>3. \A u \in Users : State'[u] # "SLEEPING" =>
           u \in Elements(TasksToPartitioned') \/ \E c \in CPUs : u \in allocation[c]
    BY <1>5, <1>6, <2>1
  <2>4. \A u \in Users : State'[u] # "EXECUTING"
    BY <1>6, <1>7, <2>1
  <2> QED BY <1>1, <1>5, <2>1, <2>2, <2>3, <2>4 DEF PlaceInv
<1>10. PhaseInv'
  BY <1>1 DEF IInv, PhaseInv
<1>11. ListInv'
  <2> SUFFICES ASSUME phase = "create" PROVE ListInv'
    BY <1>1 DEF ListInv
  <2>1. \A c \in CPUs : allocation[c] = {}
    BY DEF IInv, PhaseInv
  <2>2. /\ ProcessorCapacityList \in Seq(Processor)
        /\ Len(ProcessorCapacityList) = NbProcessors
        /\ Sorted(ProcessorCapacityList, ByLoad)
        /\ \A a, b \in 1..NbProcessors :
              ProcessorCapacityList[a].processorid = ProcessorCapacityList[b].processorid
                 => a = b
        /\ \A c \in CPUs : \E j \in 1..NbProcessors : ProcessorCapacityList[j].processorid = c
        /\ \A j \in 1..NbProcessors :
              ProcessorCapacityList[j].total_capacity
                 = Utilization(allocation[ProcessorCapacityList[j].processorid])
    BY DEF IInv, ListInv
  <2>3. \A j \in 1..NbProcessors :
           /\ ProcessorCapacityList[j].processorid \in CPUs
           /\ ProcessorCapacityList[j].total_capacity = 0
    <3> TAKE j \in 1..NbProcessors
    <3>1. ProcessorCapacityList[j] \in Processor
      BY <2>2, Positions
    <3>2. ProcessorCapacityList[j].processorid \in CPUs
      BY <3>1 DEF Processor
    <3>3. Utilization({}) = 0
      BY <1>2, Loads
    <3> QED BY <2>1, <2>2, <3>2, <3>3
  <2> DEFINE f == [u \in Users |-> Capacity(u)']
  <2>4. SumFunctionOnSet(f, {}) = 0
    <3>1. \A u \in Users : f[u] \in Int
      BY <1>4, NumbersAfter
    <3> HIDE DEF f
    <3> QED BY <3>1, UsersAreFinite, SumStep
  <2>5. \A j \in 1..NbProcessors :
           ProcessorCapacityList[j].total_capacity
              = SumFunctionOnSet(f, allocation[ProcessorCapacityList[j].processorid])
    <3> HIDE DEF f
    <3> QED BY <2>1, <2>3, <2>4
  <2> QED BY <1>1, <2>2, <2>5 DEF ListInv, Utilization
<1>12. QueuesInv'
  <2>1. ASSUME NEW c \in CPUs
        PROVE  {Entry(u, prop[u].deadline) : u \in allocation[c]}
                  = {Entry(u, prop'[u].deadline) : u \in allocation[c]}
    <3>1. \A u \in allocation[c] : prop'[u] = prop[u]
      BY <1>2, <1>3, <1>6
    <3> QED BY <3>1
  <2> QED BY <1>1, <2>1 DEF IInv, QueuesInv
<1>13. DeadlineInv'
  <2> SUFFICES ASSUME NEW c \in CPUs, NEW x \in Nat \ {0}
               PROVE  SumFunctionOnSet([u \in Users |-> JobsDue(u, x)'], allocation[c]) <= x
    BY <1>1 DEF DeadlineInv, InTime
  <2> DEFINE f == [u \in Users |-> JobsDue(u, x)]
             g == [u \in Users |-> JobsDue(u, x)']
  <2>1. \A u \in Users : f[u] \in Int /\ g[u] \in Int
    <3>1. x \in Nat
      OBVIOUS
    <3>2. \A u \in Users : JobsDue(u, x) \in Nat
      BY <1>2, <3>1, Numbers
    <3>3. \A u \in Users : JobsDue(u, x)' \in Nat
      BY <1>4, <3>1, NumbersAfter
    <3> QED BY <3>2, <3>3
  <2>2. \A u \in allocation[c] : f[u] = g[u]
    <3> TAKE u \in allocation[c]
    <3>1. u \in Users /\ prop'[u] = prop[u]
      BY <1>2, <1>3, <1>6
    <3> QED BY <3>1 DEF JobsDue
  <2>3. allocation[c] \in SUBSET Users
    BY <1>2
  <2>4. SumFunctionOnSet(f, allocation[c]) = SumFunctionOnSet(g, allocation[c])
    <3> HIDE DEF f, g
    <3> QED BY <2>1, <2>2, <2>3, UsersAreFinite, SumCongruent
  <2>5. SumFunctionOnSet(f, allocation[c]) <= x
    BY DEF IInv, DeadlineInv, InTime
  <2> QED BY <2>4, <2>5
<1> QED BY <1>8, <1>9, <1>10, <1>11, <1>12, <1>13 DEF IInv

LEMMA SortedOnce ==
    ASSUME NEW E, NEW s \in Seq(E), NEW rank, Sorted(s, rank)
    PROVE  Once(s)
<1> SUFFICES ASSUME NEW a \in 1..Len(s), NEW b \in 1..Len(s), s[a] = s[b], a # b
             PROVE  FALSE
  BY DEF Once
<1>1. Len(s) \in Nat
  BY Positions
<1>2. a < b \/ b < a
  BY <1>1
<1> QED BY <1>2 DEF Sorted

(* Steps that leave what is placed as it is.                               *)
LEMMA PlacedUnchanged ==
    ASSUME IInv, UNCHANGED <<prop, allocation>>
    PROVE  /\ TasksOK' /\ ByCapacity' = ByCapacity
           /\ DeadlineInv'
           /\ UNCHANGED <<RdyQueue, phase>> => QueuesInv'
           /\ UNCHANGED RdyQueue /\ phase # "running" => QueuesInv'
           /\ UNCHANGED ProcessorCapacityList /\ phase # "running" => ListInv'
<1>1. prop' = prop /\ allocation' = allocation
  OBVIOUS
<1>2. TasksOK' /\ ByCapacity' = ByCapacity
  BY <1>1 DEF TasksOK, ByCapacity, Capacity, IInv, TaskInv
<1>3. DeadlineInv'
  BY <1>1 DEF IInv, DeadlineInv, InTime, JobsDue
<1>4. UNCHANGED <<RdyQueue, phase>> => QueuesInv'
  BY <1>1 DEF IInv, QueuesInv
<1>5. UNCHANGED RdyQueue /\ phase # "running" => QueuesInv'
  BY <1>1 DEF IInv, QueuesInv
<1>6. UNCHANGED ProcessorCapacityList /\ phase # "running" => ListInv'
  BY <1>1 DEF IInv, ListInv, Utilization, Capacity
<1> QED BY <1>2, <1>3, <1>4, <1>5, <1>6

LEMMA BeginPartitionIInv ==
    ASSUME IInv, BeginPartition
    PROVE  IInv'
<1>1. /\ phase = "create" /\ phase' = IF TasksToPartitioned = <<>> THEN "partitioned" ELSE "placing"
      /\ TasksToPartitioned' = SortTasksToPartitioned(TasksToPartitioned)
      /\ State' = State /\ prop' = prop /\ allocation' = allocation /\ RdyQueue' = RdyQueue
      /\ ProcessorCapacityList' = ProcessorCapacityList
      /\ found' = found /\ RunningTask' = RunningTask
  BY DEF BeginPartition, tcb, result
<1>2. /\ TasksOK /\ TasksToPartitioned \in Seq(Users) /\ Once(TasksToPartitioned)
      /\ found = FALSE
  BY <1>1 DEF IInv, TaskInv, PlaceInv, PhaseInv
<1>3. SortedCopy(TasksToPartitioned', TasksToPartitioned, Users, ByCapacity)
  BY <1>1, <1>2, TasksSorted
<1>4. /\ TasksToPartitioned' \in Seq(Users)
      /\ Sorted(TasksToPartitioned', ByCapacity)
      /\ Once(TasksToPartitioned')
      /\ Elements(TasksToPartitioned') = Elements(TasksToPartitioned)
  BY <1>3, SortedOnce DEF SortedCopy
<1>5. phase' = "placing" => TasksToPartitioned' # <<>>
  <2>1. TasksToPartitioned # <<>> => Len(TasksToPartitioned) # 0
    BY <1>2, EmptySeq
  <2>2. Len(TasksToPartitioned') = Len(TasksToPartitioned) /\ Len(<<>>) = 0
    BY <1>3, EmptySeq DEF SortedCopy
  <2> QED BY <1>1, <2>1, <2>2
<1>6. TasksOK' /\ ByCapacity' = ByCapacity /\ DeadlineInv' /\ QueuesInv' /\ ListInv'
  BY <1>1, PlacedUnchanged
<1>7. TaskInv'
  BY <1>1, <1>4, <1>6 DEF IInv, TaskInv
<1>8. PlaceInv'
  <2>1. /\ \A c \in CPUs : allocation[c] \cap Elements(TasksToPartitioned) = {}
        /\ \A u \in Users : State[u] # "SLEEPING" =>
              u \in Elements(TasksToPartitioned) \/ \E c \in CPUs : u \in allocation[c]
        /\ \A u \in Users : State[u] # "EXECUTING"
    BY <1>1 DEF IInv, PlaceInv
  <2> QED BY <1>1, <1>4, <2>1 DEF PlaceInv
<1>9. PhaseInv'
  <2>1. phase' \in {"placing", "partitioned"}
    BY <1>1
  <2>2. RunningTask' \in Users \cup {0, Idle}
    BY <1>1 DEF IInv, PhaseInv
  <2>3. Sorted(TasksToPartitioned', ByCapacity')
    BY <1>4, <1>6
  <2> QED BY <1>1, <1>2, <1>5, <2>1, <2>2, <2>3 DEF PhaseInv
<1> QED BY <1>6, <1>7, <1>8, <1>9 DEF IInv

LEMMA GiveUpIInv ==
    ASSUME IInv, GiveUp
    PROVE  IInv'
<1>1. /\ phase = "placing" /\ phase' = "partitioned" /\ found' = FALSE
      /\ TasksToPartitioned' = TasksToPartitioned
      /\ State' = State /\ prop' = prop /\ allocation' = allocation /\ RdyQueue' = RdyQueue
      /\ ProcessorCapacityList' = ProcessorCapacityList
      /\ RunningTask' = RunningTask
  BY DEF GiveUp, tcb, result
<1>2. TasksOK' /\ DeadlineInv' /\ QueuesInv' /\ ListInv'
  BY <1>1, PlacedUnchanged
<1>3. TaskInv'
  BY <1>1, <1>2 DEF IInv, TaskInv
<1>4. PlaceInv'
  BY <1>1 DEF IInv, PlaceInv
<1>5. PhaseInv'
  BY <1>1 DEF IInv, PhaseInv
<1> QED BY <1>2, <1>3, <1>4, <1>5 DEF IInv

LEMMA FirstLeavesQueue ==
    ASSUME NEW q, GoodQueue(q), Members(q) \subseteq Users
    PROVE  /\ GoodQueue(RemoveFirstElementInQueue(q))
           /\ Members(RemoveFirstElementInQueue(q)) \subseteq Users
           /\ GetTaskWithNearestDeadline(q, Idle) \in Users \cup {Idle}
<1>1. CASE q.last = 0
  BY <1>1 DEF RemoveFirstElementInQueue, GetTaskWithNearestDeadline
<1>2. CASE q.last # 0
  <2> DEFINE r == RemoveFirstElementInQueue(q)
  <2>1. /\ GoodQueue(r) /\ Held(r) \subseteq Held(q) /\ q.tab[1] \in Held(q)
    BY <1>2, RemoveFirstTakesRoot
  <2> HIDE DEF r
  <2>2. /\ Members(q) = {e.TaskId : e \in Held(q)}
        /\ Members(r) = {e.TaskId : e \in Held(r)}
    BY <2>1, QueueEntries
  <2>3. Members(r) \subseteq Members(q) /\ q.tab[1].TaskId \in Members(q)
    BY <2>1, <2>2
  <2>4. GetTaskWithNearestDeadline(q, Idle) = q.tab[1].TaskId
    BY <1>2 DEF GetTaskWithNearestDeadline
  <2> QED BY <2>1, <2>3, <2>4 DEF r
<1> QED BY <1>1, <1>2

LEMMA StartIInv ==
    ASSUME IInv, Start
    PROVE  IInv'
<1> DEFINE q == RdyQueue[CpuId]
           hgh == GetTaskWithNearestDeadline(q, Idle)
<1>1. /\ phase = "partitioned" /\ phase' = "running" /\ found' = found
      /\ RunningTask' = hgh
      /\ State' = [t \in Users |-> IF t = hgh THEN "EXECUTING" ELSE State[t]]
      /\ RdyQueue' = [RdyQueue EXCEPT ![CpuId] = RemoveFirstElementInQueue(@)]
      /\ prop' = prop /\ allocation' = allocation
      /\ TasksToPartitioned' = TasksToPartitioned
  BY DEF Start
<1>2. /\ RdyQueue \in [CPUs -> QueueType]
      /\ \A c \in CPUs : GoodQueue(RdyQueue[c]) /\ Members(RdyQueue[c]) \subseteq Users
      /\ CpuId \in CPUs
  BY PartitionAssumption DEF IInv, QueuesInv, CPUs
<1>3. /\ GoodQueue(RemoveFirstElementInQueue(q))
      /\ Members(RemoveFirstElementInQueue(q)) \subseteq Users
      /\ hgh \in Users \cup {Idle}
  BY <1>2, FirstLeavesQueue
<1> HIDE DEF hgh
<1>4. TasksOK' /\ DeadlineInv'
  BY <1>1, PlacedUnchanged
<1>5. TaskInv'
  <2>1. /\ State \in [Users -> {"SLEEPING", "READY", "EXECUTING"}]
        /\ TasksToPartitioned \in Seq(Users)
        /\ allocation \in [CPUs -> SUBSET Users]
        /\ \A t \in Elements(TasksToPartitioned) : State[t] # "SLEEPING"
        /\ \A c \in CPUs : \A t \in allocation[c] : State[t] # "SLEEPING"
        /\ \A c, d \in CPUs : c # d => allocation[c] \cap allocation[d] = {}
    BY DEF IInv, TaskInv
  <2>2. State' \in [Users -> {"SLEEPING", "READY", "EXECUTING"}]
    BY <1>1, <2>1
  <2>3. \A t \in Users : State[t] # "SLEEPING" => State'[t] # "SLEEPING"
    BY <1>1
  <2>4. Elements(TasksToPartitioned) \subseteq Users
    BY <2>1, Positions DEF Elements
  <2> QED BY <1>1, <1>4, <2>1, <2>2, <2>3, <2>4 DEF TaskInv
<1>6. PlaceInv' /\ ListInv'
  BY <1>1 DEF PlaceInv, ListInv
<1>7. PhaseInv'
  BY <1>1, <1>3 DEF IInv, PhaseInv
<1>8. QueuesInv'
  <2>1. \A c \in CPUs : RdyQueue'[c] = IF c = CpuId THEN RemoveFirstElementInQueue(q) ELSE RdyQueue[c]
    BY <1>1, <1>2
  <2>2. \A c \in CPUs : GoodQueue(RdyQueue'[c]) /\ Members(RdyQueue'[c]) \subseteq Users
    BY <1>2, <1>3, <2>1
  <2>3. RdyQueue' \in [CPUs -> QueueType]
    BY <1>1, <1>2, <1>3 DEF GoodQueue
  <2> QED BY <1>1, <2>2, <2>3 DEF QueuesInv
<1> QED BY <1>4, <1>5, <1>6, <1>7, <1>8 DEF IInv

\* The task t goes to the CPU c, the first in the list that can take it.
Placing(t, j, c) ==
    /\ t \in Users /\ t = Head(TasksToPartitioned)
    /\ j \in 1..NbProcessors /\ c \in CPUs
    /\ ProcessorCapacityList[j].processorid = c
    /\ IsEdfSchedulingFeasible(allocation[c] \cup {t})
    /\ \A k \in 1..NbProcessors :
          k < j => ~IsEdfSchedulingFeasible(
                       allocation[ProcessorCapacityList[k].processorid] \cup {t})
    /\ allocation' = [allocation EXCEPT ![c] = @ \cup {t}]
    /\ RdyQueue' = [RdyQueue EXCEPT ![c] = InsertInQueue(@, t, prop[t].deadline)]
    /\ ProcessorCapacityList' = SortProcessors(
          [ProcessorCapacityList EXCEPT ![j].total_capacity = @ + Capacity(t)])

\* What ListInv says of the list, once in a place to be named.
GoodList ==
    /\ ProcessorCapacityList \in Seq(Processor)
    /\ Len(ProcessorCapacityList) = NbProcessors
    /\ Sorted(ProcessorCapacityList, ByLoad)
    /\ \A a, b \in 1..NbProcessors :
          ProcessorCapacityList[a].processorid = ProcessorCapacityList[b].processorid
             => a = b
    /\ \A c \in CPUs : \E j \in 1..NbProcessors : ProcessorCapacityList[j].processorid = c
    /\ \A j \in 1..NbProcessors :
          /\ ProcessorCapacityList[j] \in Processor
          /\ ProcessorCapacityList[j].processorid \in CPUs
          /\ ProcessorCapacityList[j].total_capacity
                = Utilization(allocation[ProcessorCapacityList[j].processorid])

LEMMA ListIsGood ==
    ASSUME IInv, phase # "running"
    PROVE  GoodList /\ DOMAIN ProcessorCapacityList = 1..NbProcessors
<1>1. /\ ProcessorCapacityList \in Seq(Processor)
      /\ Len(ProcessorCapacityList) = NbProcessors
  BY DEF IInv, ListInv
<1>2. \A j \in 1..NbProcessors : ProcessorCapacityList[j] \in Processor
  BY <1>1, Positions
<1>3. \A j \in 1..NbProcessors : ProcessorCapacityList[j].processorid \in CPUs
  BY <1>2 DEF Processor
<1>4. DOMAIN ProcessorCapacityList = 1..NbProcessors
  BY <1>1, Positions
<1> QED BY <1>1, <1>2, <1>3, <1>4 DEF IInv, ListInv, GoodList

LEMMA PlaceTaskPlaces ==
    ASSUME IInv, PlaceTask
    PROVE  \E t, j, c : Placing(t, j, c)
<1> DEFINE t == Head(TasksToPartitioned)
           j == Min(Fits(t))
           c == ProcessorCapacityList[j].processorid
<1>1. /\ Fits(t) # {}
      /\ allocation' = [allocation EXCEPT ![c] = @ \cup {t}]
      /\ RdyQueue' = [RdyQueue EXCEPT ![c] = InsertInQueue(@, t, prop[t].deadline)]
      /\ ProcessorCapacityList' = SortProcessors(
            [ProcessorCapacityList EXCEPT ![j].total_capacity = @ + Capacity(t)])
      /\ phase = "placing"
  BY DEF PlaceTask
<1>2. TasksToPartitioned \in Seq(Users) /\ TasksToPartitioned # <<>>
  BY <1>1 DEF IInv, TaskInv, PhaseInv
<1>3. t \in Users
  BY <1>2, HeadTailProperties
<1>4. Fits(t) \subseteq 1..NbProcessors /\ 1..NbProcessors \subseteq Nat
  BY PartitionAssumption DEF Fits
<1>5. j \in Fits(t) /\ \A k \in Fits(t) : j <= k
  <2>1. Fits(t) \subseteq Nat
    BY <1>4
  <2> QED BY <1>1, <2>1, LeastIsMin
<1>6. j \in 1..NbProcessors /\ IsEdfSchedulingFeasible(allocation[c] \cup {t})
  BY <1>5 DEF Fits
<1>7. ASSUME NEW k \in 1..NbProcessors, k < j
      PROVE  ~IsEdfSchedulingFeasible(allocation[ProcessorCapacityList[k].processorid] \cup {t})
  <2>1. k \in Int /\ j \in Int
    BY <1>4, <1>6
  <2>2. k \notin Fits(t)
    BY <1>5, <1>7, <2>1
  <2> HIDE DEF t, j
  <2> QED BY <2>2 DEF Fits
<1>8. c \in CPUs
  <2> HIDE DEF j
  <2> QED BY <1>1, <1>6, ListIsGood DEF GoodList
<1>9. Placing(t, j, c)
  <2> HIDE DEF j
  <2> QED BY <1>1, <1>3, <1>6, <1>7, <1>8 DEF Placing
<1> HIDE DEF t, j, c
<1> QED BY <1>9

LEMMA PlacingInList ==
    ASSUME IInv, phase = "placing", prop' = prop, NEW t, NEW j, NEW c, Placing(t, j, c),
           t \notin allocation[c]
    PROVE  ListInv'
<1> DEFINE old == ProcessorCapacityList
           l == [old EXCEPT ![j].total_capacity = @ + Capacity(t)]
           new == ProcessorCapacityList'
           N == NbProcessors
<1>1. /\ old \in Seq(Processor) /\ Len(old) = N /\ DOMAIN old = 1..N
      /\ \A a, b \in 1..N : old[a].processorid = old[b].processorid => a = b
      /\ \A d \in CPUs : \E k \in 1..N : old[k].processorid = d
      /\ \A k \in 1..N : /\ old[k] \in Processor /\ old[k].processorid \in CPUs
                         /\ old[k].total_capacity = Utilization(allocation[old[k].processorid])
  BY ListIsGood DEF GoodList
<1>2. /\ t \in Users /\ j \in 1..N /\ c \in CPUs /\ old[j].processorid = c
      /\ allocation' = [allocation EXCEPT ![c] = @ \cup {t}]
      /\ new = SortProcessors(l)
  BY DEF Placing
<1>3. TasksOK /\ allocation \in [CPUs -> SUBSET Users]
  BY DEF IInv, TaskInv
<1>4. Capacity(t) \in Nat
  BY <1>2, <1>3, TaskNumbers
<1> DEFINE e == [old[j] EXCEPT !.total_capacity = @ + Capacity(t)]
<1>5. /\ e \in Processor /\ e.processorid = c
      /\ e.total_capacity = old[j].total_capacity + Capacity(t)
  BY <1>1, <1>2, <1>4 DEF Processor
<1>6. l = [old EXCEPT ![j] = e]
  OBVIOUS
<1> HIDE DEF e, old
<1>7. /\ l \in Seq(Processor) /\ Len(l) = N
      /\ \A k \in 1..N : l[k] = IF k = j THEN e ELSE old[k]
  <2>1. old \in Seq(Processor) /\ j \in 1..Len(old) /\ e \in Processor
    BY <1>1, <1>2, <1>5
  <2>2. /\ [old EXCEPT ![j] = e] \in Seq(Processor)
        /\ Len([old EXCEPT ![j] = e]) = Len(old)
        /\ \A k \in 1..Len(old) : [old EXCEPT ![j] = e][k] = IF k = j THEN e ELSE old[k]
    BY <2>1, ExceptSeq
  <2> HIDE DEF l
  <2> QED BY <1>1, <1>6, <2>2
<1> HIDE DEF l
<1>8. \A k \in 1..N : l[k].processorid = old[k].processorid
  BY <1>2, <1>5, <1>7
<1>9. ASSUME NEW k \in 1..N
      PROVE  l[k].total_capacity = Utilization(allocation'[l[k].processorid])
  <2>1. CASE k = j
    <3>1. allocation'[c] = allocation[c] \cup {t} /\ allocation[c] \in SUBSET Users
      BY <1>2, <1>3
    <3>2. Utilization(allocation[c] \cup {t}) = Utilization(allocation[c]) + Capacity(t)
      BY <1>2, <1>3, <3>1, Loads
    <3>3. l[k] = e /\ old[j].total_capacity = Utilization(allocation[c])
      BY <1>1, <1>2, <1>7, <2>1
    <3> QED BY <1>5, <3>1, <3>2, <3>3
  <2>2. CASE k # j
    <3>1. l[k] = old[k] /\ old[k].processorid # c /\ old[k].processorid \in CPUs
      BY <1>1, <1>2, <1>7, <2>2
    <3>2. allocation'[old[k].processorid] = allocation[old[k].processorid]
      BY <1>2, <1>3, <3>1
    <3> QED BY <1>1, <3>1, <3>2
  <2> QED BY <2>1, <2>2
<1>10. Once(l)
  BY <1>1, <1>7, <1>8 DEF Once
<1>11. SortedCopy(new, l, Processor, ByLoad)
  BY <1>2, <1>7, <1>10, ProcessorsSorted
<1> HIDE DEF new
<1>12. /\ new \in Seq(Processor) /\ Len(new) = N /\ Sorted(new, ByLoad)
       /\ \A a \in 1..N : \E k \in 1..N : new[a] = l[k]
       /\ \A k \in 1..N : \E a \in 1..N : new[a] = l[k]
       /\ Once(new)
  <2>1. /\ new \in Seq(Processor) /\ Sorted(new, ByLoad)
        /\ Elements(new) = Elements(l) /\ Len(new) = N
    BY <1>7, <1>11 DEF SortedCopy
  <2>2. Once(new)
    BY <2>1, SortedOnce
  <2>3. \A a \in 1..N : new[a] \in Elements(l)
    BY <2>1 DEF Elements
  <2>4. \A k \in 1..N : l[k] \in Elements(new)
    BY <1>7, <2>1 DEF Elements
  <2>5. \A a \in 1..N : \E k \in 1..N : new[a] = l[k]
    BY <1>7, <2>3 DEF Elements
  <2>6. \A k \in 1..N : \E a \in 1..N : new[a] = l[k]
    BY <2>1, <2>4 DEF Elements
  <2> QED BY <2>1, <2>2, <2>5, <2>6
<1>13. \A a, b \in 1..N : new[a].processorid = new[b].processorid => a = b
  <2> SUFFICES ASSUME NEW a \in 1..N, NEW b \in 1..N, new[a].processorid = new[b].processorid
               PROVE  a = b
    OBVIOUS
  <2>1. PICK x \in 1..N : new[a] = l[x]
    BY <1>12
  <2>2. PICK y \in 1..N : new[b] = l[y]
    BY <1>12
  <2>3. x = y
    BY <1>1, <1>8, <2>1, <2>2
  <2>4. new[a] = new[b] /\ a \in 1..Len(new) /\ b \in 1..Len(new)
    BY <1>12, <2>1, <2>2, <2>3
  <2>5. \A i, k \in 1..Len(new) : new[i] = new[k] => i = k
    BY <1>12 DEF Once
  <2> QED BY <2>4, <2>5
<1>14. \A d \in CPUs : \E a \in 1..N : new[a].processorid = d
  <2> TAKE d \in CPUs
  <2>1. PICK k \in 1..N : l[k].processorid = d
    BY <1>1, <1>8
  <2> QED BY <1>12, <2>1
<1>15. \A a \in 1..N : new[a].total_capacity = Utilization(allocation'[new[a].processorid])
  <2> TAKE a \in 1..N
  <2>1. PICK k \in 1..N : new[a] = l[k]
    BY <1>12
  <2>2. l[k].total_capacity = Utilization(allocation'[l[k].processorid])
    BY <1>9
  <2> QED BY <2>1, <2>2
<1>16. \A a \in 1..N : new[a].total_capacity
                          = SumFunctionOnSet([u \in Users |-> Capacity(u)'],
                                             allocation'[new[a].processorid])
  BY <1>15 DEF Utilization, Capacity
<1> QED BY <1>12, <1>13, <1>14, <1>16 DEF ListInv, new, Utilization

(* What is left of a sorted list is sorted, and its head is the biggest.   *)
LEMMA SortedTail ==
    ASSUME NEW E, NEW s \in Seq(E), s # <<>>, NEW rank, Sorted(s, rank)
    PROVE  /\ Sorted(Tail(s), rank)
           /\ \A e \in ToSet(Tail(s)) : rank[Head(s)] <= rank[e]
<1> DEFINE r == Tail(s)
           n == Len(s)
<1>1. n \in Nat /\ n # 0 /\ Head(s) = s[1]
  BY Positions, EmptySeq
<1>2. r \in Seq(E) /\ Len(r) = n - 1 /\ \A j \in 1..(n - 1) : r[j] = s[j + 1]
  BY HeadTailProperties
<1> HIDE DEF r
<1>3. \A a, b \in 1..n : a < b => s[a] # s[b] /\ rank[s[a]] <= rank[s[b]]
  BY DEF Sorted
<1>4. Sorted(r, rank)
  <2> SUFFICES ASSUME NEW a \in 1..(n - 1), NEW b \in 1..(n - 1), a < b
               PROVE  r[a] # r[b] /\ rank[r[a]] <= rank[r[b]]
    BY <1>2 DEF Sorted
  <2>1. a + 1 \in 1..n /\ b + 1 \in 1..n /\ a + 1 < b + 1
    BY <1>1
  <2> QED BY <1>2, <1>3, <2>1
<1>5. ASSUME NEW e \in ToSet(r)
      PROVE  rank[Head(s)] <= rank[e]
  <2>1. PICK j \in 1..(n - 1) : e = r[j]
    <3>1. DOMAIN r = 1..(n - 1)
      BY <1>2, Positions
    <3> QED BY <3>1 DEF ToSet
  <2>2. 1 \in 1..n /\ j + 1 \in 1..n /\ 1 < j + 1
    BY <1>1
  <2> QED BY <1>1, <1>2, <1>3, <2>1, <2>2
<1> QED BY <1>4, <1>5 DEF r

LEMMA HeadIsBiggest ==
    ASSUME TasksOK, NEW s \in Seq(Users), s # <<>>, Sorted(s, ByCapacity)
    PROVE  \A u \in ToSet(Tail(s)) : Capacity(u) <= Capacity(Head(s))
<1> TAKE u \in ToSet(Tail(s))
<1>1. ByCapacity[Head(s)] <= ByCapacity[u]
  BY SortedTail
<1>2. Head(s) \in Users /\ u \in Users
  <2>1. Tail(s) \in Seq(Users)
    BY HeadTailProperties
  <2>2. \A j \in DOMAIN Tail(s) : Tail(s)[j] \in Users
    BY <2>1, Positions
  <2> QED BY <2>2, HeadTailProperties DEF ToSet
<1>3. Capacity(Head(s)) \in Nat /\ Capacity(u) \in Nat
  BY <1>2, TaskNumbers
<1> QED BY <1>1, <1>2, <1>3 DEF ByCapacity

LEMMA PlaceTaskIInv ==
    ASSUME IInv, PlaceTask
    PROVE  IInv'
<1>1. /\ phase = "placing"
      /\ TasksToPartitioned' = Tail(TasksToPartitioned)
      /\ found' = TRUE
      /\ phase' = IF Len(TasksToPartitioned) = 1 THEN "partitioned" ELSE "placing"
      /\ State' = State /\ prop' = prop /\ RunningTask' = RunningTask
  BY DEF PlaceTask, tcb
<1>2. PICK t, j, c : Placing(t, j, c)
  BY PlaceTaskPlaces
<1>3. /\ t \in Users /\ c \in CPUs
      /\ t = Head(TasksToPartitioned)
      /\ IsEdfSchedulingFeasible(allocation[c] \cup {t})
      /\ allocation' = [allocation EXCEPT ![c] = @ \cup {t}]
      /\ RdyQueue' = [RdyQueue EXCEPT ![c] = InsertInQueue(@, t, prop[t].deadline)]
  BY <1>2 DEF Placing
<1>4. /\ TasksOK
      /\ State \in [Users -> {"SLEEPING", "READY", "EXECUTING"}]
      /\ TasksToPartitioned \in Seq(Users)
      /\ allocation \in [CPUs -> SUBSET Users]
      /\ \A u \in Elements(TasksToPartitioned) : State[u] # "SLEEPING"
      /\ \A d \in CPUs : \A u \in allocation[d] : State[u] # "SLEEPING"
      /\ \A d, e \in CPUs : d # e => allocation[d] \cap allocation[e] = {}
  BY DEF IInv, TaskInv
<1>5. /\ Once(TasksToPartitioned)
      /\ \A d \in CPUs : allocation[d] \cap Elements(TasksToPartitioned) = {}
      /\ \A u \in Users : State[u] # "SLEEPING" =>
            u \in Elements(TasksToPartitioned) \/ \E d \in CPUs : u \in allocation[d]
      /\ \A u \in Users : State[u] # "EXECUTING"
  BY <1>1 DEF IInv, PlaceInv
<1>6. /\ TasksToPartitioned # <<>>
      /\ Sorted(TasksToPartitioned, ByCapacity)
  BY <1>1 DEF IInv, PhaseInv
<1>7. /\ t \in Elements(TasksToPartitioned)
      /\ TasksToPartitioned' \in Seq(Users)
      /\ Len(TasksToPartitioned') = Len(TasksToPartitioned) - 1
      /\ Elements(TasksToPartitioned') = Elements(TasksToPartitioned) \ {t}
      /\ Once(TasksToPartitioned')
  BY <1>1, <1>3, <1>4, <1>5, <1>6, ElementsTail
<1>8. \A d \in CPUs : t \notin allocation[d]
  BY <1>5, <1>7
<1>9. \A d \in CPUs : allocation'[d] = IF d = c THEN allocation[c] \cup {t} ELSE allocation[d]
  BY <1>3, <1>4
<1>10. TasksOK' /\ ByCapacity' = ByCapacity
  BY <1>1, <1>4 DEF TasksOK, ByCapacity, Capacity
<1>11. TaskInv'
  <2>1. allocation' \in [CPUs -> SUBSET Users]
    BY <1>3, <1>4
  <2>2. \A u \in Elements(TasksToPartitioned') : State'[u] # "SLEEPING"
    BY <1>1, <1>4, <1>7
  <2>3. \A d \in CPUs : \A u \in allocation'[d] : State'[u] # "SLEEPING"
    BY <1>1, <1>4, <1>7, <1>9
  <2>4. \A d, e \in CPUs : d # e => allocation'[d] \cap allocation'[e] = {}
    BY <1>4, <1>8, <1>9
  <2> QED BY <1>1, <1>4, <1>7, <1>10, <2>1, <2>2, <2>3, <2>4 DEF TaskInv
<1>12. PlaceInv'
  <2>1. \A d \in CPUs : allocation'[d] \cap Elements(TasksToPartitioned') = {}
    BY <1>5, <1>7, <1>9
  <2>2. \A u \in Users : State'[u] # "SLEEPING" =>
           u \in Elements(TasksToPartitioned') \/ \E d \in CPUs : u \in allocation'[d]
    BY <1>1, <1>3, <1>5, <1>7, <1>9
  <2> QED BY <1>1, <1>5, <1>7, <2>1, <2>2 DEF PlaceInv
<1>13. PhaseInv'
  <2>1. phase' \in {"placing", "partitioned"}
    BY <1>1
  <2>2. phase' = "partitioned" => TasksToPartitioned' = <<>>
    BY <1>1, <1>7, EmptySeq
  <2>3. phase' = "placing" => TasksToPartitioned' # <<>>
    <3>1. Len(TasksToPartitioned) \in Nat
      BY <1>4, LenProperties
    <3>2. phase' = "placing" => Len(TasksToPartitioned') # 0
      BY <1>1, <1>7, <3>1
    <3> QED BY <3>2, EmptySeq
  <2>4. Sorted(TasksToPartitioned', ByCapacity')
    BY <1>1, <1>4, <1>6, <1>10, SortedTail
  <2>5. RunningTask' \in Users \cup {0, Idle}
    BY <1>1 DEF IInv, PhaseInv
  <2> QED BY <1>1, <2>1, <2>2, <2>3, <2>4, <2>5 DEF PhaseInv
<1>14. ListInv'
  BY <1>1, <1>2, <1>3, <1>8, PlacingInList
<1>15. QueuesInv'
  <2>1. /\ RdyQueue \in [CPUs -> QueueType]
        /\ \A d \in CPUs : /\ GoodQueue(RdyQueue[d])
                           /\ Members(RdyQueue[d]) \subseteq Users
                           /\ Held(RdyQueue[d]) = Entries(allocation[d])
    BY <1>1 DEF IInv, QueuesInv, Entries
  <2> DEFINE r == InsertInQueue(RdyQueue[c], t, prop[t].deadline)
  <2>2. GoodQueue(r) /\ Held(r) = Entries(allocation[c] \cup {t}) /\ Members(r) \subseteq Users
    <3>1. PICK S : S = allocation[c]
      OBVIOUS
    <3>2. S \in SUBSET Users /\ t \in Users \ S
      BY <1>3, <1>4, <1>8, <3>1
    <3>3. PICK q : q = RdyQueue[c]
      OBVIOUS
    <3>4. GoodQueue(q) /\ Held(q) = Entries(S)
      BY <1>3, <2>1, <3>1, <3>3
    <3>5. LET i == InsertInQueue(q, t, prop[t].deadline)
          IN  /\ GoodQueue(i)
              /\ Held(i) = Entries(S \cup {t})
              /\ Members(i) \subseteq Users
      BY <1>4, <3>2, <3>4, PlacedInQueue
    <3> QED BY <3>1, <3>3, <3>5
  <2>3. \A d \in CPUs : RdyQueue'[d] = IF d = c THEN r ELSE RdyQueue[d]
    BY <1>3, <2>1
  <2> HIDE DEF r
  <2>4. \A d \in CPUs : /\ GoodQueue(RdyQueue'[d])
                        /\ Members(RdyQueue'[d]) \subseteq Users
                        /\ Held(RdyQueue'[d]) = Entries(allocation'[d])
    BY <1>9, <2>1, <2>2, <2>3
  <2>5. RdyQueue' \in [CPUs -> QueueType]
    <3>1. r \in QueueType
      BY <2>2 DEF GoodQueue
    <3>2. RdyQueue' = [RdyQueue EXCEPT ![c] = r]
      BY <1>3 DEF r
    <3> QED BY <2>1, <3>1, <3>2
  <2> QED BY <1>1, <2>4, <2>5 DEF QueuesInv, Entries
<1>16. DeadlineInv'
  <2> SUFFICES ASSUME NEW d \in CPUs, NEW x \in Nat \ {0}
               PROVE  InTime(allocation'[d], x)
    BY <1>1 DEF DeadlineInv, InTime, JobsDue
  <2>1. CASE d = c
    <3>1. PICK S : S = allocation[c] \cup {t}
      OBVIOUS
    <3>2. S \in SUBSET Users /\ S # {} /\ IsEdfSchedulingFeasible(S)
      BY <1>3, <1>4, <3>1
    <3>3. InTime(S, x)
      BY <1>4, <3>2, FeasibleTasksMeetDeadlines
    <3> QED BY <1>9, <2>1, <3>1, <3>3
  <2>2. CASE d # c
    <3>1. InTime(allocation[d], x)
      BY DEF IInv, DeadlineInv
    <3> QED BY <1>9, <2>2, <3>1
  <2> QED BY <2>1, <2>2
<1> QED BY <1>11, <1>12, <1>13, <1>14, <1>15, <1>16 DEF IInv

-----------------------------------------------------------------------------
(* THE THEOREMS.                                                           *)

LEMMA NextIInv == IInv /\ [Next]_vars => IInv'
<1> SUFFICES ASSUME IInv, [Next]_vars PROVE IInv'
  OBVIOUS
<1>1. ASSUME NEW t \in Users, NEW p \in Properties, CreateTask(t, p)
      PROVE  IInv'
  BY <1>1, CreateTaskIInv
<1>2. CASE BeginPartition
  BY <1>2, BeginPartitionIInv
<1>3. CASE PlaceTask
  BY <1>3, PlaceTaskIInv
<1>4. CASE GiveUp
  BY <1>4, GiveUpIInv
<1>5. CASE Start
  BY <1>5, StartIInv
<1>6. CASE UNCHANGED vars
  <2>1. /\ UNCHANGED <<State, TasksToPartitioned, found, phase, RunningTask>>
        /\ UNCHANGED <<prop, allocation, RdyQueue, ProcessorCapacityList>>
    BY <1>6 DEF vars, tcb, result
  <2>2. /\ TasksOK' /\ ByCapacity' = ByCapacity /\ DeadlineInv' /\ QueuesInv'
        /\ phase # "running" => ListInv'
    BY <2>1, PlacedUnchanged
  <2>3. ListInv'
    BY <2>1, <2>2 DEF ListInv
  <2>4. TaskInv' /\ PlaceInv' /\ PhaseInv'
    BY <2>1, <2>2 DEF IInv, TaskInv, PlaceInv, PhaseInv
  <2> QED BY <2>2, <2>3, <2>4 DEF IInv
<1> QED BY <1>1, <1>2, <1>3, <1>4, <1>5, <1>6 DEF Next

(* What holds from mrtk_Init to the end of mrtk_start, and after it: a     *)
(* task created waits to be placed or is placed, on one CPU; the list of   *)
(* processors is in the order of their loads; a ready queue holds the      *)
(* tasks given to its CPU; and these meet their deadlines.                 *)
THEOREM PartitionInvariant == Spec => []IInv
<1>1. Init => IInv
  BY InitIInv
<1>2. IInv /\ [Next]_vars => IInv'
  BY NextIInv
<1> QED BY <1>1, <1>2, PTL DEF Spec

(* The tables of a CPU hold what they are declared to hold, at every step  *)
(* of mrtk_CreateTask, mrtk_partitioned and mrtk_start.                    *)
THEOREM PartitionTypes == Spec => []PartitionTypeOK
<1>1. IInv => PartitionTypeOK
  BY DEF IInv, TaskInv, PhaseInv, QueuesInv, TasksOK, PartitionTypeOK
<1> QED BY <1>1, PartitionInvariant, PTL

(* mrtk_IsEdfSchedulingFeasible is enough: whatever the tasks, the tasks   *)
(* that mrtk_partitioned gives to a CPU never need more time than there    *)
(* is before their deadlines.                                              *)
THEOREM PartitionMeetsDeadlines == Spec => []DeadlinesCanBeMet
<1>1. IInv => DeadlinesCanBeMet
  <2> SUFFICES ASSUME IInv, NEW c \in CPUs, NEW x \in 1..(2 * Scale)
               PROVE  InTime(allocation[c], x)
    BY DEF DeadlinesCanBeMet, InTime
  <2>1. x \in Nat \ {0}
    BY PartitionAssumption
  <2> QED BY <2>1 DEF IInv, DeadlineInv
<1> QED BY <1>1, PartitionInvariant, PTL

(* When mrtk_partitioned returns TRUE no task is left out: each is in one  *)
(* ready queue, once, under its deadline.                                  *)
THEOREM PartitionPlacesOnce == Spec => []EveryTaskPlacedOnce
<1>1. IInv => EveryTaskPlacedOnce
  <2> SUFFICES ASSUME IInv, phase = "partitioned", found,
                      NEW t \in Users, State[t] = "READY"
               PROVE  \E c \in CPUs :
                         /\ Entry(t, prop[t].deadline) \in Held(RdyQueue[c])
                         /\ Distinct(RdyQueue[c])
                         /\ \A d \in CPUs \ {c} : t \notin Members(RdyQueue[d])
    BY DEF EveryTaskPlacedOnce
  <2>1. \A c \in CPUs : /\ GoodQueue(RdyQueue[c])
                        /\ Held(RdyQueue[c]) = Entries(allocation[c])
    BY DEF IInv, QueuesInv, Entries
  <2>2. Elements(TasksToPartitioned) = {}
    <3>1. TasksToPartitioned = <<>>
      BY DEF IInv, PhaseInv
    <3> QED BY <3>1 DEF Elements
  <2>3. PICK c \in CPUs : t \in allocation[c]
    BY <2>2 DEF IInv, PlaceInv
  <2>4. Entry(t, prop[t].deadline) \in Held(RdyQueue[c])
    BY <2>1, <2>3 DEF Entries
  <2>5. Distinct(RdyQueue[c])
    BY <2>1 DEF GoodQueue, GoodTable, Distinct, Slots
  <2>6. ASSUME NEW d \in CPUs \ {c}
        PROVE  t \notin Members(RdyQueue[d])
    <3>1. Members(RdyQueue[d]) = allocation[d]
      BY <2>1, EntriesOf
    <3>2. allocation[c] \cap allocation[d] = {}
      BY DEF IInv, TaskInv
    <3> QED BY <2>3, <3>1, <3>2
  <2> QED BY <2>4, <2>5, <2>6
<1> QED BY <1>1, PartitionInvariant, PTL

(* A placement takes the biggest task left, and passes over a CPU that is  *)
(* less loaded only if that CPU cannot take it.                            *)
THEOREM PartitionBiggestToLeastLoaded == Spec => BiggestToLeastLoaded
<1> DEFINE Fair ==
       \A c, d \in CPUs : \A t \in allocation'[c] \ allocation[c] :
          /\ \A u \in ToSet(TasksToPartitioned') : Capacity(u) <= Capacity(t)
          /\ Utilization(allocation[d]) < Utilization(allocation[c])
                => ~IsEdfSchedulingFeasible(allocation[d] \cup {t})
<1>1. IInv /\ [Next]_vars => [Fair]_vars
  <2> SUFFICES ASSUME IInv, [Next]_vars PROVE [Fair]_vars
    OBVIOUS
  <2>1. allocation' = allocation \/ PlaceTask
    BY DEF Next, CreateTask, BeginPartition, GiveUp, Start, vars, result
  <2>2. CASE allocation' = allocation
    BY <2>2
  <2>3. CASE PlaceTask
    <3>1. PICK t, j, c : Placing(t, j, c)
      BY <2>3, PlaceTaskPlaces
    <3>2. /\ phase = "placing" /\ TasksToPartitioned' = Tail(TasksToPartitioned)
      BY <2>3 DEF PlaceTask
    <3>3. \A d \in CPUs : \A u \in allocation'[d] \ allocation[d] : d = c /\ u = t
      BY <3>1 DEF Placing, IInv, TaskInv
    <3>4. \A u \in ToSet(TasksToPartitioned') : Capacity(u) <= Capacity(t)
      <4>1. /\ TasksToPartitioned \in Seq(Users) /\ TasksToPartitioned # <<>> /\ TasksOK
            /\ Sorted(TasksToPartitioned, ByCapacity)
            /\ t = Head(TasksToPartitioned)
        BY <3>1, <3>2 DEF Placing, IInv, TaskInv, PhaseInv
      <4> QED BY <3>2, <4>1, HeadIsBiggest
    <3>5. ASSUME NEW d \in CPUs, Utilization(allocation[d]) < Utilization(allocation[c])
          PROVE  ~IsEdfSchedulingFeasible(allocation[d] \cup {t})
      <4>1. /\ j \in 1..NbProcessors /\ c \in CPUs
            /\ ProcessorCapacityList[j].processorid = c
            /\ \A k \in 1..NbProcessors :
                  k < j => ~IsEdfSchedulingFeasible(
                               allocation[ProcessorCapacityList[k].processorid] \cup {t})
        BY <3>1 DEF Placing
      <4>2. GoodList
        BY <3>2, ListIsGood
      <4>3. PICK k \in 1..NbProcessors : ProcessorCapacityList[k].processorid = d
        BY <4>2 DEF GoodList
      <4>4. k < j
        <5>1. /\ ProcessorCapacityList[k].total_capacity = Utilization(allocation[d])
              /\ ProcessorCapacityList[j].total_capacity = Utilization(allocation[c])
              /\ ProcessorCapacityList[k] \in Processor /\ ProcessorCapacityList[j] \in Processor
              /\ Len(ProcessorCapacityList) = NbProcessors
          BY <4>1, <4>2, <4>3 DEF GoodList
        <5>2. /\ Utilization(allocation[d]) \in Nat /\ Utilization(allocation[c]) \in Nat
          BY <5>1 DEF Processor
        <5>3. j < k => Utilization(allocation[c]) <= Utilization(allocation[d])
          <6>1. j < k => ByLoad[ProcessorCapacityList[j]] <= ByLoad[ProcessorCapacityList[k]]
            BY <4>1, <4>2, <5>1 DEF GoodList, Sorted
          <6> QED BY <5>1, <6>1 DEF ByLoad
        <5>4. j # k
          BY <3>5, <5>1, <5>2
        <5>5. j \in Int /\ k \in Int
          BY <4>1
        <5> QED BY <3>5, <5>2, <5>3, <5>4, <5>5
      <4> QED BY <4>1, <4>3, <4>4
    <3> QED BY <3>3, <3>4, <3>5
  <2> QED BY <2>1, <2>2, <2>3
<1> QED BY <1>1, PartitionInvariant, PTL DEF Spec, BiggestToLeastLoaded
=============================================================================
