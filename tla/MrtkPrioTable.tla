---------------------------- MODULE MrtkPrioTable ----------------------------
(***************************************************************************)
(* The bit searches of kernel/src/mrtk_priotable.c.  A word is the set of  *)
(* its bits, so what is said of a word is said of all 2^32 of them.        *)
(*                                                                         *)
(* A search halves the window that holds the bit it looks for: where its   *)
(* half is empty it shifts the word by that half, and counts the shift.    *)
(***************************************************************************)
EXTENDS Integers

RightShift(word, n) == {b - n : b \in {x \in word : x >= n}}

\* The bits that leave a word of this width are lost.
LeftShift(word, n, width) == {b + n : b \in {x \in word : x + n < width}}

SkipRight(s, n) ==
    IF s.word \cap 0..(n - 1) = {}
    THEN [word |-> RightShift(s.word, n), hghbitset |-> s.hghbitset + n]
    ELSE s

SkipLeft(s, n, width) ==
    IF s.word \cap (width - n)..(width - 1) = {}
    THEN [word |-> LeftShift(s.word, n, width), hghbitset |-> s.hghbitset - n]
    ELSE s

\* hghbitset is one more than the bits that were skipped.
LastOnRight(s) == s.hghbitset - (IF 0 \in s.word THEN 1 ELSE 0)

\* The bit that is tested is bit 1, not the highest bit of the word.
LastOnLeft(s) == s.hghbitset + (IF 1 \in s.word THEN 1 ELSE 0)

mrtk_findhghbitsetonright32(word) ==
    IF 0 \in word THEN 0
    ELSE LastOnRight(SkipRight(SkipRight(SkipRight(SkipRight(
             [word |-> word, hghbitset |-> 1], 16), 8), 4), 2))

mrtk_findhghbitsetonright8(word) ==
    IF 0 \in word THEN 0
    ELSE LastOnRight(SkipRight(SkipRight([word |-> word, hghbitset |-> 1], 4), 2))

mrtk_findhghbitsetonleft32(word) ==
    IF 31 \in word THEN 31
    ELSE LastOnLeft(SkipLeft(SkipLeft(SkipLeft(SkipLeft(
             [word |-> word, hghbitset |-> 30], 16, 32), 8, 32), 4, 32), 2, 32))

mrtk_findhghbitsetonleft8(word) ==
    IF 7 \in word THEN 7
    ELSE LastOnLeft(SkipLeft(SkipLeft([word |-> word, hghbitset |-> 6], 4, 8), 2, 8))
=============================================================================
