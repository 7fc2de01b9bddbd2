------------------------- MODULE MrtkContextProofs -------------------------
(***************************************************************************)
(* The context switch and the tick interrupt give every task its registers *)
(* back, for any number of tasks and in whatever order they switch, and    *)
(* the masks of the CPU implement the kernel's rule for when a tick may be *)
(* taken, provided no task calls mrtk_wait(1).                             *)
(*                                                                         *)
(* The inductive invariant says what each stack holds: a task that is not  *)
(* running has on it one frame of 26 words with its own registers, and     *)
(* under it, if it owes the acknowledge of a tick, the frame the interrupt *)
(* has made of them.  Between a frame and the registers it comes from or   *)
(* goes to, only INT1 may differ: RestoreContext keeps that of the CPU.    *)
(***************************************************************************)
EXTENDS MrtkContext, MrtkKernelProofs, SequenceTheorems

\* The values of some registers, in the order of their names.
Image(file, words) == [i \in DOMAIN words |-> file[words[i]]]

ContextWords == HwWords \o CpuWords \o FpuWords

FrameOf(file) == Image(file, ContextWords)

Codes == {"boot", "start", "one", "two", "isr", "switch"}

Cell == [by : (Tasks \cup {NoOwner}) \X Codes, word : Words, on : BOOLEAN]

Registers == [Words -> Cell]

-----------------------------------------------------------------------------
(* The words of the three lists are the registers, and no other.           *)
LEMMA WordLists ==
    /\ HwWords \in Seq(Words) /\ CpuWords \in Seq(Words) /\ FpuWords \in Seq(Words)
    /\ ContextWords \in Seq(Words)
    /\ Words = ToSet(HwWords) \cup ToSet(CpuWords) \cup ToSet(FpuWords)
    /\ ToSet(ContextWords) = Words
<1>1. Words = ToSet(HwWords) \cup ToSet(CpuWords) \cup ToSet(FpuWords)
  BY DEF Words, ToSet, HwWords, CpuWords, FpuWords
<1>2. HwWords \in Seq(Words) /\ CpuWords \in Seq(Words) /\ FpuWords \in Seq(Words)
  BY <1>1 DEF ToSet, HwWords, CpuWords, FpuWords
<1>3. ContextWords \in Seq(Words)
  BY <1>2, ConcatProperties DEF ContextWords
<1>4. ToSet(ContextWords) = Words
  BY DEF Words, ContextWords
<1> QED BY <1>1, <1>2, <1>3, <1>4

(* Pushing some registers puts their image on the stack.                   *)
LEMMA Pushed ==
    ASSUME NEW f, NEW s, NEW ws
    PROVE  Push([reg |-> f, stk |-> s], ws) = [reg |-> f, stk |-> s \o Image(f, ws)]
<1> DEFINE m == [reg |-> f, stk |-> s]
<1>1. m.reg = f /\ m.stk = s
  OBVIOUS
<1>2. [i \in DOMAIN ws |-> m.reg[ws[i]]] = Image(f, ws)
  BY <1>1 DEF Image
<1>3. Push(m, ws) = [m EXCEPT !.stk = s \o Image(f, ws)]
  BY <1>1, <1>2, Zenon DEF Push
<1> QED BY <1>3

LEMMA CellConcat ==
    ASSUME NEW s \in Seq(Cell), NEW t \in Seq(Cell)
    PROVE  /\ s \o t \in Seq(Cell) /\ Len(s \o t) = Len(s) + Len(t)
           /\ Len(s) \in Nat /\ Len(t) \in Nat
           /\ \A i \in 1..Len(s) + Len(t) :
                 (s \o t)[i] = IF i <= Len(s) THEN s[i] ELSE t[i - Len(s)]
  BY ConcatProperties, LenProperties

\* r is the stack s of n words, with the k words of t on top of it.
Atop(r, s, n, t, k) ==
    /\ r \in Seq(Cell) /\ Len(r) = n + k /\ n \in Nat /\ k \in Nat
    /\ \A i \in 1..n + k : r[i] = IF i <= n THEN s[i] ELSE t[i - n]

LEMMA ConcatLengths ==
    ASSUME NEW s \in Seq(Cell), NEW t \in Seq(Cell), NEW n, NEW k,
           Len(s) = n, Len(t) = k
    PROVE  Atop(s \o t, s, n, t, k)
  BY CellConcat DEF Atop

LEMMA CellAssociative ==
    ASSUME NEW s \in Seq(Cell), NEW t \in Seq(Cell), NEW u \in Seq(Cell)
    PROVE  (s \o t) \o u = s \o (t \o u)
  BY ConcatAssociative

LEMMA ImageType ==
    ASSUME NEW f \in Registers, NEW ws \in Seq(Words)
    PROVE  /\ Image(f, ws) \in Seq(Cell) /\ Len(Image(f, ws)) = Len(ws)
           /\ \A i \in 1..Len(ws) : ws[i] \in Words /\ Image(f, ws)[i] = f[ws[i]]
<1>1. /\ Len(ws) \in Nat /\ DOMAIN ws = 1..Len(ws)
      /\ \A i \in 1..Len(ws) : ws[i] \in Words
  BY LenProperties
<1>2. Image(f, ws) \in [1..Len(ws) -> Cell]
  BY <1>1 DEF Image, Registers
<1>3. Image(f, ws) \in Seq(Cell)
  BY <1>1, <1>2
<1>4. Len(Image(f, ws)) = Len(ws)
  BY <1>1 DEF Image
<1> QED BY <1>1, <1>3, <1>4 DEF Image

LEMMA ImageSame ==
    ASSUME NEW f, NEW g, NEW ws, \A w \in ToSet(ws) : f[w] = g[w]
    PROVE  Image(f, ws) = Image(g, ws)
  BY DEF Image, ToSet

(* The image of two lists of registers is that of the one on that of the   *)
(* other.                                                                  *)
LEMMA ImageConcat ==
    ASSUME NEW f \in Registers, NEW a \in Seq(Words), NEW b \in Seq(Words)
    PROVE  Image(f, a \o b) = Image(f, a) \o Image(f, b)
<1>1. /\ a \o b \in Seq(Words) /\ Len(a \o b) = Len(a) + Len(b)
      /\ Len(a) \in Nat /\ Len(b) \in Nat
      /\ \A i \in 1..Len(a) + Len(b) :
            (a \o b)[i] = IF i <= Len(a) THEN a[i] ELSE b[i - Len(a)]
  BY ConcatProperties, LenProperties
<1>2. /\ Image(f, a) \in Seq(Cell) /\ Len(Image(f, a)) = Len(a)
      /\ Image(f, b) \in Seq(Cell) /\ Len(Image(f, b)) = Len(b)
      /\ Image(f, a \o b) \in Seq(Cell) /\ Len(Image(f, a \o b)) = Len(a) + Len(b)
  BY <1>1, ImageType
<1>3. /\ Image(f, a) \o Image(f, b) \in Seq(Cell)
      /\ Len(Image(f, a) \o Image(f, b)) = Len(a) + Len(b)
      /\ \A i \in 1..Len(a) + Len(b) :
            (Image(f, a) \o Image(f, b))[i] =
               IF i <= Len(a) THEN Image(f, a)[i] ELSE Image(f, b)[i - Len(a)]
  <2> DEFINE s == Image(f, a)
             t == Image(f, b)
  <2> HIDE DEF s, t
  <2>1. s \in Seq(Cell) /\ t \in Seq(Cell) /\ Len(s) = Len(a) /\ Len(t) = Len(b)
    BY <1>2 DEF s, t
  <2>2. /\ s \o t \in Seq(Cell) /\ Len(s \o t) = Len(s) + Len(t)
        /\ \A i \in 1..Len(s) + Len(t) :
              (s \o t)[i] = IF i <= Len(s) THEN s[i] ELSE t[i - Len(s)]
    BY <2>1, CellConcat
  <2>3. /\ s \o t \in Seq(Cell) /\ Len(s \o t) = Len(a) + Len(b)
        /\ \A i \in 1..Len(a) + Len(b) :
              (s \o t)[i] = IF i <= Len(a) THEN s[i] ELSE t[i - Len(a)]
    BY <2>1, <2>2
  <2> QED BY <2>3 DEF s, t
<1>4. ASSUME NEW i \in 1..Len(a) + Len(b)
      PROVE  Image(f, a \o b)[i] = (Image(f, a) \o Image(f, b))[i]
  <2>1. Image(f, a \o b)[i] = f[(a \o b)[i]]
    BY <1>1, ImageType
  <2>2. CASE i <= Len(a)
    BY <1>1, <1>3, <2>1, <2>2, ImageType
  <2>3. CASE i > Len(a)
    <3>1. i - Len(a) \in 1..Len(b)
      BY <1>1, <2>3
    <3>2. Image(f, b)[i - Len(a)] = f[b[i - Len(a)]]
      BY <3>1, ImageType
    <3> QED BY <1>1, <1>3, <2>1, <2>3, <3>2
  <2>4. i <= Len(a) \/ i > Len(a)
    BY <1>1
  <2> QED BY <2>2, <2>3, <2>4
<1> QED BY <1>2, <1>3, <1>4, SeqEqual

(* Popping what was pushed, in the reverse order, gives the registers the  *)
(* values they had, and leaves the stack as it was.                        *)
LEMMA Popped ==
    ASSUME NEW f \in Registers, NEW g \in Registers, NEW s \in Seq(Cell),
           NEW ws \in Seq(Words)
    PROVE  Pop([reg |-> g, stk |-> s \o Image(f, ws)], Reverse(ws))
              = [reg |-> [w \in Words |-> IF w \in ToSet(ws) THEN f[w] ELSE g[w]],
                 stk |-> s]
<1> DEFINE stk == s \o Image(f, ws)
           rev == Reverse(ws)
           At(w) == Len(stk) + 1 - Depth(rev, w)
<1>1. /\ Len(ws) \in Nat /\ DOMAIN ws = 1..Len(ws) /\ Len(s) \in Nat
      /\ Len(Image(f, ws)) = Len(ws) /\ Image(f, ws) \in Seq(Cell)
      /\ \A i \in 1..Len(ws) : Image(f, ws)[i] = f[ws[i]]
  BY LenProperties, ImageType
<1>2. /\ stk \in Seq(Cell) /\ Len(stk) = Len(s) + Len(ws)
      /\ \A i \in 1..Len(s) + Len(ws) :
            stk[i] = IF i <= Len(s) THEN s[i] ELSE Image(f, ws)[i - Len(s)]
  <2> DEFINE t == Image(f, ws)
  <2> HIDE DEF t
  <2>1. t \in Seq(Cell) /\ Len(t) = Len(ws)
    BY <1>1 DEF t
  <2> QED BY <2>1, CellConcat DEF t
<1>3. /\ DOMAIN rev = 1..Len(ws) /\ Len(rev) = Len(ws)
      /\ \A i \in 1..Len(ws) : rev[i] = ws[Len(ws) + 1 - i]
  BY <1>1 DEF Reverse
<1>4. ToSet(rev) = ToSet(ws)
  <2>1. ASSUME NEW i \in 1..Len(ws) PROVE rev[i] \in ToSet(ws) /\ ws[i] \in ToSet(rev)
    <3>1. Len(ws) + 1 - i \in 1..Len(ws)
      BY <1>1
    <3>2. rev[Len(ws) + 1 - i] = ws[i]
      BY <1>1, <1>3, <3>1
    <3> QED BY <1>1, <1>3, <3>1, <3>2 DEF ToSet
  <2> QED BY <1>1, <1>3, <2>1 DEF ToSet
<1>5. ASSUME NEW w \in ToSet(ws) PROVE stk[At(w)] = f[w]
  <2> DEFINE i == Depth(rev, w)
  <2>1. \E j \in DOMAIN rev : rev[j] = w
    BY <1>4, <1>5 DEF ToSet
  <2>2. i \in 1..Len(ws) /\ rev[i] = w
    BY <1>3, <2>1 DEF Depth
  <2> HIDE DEF i, rev
  <2>3. Len(stk) + 1 - i \in Len(s) + 1..Len(s) + Len(ws)
    BY <1>1, <1>2, <2>2
  <2>4. stk[Len(stk) + 1 - i] = Image(f, ws)[Len(ws) + 1 - i]
    BY <1>1, <1>2, <2>2, <2>3
  <2>5. Image(f, ws)[Len(ws) + 1 - i] = f[ws[Len(ws) + 1 - i]]
    BY <1>1, <2>2
  <2> QED BY <1>3, <2>2, <2>4, <2>5 DEF i, rev
<1>6. SubSeq(stk, 1, Len(stk) - Len(rev)) = s
  <2>1. Len(stk) - Len(rev) = Len(s)
    BY <1>1, <1>2, <1>3
  <2>2. \A i \in 1..Len(s) : stk[i] \in Cell /\ stk[i] = s[i]
    BY <1>1, <1>2, ElementOfSeq
  <2> HIDE DEF stk, rev
  <2>3. /\ SubSeq(stk, 1, Len(s)) \in Seq(Cell)
        /\ Len(SubSeq(stk, 1, Len(s))) = Len(s)
        /\ \A i \in 1..Len(s) : SubSeq(stk, 1, Len(s))[i] = s[i]
    BY <1>1, <2>2, SubSeqProperties
  <2> QED BY <2>1, <2>3, SeqEqual
<1> DEFINE m == [reg |-> g, stk |-> stk]
<1>7. m.reg = g /\ m.stk = stk
  OBVIOUS
<1> HIDE DEF m, stk, rev
<1>8. Pop(m, rev) = [reg |-> [w \in Words |-> IF w \in ToSet(rev) THEN m.stk[Len(m.stk) + 1 - Depth(rev, w)]
                                             ELSE m.reg[w]],
                    stk |-> SubSeq(m.stk, 1, Len(m.stk) - Len(rev))]
  BY DEF Pop
<1>9. [w \in Words |-> IF w \in ToSet(rev) THEN m.stk[Len(m.stk) + 1 - Depth(rev, w)]
                      ELSE m.reg[w]]
         = [w \in Words |-> IF w \in ToSet(ws) THEN f[w] ELSE g[w]]
  BY <1>4, <1>5, <1>7
<1>10. SubSeq(m.stk, 1, Len(m.stk) - Len(rev)) = s
  BY <1>6, <1>7
<1> QED BY <1>8, <1>9, <1>10 DEF m, stk, rev

-----------------------------------------------------------------------------
\* The registers f, which one code has written, and what the port does to them.
WrittenBy(f, by, intm, int1) ==
    /\ f \in Registers
    /\ Dint(f) = RegistersOf(by, TRUE, int1)
    /\ Eint(f) = RegistersOf(by, FALSE, int1)
    /\ f["DP_ST1"].on = intm /\ f["DBGSTAT_IER"].on = int1
    /\ f["PC"].by = by
    /\ \A w \in Words : f[w].by = by /\ f[w].word = w
    /\ \A on \in BOOLEAN : [f EXCEPT !["DBGSTAT_IER"].on = on] = RegistersOf(by, intm, on)

(* The macros of the port change a mask in such registers and nothing else. *)
LEMMA Written ==
    ASSUME NEW by \in (Tasks \cup {NoOwner}) \X Codes,
           NEW intm \in BOOLEAN, NEW int1 \in BOOLEAN
    PROVE  WrittenBy(RegistersOf(by, intm, int1), by, intm, int1)
<1>1. {"DP_ST1", "DBGSTAT_IER", "PC"} \subseteq Words
  BY WordLists DEF ToSet, HwWords
<1>2. RegistersOf(by, intm, int1) \in Registers
  BY DEF RegistersOf, Registers, Cell
<1> DEFINE f == RegistersOf(by, intm, int1)
<1>3. /\ DOMAIN f = Words
      /\ \A w \in Words : /\ f[w] = [by |-> by, word |-> w, on |-> f[w].on]
                           /\ f[w].by = by /\ f[w].word = w
      /\ \A w \in Words : f[w].on = ((w = "DP_ST1" /\ intm) \/ (w = "DBGSTAT_IER" /\ int1))
  BY DEF RegistersOf
<1>4. f["DP_ST1"].on = intm /\ f["DBGSTAT_IER"].on = int1 /\ f["PC"].by = by
  BY <1>1, <1>3
<1>5. ASSUME NEW on \in BOOLEAN
      PROVE  /\ [f EXCEPT !["DP_ST1"].on = on] = RegistersOf(by, on, int1)
             /\ [f EXCEPT !["DBGSTAT_IER"].on = on] = RegistersOf(by, intm, on)
  <2> DEFINE g == [f EXCEPT !["DP_ST1"].on = on]
             h == RegistersOf(by, on, int1)
             k == [f EXCEPT !["DBGSTAT_IER"].on = on]
             l == RegistersOf(by, intm, on)
  <2>1. ASSUME NEW w \in Words PROVE g[w] = h[w] /\ k[w] = l[w]
    <3> DEFINE r(b) == [by |-> by, word |-> w, on |-> b]
    <3>1. /\ g[w] = IF w = "DP_ST1" THEN [f[w] EXCEPT !.on = on] ELSE f[w]
          /\ k[w] = IF w = "DBGSTAT_IER" THEN [f[w] EXCEPT !.on = on] ELSE f[w]
      BY <1>3
    <3>2. h[w] = IF w = "DP_ST1" THEN r(on)
                 ELSE IF w = "DBGSTAT_IER" THEN r(int1) ELSE r(FALSE)
      BY DEF RegistersOf
    <3>3. l[w] = IF w = "DP_ST1" THEN r(intm)
                 ELSE IF w = "DBGSTAT_IER" THEN r(on) ELSE r(FALSE)
      BY DEF RegistersOf
    <3>4. f[w] = IF w = "DP_ST1" THEN r(intm)
                 ELSE IF w = "DBGSTAT_IER" THEN r(int1) ELSE r(FALSE)
      BY DEF RegistersOf
    <3>5. \A b \in BOOLEAN : [r(b) EXCEPT !.on = on] = r(on)
      OBVIOUS
    <3> HIDE DEF g, h, k, l, f, r
    <3> QED BY <3>1, <3>2, <3>3, <3>4, <3>5
  <2>2. /\ g = [w \in Words |-> g[w]] /\ h = [w \in Words |-> h[w]]
        /\ k = [w \in Words |-> k[w]] /\ l = [w \in Words |-> l[w]]
    BY DEF RegistersOf
  <2> HIDE DEF g, h, k, l
  <2>3. g = h /\ k = l
    BY <2>1, <2>2
  <2> QED BY <2>3 DEF g, h, k, l
<1>6. Dint(f) = RegistersOf(by, TRUE, int1) /\ Eint(f) = RegistersOf(by, FALSE, int1)
  BY <1>5 DEF Dint, Eint
<1> HIDE DEF f
<1>7. /\ f \in Registers
      /\ \A on \in BOOLEAN : [f EXCEPT !["DBGSTAT_IER"].on = on] = RegistersOf(by, intm, on)
  BY <1>2, <1>5 DEF f
<1> QED BY <1>3, <1>4, <1>6, <1>7 DEF f, WrittenBy

LEMMA FrameType ==
    ASSUME NEW f \in Registers
    PROVE  /\ FrameOf(f) \in Seq(Cell) /\ Len(FrameOf(f)) = 26
           /\ FrameOf(f) = (Image(f, HwWords) \o Image(f, CpuWords)) \o Image(f, FpuWords)
<1>1. Len(ContextWords) = 26
  BY DEF ContextWords, HwWords, CpuWords, FpuWords
<1>2. FrameOf(f) \in Seq(Cell) /\ Len(FrameOf(f)) = 26
  BY <1>1, ImageType, WordLists DEF FrameOf
<1>3. HwWords \o CpuWords \in Seq(Words)
  BY WordLists, ConcatProperties
<1>4. FrameOf(f) = Image(f, HwWords \o CpuWords) \o Image(f, FpuWords)
  BY <1>3, ImageConcat, WordLists DEF FrameOf, ContextWords
<1>5. Image(f, HwWords \o CpuWords) = Image(f, HwWords) \o Image(f, CpuWords)
  BY ImageConcat, WordLists
<1> QED BY <1>2, <1>4, <1>5

Scratched(f) ==
    [w \in Words |-> IF w \in {"T_ST0", "AH_AL", "AR1_AR0", "AR1H_AR0H"}
                    THEN [by |-> <<NoOwner, "switch">>, word |-> w, on |-> FALSE]
                    ELSE f[w]]

LEMMA ScratchStep ==
    ASSUME NEW f \in Registers, NEW s
    PROVE  /\ Scratch([reg |-> f, stk |-> s]) = [reg |-> Scratched(f), stk |-> s]
           /\ Scratched(f) \in Registers
<1>1. Scratched(f) \in Registers
  BY DEF Scratched, Registers, Cell, Codes
<1> DEFINE m == [reg |-> f, stk |-> s]
<1>2. m.reg = f
  OBVIOUS
<1>3. Scratch(m) = [m EXCEPT !.reg = Scratched(f)]
  BY <1>2, Zenon DEF Scratch, Scratched
<1>4. [m EXCEPT !.reg = Scratched(f)] = [reg |-> Scratched(f), stk |-> s]
  OBVIOUS
<1> QED BY <1>1, <1>3, <1>4

LEMMA DintType ==
    ASSUME NEW f \in Registers
    PROVE  /\ Dint(f) \in Registers
           /\ \A w \in Words : w # "DP_ST1" => Dint(f)[w] = f[w]
  BY DEF Dint, Registers, Cell

(* _RTOSINT_Handler, entered by TRAP, leaves on the stack of the task that *)
(* it switches out one frame of the registers as they were.                *)
LEMMA SaveFrame ==
    ASSUME NEW f \in Registers, NEW s \in Seq(Cell)
    PROVE  LET slept == SaveContext(Trap([reg |-> f, stk |-> s]))
           IN  /\ slept.stk = s \o FrameOf(f)
               /\ slept.reg \in Registers
               /\ slept.reg["DBGSTAT_IER"] = f["DBGSTAT_IER"]
<1> DEFINE s1 == s \o Image(f, HwWords)
           g == Dint(f)
           s2 == s1 \o Image(g, CpuWords)
           h == Scratched(g)
           s3 == s2 \o Image(h, FpuWords)
<1>1. g \in Registers /\ h \in Registers
  BY DintType, ScratchStep
<1>2. Trap([reg |-> f, stk |-> s]) = [reg |-> g, stk |-> s1]
  <2>1. Push([reg |-> f, stk |-> s], HwWords) = [reg |-> f, stk |-> s1]
    BY Pushed
  <2> HIDE DEF s1
  <2> QED BY <2>1 DEF Trap
<1>3. SaveContext([reg |-> g, stk |-> s1]) = [reg |-> h, stk |-> s3]
  <2>1. Push([reg |-> g, stk |-> s1], CpuWords) = [reg |-> g, stk |-> s2]
    BY Pushed
  <2>2. Scratch([reg |-> g, stk |-> s2]) = [reg |-> h, stk |-> s2]
    BY <1>1, ScratchStep
  <2>3. Push([reg |-> h, stk |-> s2], FpuWords) = [reg |-> h, stk |-> s3]
    BY Pushed
  <2> QED BY <2>1, <2>2, <2>3 DEF SaveContext
<1>4. Image(g, CpuWords) = Image(f, CpuWords)
  <2>1. \A w \in ToSet(CpuWords) : w \in Words /\ w # "DP_ST1"
    BY WordLists DEF ToSet, CpuWords
  <2> QED BY <2>1, DintType, ImageSame
<1>5. Image(h, FpuWords) = Image(f, FpuWords)
  <2>1. \A w \in ToSet(FpuWords) :
           w \in Words \ {"DP_ST1", "T_ST0", "AH_AL", "AR1_AR0", "AR1H_AR0H"}
    BY WordLists DEF ToSet, FpuWords
  <2>2. \A w \in ToSet(FpuWords) : h[w] = f[w]
    BY <2>1, DintType DEF Scratched
  <2> QED BY <2>2, ImageSame
<1>6. s3 = s \o FrameOf(f)
  <2> DEFINE a == Image(f, HwWords)
             b == Image(f, CpuWords)
             c == Image(f, FpuWords)
  <2>1. a \in Seq(Cell) /\ b \in Seq(Cell) /\ c \in Seq(Cell)
    BY ImageType, WordLists
  <2>2. s3 = ((s \o a) \o b) \o c
    BY <1>4, <1>5
  <2>3. FrameOf(f) = (a \o b) \o c
    BY FrameType
  <2> HIDE DEF a, b, c, s3
  <2>4. (s \o a) \o b = s \o (a \o b)
    BY <2>1, CellAssociative
  <2> DEFINE x == a \o b
  <2>5. x \in Seq(Cell)
    BY <2>1, CellConcat
  <2> HIDE DEF x
  <2>6. (s \o x) \o c = s \o (x \o c)
    BY <2>1, <2>5, CellAssociative
  <2> QED BY <2>2, <2>3, <2>4, <2>6 DEF x
<1>7. h["DBGSTAT_IER"] = f["DBGSTAT_IER"]
  <2>1. "DBGSTAT_IER" \in Words
    BY WordLists DEF ToSet, HwWords
  <2> QED BY <2>1, DintType DEF Scratched
<1> QED BY <1>1, <1>2, <1>3, <1>6, <1>7

-----------------------------------------------------------------------------
CpuLow == <<"XAR2", "XAR3", "XAR4", "XAR5", "XAR6", "XAR7", "XT", "RPC">>

Ar1h == <<"AR1H_AR0H">>

\* The registers of a frame that is restored on a CPU whose IER is ier.
WithIER(f, ier) == [f EXCEPT !["DBGSTAT_IER"].on = ier]

LEMMA RestoreLists ==
    /\ CpuLow \in Seq(Words) /\ Ar1h \in Seq(Words) /\ CpuWords = Ar1h \o CpuLow
    /\ <<"RB", "STF", "R7H", "R6H", "R5H", "R4H", "R3H", "R2H", "R1H", "R0H">>
          = Reverse(FpuWords)
    /\ <<"RPC", "XT", "XAR7", "XAR6", "XAR5", "XAR4", "XAR3", "XAR2">> = Reverse(CpuLow)
    /\ <<"AR1H_AR0H">> = Reverse(Ar1h)
    /\ ToSet(CpuLow) = ToSet(CpuWords) \ {"AR1H_AR0H"} /\ ToSet(Ar1h) = {"AR1H_AR0H"}
    /\ "AR1H_AR0H" \in Words /\ "DBGSTAT_IER" \in Words
<1>1. "AR1H_AR0H" \in Words /\ "DBGSTAT_IER" \in Words
  BY WordLists DEF ToSet, CpuWords, HwWords
<1>2. CpuLow \in Seq(Words) /\ Ar1h \in Seq(Words) /\ CpuWords = Ar1h \o CpuLow
  <2>1. {CpuLow[i] : i \in 1..8} \subseteq ToSet(CpuWords)
    BY DEF CpuWords, CpuLow, ToSet
  <2>2. CpuLow \in Seq(Words)
    BY <2>1, WordLists DEF CpuLow
  <2> QED BY <1>1, <2>2 DEF CpuLow, Ar1h, CpuWords
<1>3. <<"RB", "STF", "R7H", "R6H", "R5H", "R4H", "R3H", "R2H", "R1H", "R0H">>
         = Reverse(FpuWords)
  BY DEF Reverse, FpuWords
<1>4. <<"RPC", "XT", "XAR7", "XAR6", "XAR5", "XAR4", "XAR3", "XAR2">> = Reverse(CpuLow)
  BY DEF Reverse, CpuLow
<1>5. <<"AR1H_AR0H">> = Reverse(Ar1h)
  BY DEF Reverse, Ar1h
<1>6. ToSet(CpuLow) = ToSet(CpuWords) \ {"AR1H_AR0H"} /\ ToSet(Ar1h) = {"AR1H_AR0H"}
  BY DEF ToSet, CpuLow, CpuWords, Ar1h
<1> QED BY <1>1, <1>2, <1>3, <1>4, <1>5, <1>6

LEMMA WithIERType ==
    ASSUME NEW f \in Registers, NEW ier \in BOOLEAN
    PROVE  /\ WithIER(f, ier) \in Registers
           /\ WithIER(f, ier)["DBGSTAT_IER"] = [f["DBGSTAT_IER"] EXCEPT !.on = ier]
           /\ \A w \in Words : w # "DBGSTAT_IER" => WithIER(f, ier)[w] = f[w]
<1> DEFINE c == f["DBGSTAT_IER"]
           k == WithIER(f, ier)
<1>1. \A w \in Words : f[w] \in Cell
  BY DEF Registers
<1>2. [c EXCEPT !.on = ier] \in Cell
  <2> HIDE DEF c
  <2>1. c \in Cell
    BY <1>1, RestoreLists DEF c
  <2>2. [c EXCEPT !.on = ier] = [by |-> c.by, word |-> c.word, on |-> ier]
    BY <2>1 DEF Cell
  <2> QED BY <2>1, <2>2 DEF Cell
<1>3. /\ DOMAIN k = Words /\ k["DBGSTAT_IER"] = [c EXCEPT !.on = ier]
      /\ \A w \in Words : w # "DBGSTAT_IER" => k[w] = f[w]
  BY RestoreLists DEF WithIER, Registers
<1>4. k = [w \in Words |-> k[w]]
  BY DEF WithIER, Registers
<1> HIDE DEF c, k
<1>5. k \in Registers
  BY <1>1, <1>2, <1>3, <1>4 DEF Registers
<1> QED BY <1>3, <1>5 DEF c, k

\* The registers after some of them have been popped from a frame of f.
Pops(f, g, ws) == [w \in Words |-> IF w \in ToSet(ws) THEN f[w] ELSE g[w]]

\* r is a stack s with the registers ws of a frame of f on top, to be popped.
PoppedTo(f, g, s, ws, r) ==
    /\ Pop([reg |-> g, stk |-> r], Reverse(ws)) = [reg |-> Pops(f, g, ws), stk |-> s]
    /\ Pops(f, g, ws) \in Registers

LEMMA PopsStep ==
    ASSUME NEW f \in Registers, NEW g \in Registers, NEW s \in Seq(Cell),
           NEW ws \in Seq(Words), NEW r, r = s \o Image(f, ws)
    PROVE  PoppedTo(f, g, s, ws, r)
<1>1. Pops(f, g, ws) \in Registers
  BY DEF Pops, Registers
<1>2. Pop([reg |-> g, stk |-> s \o Image(f, ws)], Reverse(ws))
         = [reg |-> [w \in Words |-> IF w \in ToSet(ws) THEN f[w] ELSE g[w]], stk |-> s]
  BY Popped
<1> QED BY <1>1, <1>2 DEF Pops, PoppedTo

(* The frame, with the IER of the CPU in the place of its own, and without *)
(* the words that have been popped by then.                                *)
LEMMA IEROverwritten ==
    ASSUME NEW f \in Registers, NEW g \in Registers, NEW s \in Seq(Cell)
    PROVE  LET k == WithIER(f, g["DBGSTAT_IER"].on)
           IN  OverwriteIER([reg |-> g,
                             stk |-> (s \o Image(f, HwWords)) \o Image(f, Ar1h)])
                 = [reg |-> g, stk |-> (s \o Image(k, HwWords)) \o Image(k, Ar1h)]
<1> DEFINE ier == g["DBGSTAT_IER"].on
           k == WithIER(f, ier)
           a == Image(f, HwWords)
           b == Image(f, Ar1h)
           c == Image(k, HwWords)
           d == Image(k, Ar1h)
           old == (s \o a) \o b
           new == (s \o c) \o d
<1>1. ier \in BOOLEAN
  BY RestoreLists DEF Registers, Cell
<1> HIDE DEF ier
<1>2. /\ k \in Registers /\ k["DBGSTAT_IER"] = [f["DBGSTAT_IER"] EXCEPT !.on = ier]
      /\ \A w \in Words : w # "DBGSTAT_IER" => k[w] = f[w]
  BY <1>1, WithIERType
<1> HIDE DEF k
<1>3. /\ a \in Seq(Cell) /\ Len(a) = 7 /\ b \in Seq(Cell) /\ Len(b) = 1
      /\ c \in Seq(Cell) /\ Len(c) = 7 /\ d \in Seq(Cell) /\ Len(d) = 1
  <2>1. Len(HwWords) = 7 /\ Len(Ar1h) = 1
    BY DEF HwWords, Ar1h
  <2> QED BY <1>2, <2>1, ImageType, WordLists, RestoreLists
<1>4. d = b
  <2>1. k["AR1H_AR0H"] = f["AR1H_AR0H"]
    BY <1>2, RestoreLists
  <2> QED BY <2>1, RestoreLists, ImageSame
<1>5. c = [a EXCEPT ![6] = [@ EXCEPT !.on = ier]]
  <2>1. \A i \in 1..7 : HwWords[i] \in Words /\ a[i] = f[HwWords[i]] /\ c[i] = k[HwWords[i]]
    <3>1. Len(HwWords) = 7
      BY DEF HwWords
    <3>2. \A i \in 1..Len(HwWords) : HwWords[i] \in Words /\ a[i] = f[HwWords[i]]
      BY ImageType, WordLists
    <3>3. \A i \in 1..Len(HwWords) : c[i] = k[HwWords[i]]
      BY <1>2, ImageType, WordLists
    <3> QED BY <3>1, <3>2, <3>3
  <2>2. HwWords[6] = "DBGSTAT_IER" /\ \A i \in 1..7 : i # 6 => HwWords[i] # "DBGSTAT_IER"
    BY DEF HwWords
  <2>3. c[6] = [a[6] EXCEPT !.on = ier] /\ \A i \in 1..7 : i # 6 => c[i] = a[i]
    BY <1>2, <2>1, <2>2
  <2> HIDE DEF a, c
  <2> QED BY <1>3, <2>3
<1> HIDE DEF a, b, c, d, k, ier
<1>6. /\ old \in Seq(Cell) /\ Len(old) = Len(s) + 8
      /\ new \in Seq(Cell) /\ Len(new) = Len(s) + 8 /\ Len(s) \in Nat
      /\ \A i \in 1..Len(s) + 8 :
            /\ old[i] = IF i <= Len(s) THEN s[i] ELSE IF i <= Len(s) + 7 THEN a[i - Len(s)]
                        ELSE b[1]
            /\ new[i] = IF i <= Len(s) THEN s[i] ELSE IF i <= Len(s) + 7 THEN c[i - Len(s)]
                        ELSE d[1]
  <2> DEFINE sa == s \o a
             sc == s \o c
  <2>1. /\ sa \in Seq(Cell) /\ Len(sa) = Len(s) + 7 /\ Len(s) \in Nat
        /\ \A i \in 1..Len(s) + 7 : sa[i] = IF i <= Len(s) THEN s[i] ELSE a[i - Len(s)]
    <3>1. Atop(sa, s, Len(s), a, 7)
      BY <1>3, ConcatLengths
    <3> QED BY <3>1 DEF Atop
  <2>2. /\ sc \in Seq(Cell) /\ Len(sc) = Len(s) + 7
        /\ \A i \in 1..Len(s) + 7 : sc[i] = IF i <= Len(s) THEN s[i] ELSE c[i - Len(s)]
    <3>1. Atop(sc, s, Len(s), c, 7)
      BY <1>3, ConcatLengths
    <3> QED BY <3>1 DEF Atop
  <2> HIDE DEF sa, sc
  <2>3. /\ sa \o b \in Seq(Cell) /\ Len(sa \o b) = Len(s) + 8
        /\ \A i \in 1..Len(s) + 8 :
              (sa \o b)[i] = IF i <= Len(s) + 7 THEN sa[i] ELSE b[i - (Len(s) + 7)]
    <3> DEFINE n == Len(s) + 7
    <3> HIDE DEF n
    <3>1. sa \in Seq(Cell) /\ Len(sa) = n
      BY <2>1 DEF n
    <3>2. /\ sa \o b \in Seq(Cell) /\ Len(sa \o b) = n + 1
          /\ \A i \in 1..n + 1 : (sa \o b)[i] = IF i <= n THEN sa[i] ELSE b[i - n]
      <4>1. Atop(sa \o b, sa, n, b, 1)
        BY <1>3, <3>1, ConcatLengths
      <4> QED BY <4>1 DEF Atop
    <3>3. n + 1 = Len(s) + 8
      BY <2>1 DEF n
    <3> QED BY <3>2, <3>3 DEF n
  <2>4. /\ sc \o d \in Seq(Cell) /\ Len(sc \o d) = Len(s) + 8
        /\ \A i \in 1..Len(s) + 8 :
              (sc \o d)[i] = IF i <= Len(s) + 7 THEN sc[i] ELSE d[i - (Len(s) + 7)]
    <3> DEFINE n == Len(s) + 7
    <3> HIDE DEF n
    <3>1. sc \in Seq(Cell) /\ Len(sc) = n
      BY <2>2 DEF n
    <3>2. /\ sc \o d \in Seq(Cell) /\ Len(sc \o d) = n + 1
          /\ \A i \in 1..n + 1 : (sc \o d)[i] = IF i <= n THEN sc[i] ELSE d[i - n]
      <4>1. Atop(sc \o d, sc, n, d, 1)
        BY <1>3, <3>1, ConcatLengths
      <4> QED BY <4>1 DEF Atop
    <3>3. n + 1 = Len(s) + 8
      BY <2>1 DEF n
    <3> QED BY <3>2, <3>3 DEF n
  <2>5. old = sa \o b /\ new = sc \o d
    BY DEF sa, sc
  <2> HIDE DEF old, new
  <2>6. ASSUME NEW i \in 1..Len(s) + 8
        PROVE  /\ old[i] = IF i <= Len(s) THEN s[i]
                           ELSE IF i <= Len(s) + 7 THEN a[i - Len(s)] ELSE b[1]
               /\ new[i] = IF i <= Len(s) THEN s[i]
                           ELSE IF i <= Len(s) + 7 THEN c[i - Len(s)] ELSE d[1]
    <3>1. CASE i <= Len(s) + 7
      BY <2>1, <2>2, <2>3, <2>4, <2>5, <3>1
    <3>2. CASE i = Len(s) + 8
      BY <2>1, <2>3, <2>4, <2>5, <3>2
    <3> QED BY <2>1, <3>1, <3>2
  <2> QED BY <2>1, <2>3, <2>4, <2>5, <2>6
<1> HIDE DEF old, new
<1>7. [old EXCEPT ![Len(old) - 2] = [@ EXCEPT !.on = ier]] = new
  <2> DEFINE over == [old EXCEPT ![Len(old) - 2] = [@ EXCEPT !.on = ier]]
  <2>1. /\ DOMAIN old = 1..Len(s) + 8 /\ DOMAIN new = 1..Len(s) + 8
        /\ Len(old) - 2 = Len(s) + 6
    BY <1>6
  <2>2. ASSUME NEW i \in 1..Len(s) + 8 PROVE over[i] = new[i]
    <3>1. CASE i = Len(s) + 6
      <4>1. /\ i - Len(s) = 6 /\ ~(i <= Len(s)) /\ i <= Len(s) + 7
        BY <1>6, <3>1
      <4>2. old[i] = a[6] /\ new[i] = c[6]
        BY <1>6, <4>1
      <4>3. over[i] = [a[6] EXCEPT !.on = ier]
        BY <2>1, <3>1, <4>2
      <4>4. c[6] = [a[6] EXCEPT !.on = ier]
        BY <1>3, <1>5
      <4> QED BY <4>2, <4>3, <4>4
    <3>2. CASE i # Len(s) + 6
      <4>1. over[i] = old[i]
        BY <2>1, <3>2
      <4>2. \A j \in 1..7 : j # 6 => c[j] = a[j]
        BY <1>3, <1>5
      <4>3. ASSUME i > Len(s), i <= Len(s) + 7 PROVE c[i - Len(s)] = a[i - Len(s)]
        <5>1. i - Len(s) \in 1..7 /\ i - Len(s) # 6
          BY <1>6, <3>2, <4>3
        <5> QED BY <4>2, <5>1
      <4> QED BY <1>4, <1>6, <4>1, <4>3
    <3> QED BY <3>1, <3>2
  <2>3. over = [i \in 1..Len(s) + 8 |-> over[i]] /\ new = [i \in 1..Len(s) + 8 |-> new[i]]
    <3>1. old \in [1..Len(old) -> Cell] /\ new \in [1..Len(new) -> Cell]
      BY <1>6, LenProperties
    <3>2. /\ old = [i \in 1..Len(s) + 8 |-> old[i]]
          /\ new = [i \in 1..Len(s) + 8 |-> new[i]]
      BY <1>6, <3>1
    <3> QED BY <2>1, <3>2
  <2> HIDE DEF over
  <2>4. over = new
    BY <2>2, <2>3
  <2> QED BY <2>4 DEF over
<1>8. OverwriteIER([reg |-> g, stk |-> old]) = [reg |-> g, stk |-> new]
  BY <1>7 DEF OverwriteIER, ier
<1> QED BY <1>8 DEF old, new, a, b, c, d, k, ier

(* A switch that restores a frame of the registers f gives them all back,  *)
(* but for INT1, which stays that of the CPU.                              *)
LEMMA RestoreFrame ==
    ASSUME NEW f \in Registers, NEW g \in Registers, NEW s \in Seq(Cell)
    PROVE  Iret(RestoreContext(Scratch([reg |-> g, stk |-> s \o FrameOf(f)])))
              = [reg |-> WithIER(f, g["DBGSTAT_IER"].on), stk |-> s]
<1> DEFINE g0 == Scratched(g)
           g1 == Pops(f, g0, FpuWords)
           g2 == Pops(f, g1, CpuLow)
           g3 == Scratched(g2)
           k  == WithIER(f, g3["DBGSTAT_IER"].on)
           g4 == Pops(k, g3, Ar1h)
           g5 == Pops(k, g4, HwWords)
           s1 == s \o Image(f, HwWords)
           s2 == s1 \o Image(f, Ar1h)
           s3 == s2 \o Image(f, CpuLow)
           t1 == s \o Image(k, HwWords)
           t2 == t1 \o Image(k, Ar1h)
<1>1. /\ s \o FrameOf(f) = s3 \o Image(f, FpuWords)
      /\ s1 \in Seq(Cell) /\ s2 \in Seq(Cell) /\ s3 \in Seq(Cell)
  <2> DEFINE a == Image(f, HwWords)
             b == Image(f, Ar1h)
             c == Image(f, CpuLow)
             d == Image(f, FpuWords)
             bc == b \o c
             a_bc == a \o bc
  <2>1. a \in Seq(Cell) /\ b \in Seq(Cell) /\ c \in Seq(Cell) /\ d \in Seq(Cell)
    BY ImageType, WordLists, RestoreLists
  <2>2. Image(f, CpuWords) = bc
    BY ImageConcat, RestoreLists
  <2>3. FrameOf(f) = a_bc \o d
    BY <2>2, FrameType
  <2> HIDE DEF a, b, c, d
  <2>4. bc \in Seq(Cell)
    BY <2>1, CellConcat
  <2>5. s1 \in Seq(Cell)
    BY <2>1, CellConcat DEF a
  <2>6. s2 \in Seq(Cell)
    BY <2>1, <2>5, CellConcat DEF b
  <2>7. s3 \in Seq(Cell)
    BY <2>1, <2>6, CellConcat DEF c
  <2>8. s3 = s1 \o bc
    BY <2>1, <2>5, CellAssociative DEF b, c
  <2> HIDE DEF bc, s3
  <2>9. a_bc \in Seq(Cell)
    BY <2>1, <2>4, CellConcat
  <2>10. s1 \o bc = s \o a_bc
    BY <2>1, <2>4, CellAssociative DEF a
  <2> HIDE DEF a_bc
  <2>11. s \o (a_bc \o d) = (s \o a_bc) \o d
    BY <2>1, <2>9, CellAssociative
  <2> QED BY <2>3, <2>5, <2>6, <2>7, <2>8, <2>10, <2>11 DEF d, s3
<1> DEFINE s4 == s3 \o Image(f, FpuWords)
<1>20. /\ s4 = s3 \o Image(f, FpuWords) /\ s3 = s2 \o Image(f, CpuLow)
       /\ s2 = s1 \o Image(f, Ar1h)
  OBVIOUS
<1> HIDE DEF s2, s3, s4
<1>2. g0 \in Registers /\ Scratch([reg |-> g, stk |-> s4]) = [reg |-> g0, stk |-> s4]
  BY ScratchStep
<1> HIDE DEF g0
<1>3. /\ Pop([reg |-> g0, stk |-> s4], Reverse(FpuWords)) = [reg |-> g1, stk |-> s3]
      /\ g1 \in Registers
  <2>1. PoppedTo(f, g0, s3, FpuWords, s4)
    BY <1>1, <1>2, <1>20, PopsStep, WordLists
  <2> QED BY <2>1 DEF PoppedTo
<1> HIDE DEF g1
<1>4. /\ Pop([reg |-> g1, stk |-> s3], Reverse(CpuLow)) = [reg |-> g2, stk |-> s2]
      /\ g2 \in Registers
  <2>1. PoppedTo(f, g1, s2, CpuLow, s3)
    BY <1>1, <1>3, <1>20, PopsStep, RestoreLists
  <2> QED BY <2>1 DEF PoppedTo
<1> HIDE DEF g2
<1>5. Scratch([reg |-> g2, stk |-> s2]) = [reg |-> g3, stk |-> s2] /\ g3 \in Registers
  BY <1>4, ScratchStep
<1> HIDE DEF g3
<1>6. OverwriteIER([reg |-> g3, stk |-> s2]) = [reg |-> g3, stk |-> t2]
  BY <1>5, IEROverwritten DEF s2
<1>7. k \in Registers /\ g3["DBGSTAT_IER"].on \in BOOLEAN
  <2>1. g3["DBGSTAT_IER"].on \in BOOLEAN
    BY <1>5, RestoreLists DEF Registers, Cell
  <2> QED BY <2>1, WithIERType
<1>8. t1 \in Seq(Cell)
  <2>1. Image(k, HwWords) \in Seq(Cell)
    BY <1>7, ImageType, WordLists
  <2> QED BY <2>1, CellConcat
<1>21. t2 = t1 \o Image(k, Ar1h) /\ t1 = s \o Image(k, HwWords)
  OBVIOUS
<1> HIDE DEF t1, t2, k
<1>9. /\ Pop([reg |-> g3, stk |-> t2], Reverse(Ar1h)) = [reg |-> g4, stk |-> t1]
      /\ g4 \in Registers
  <2>1. PoppedTo(k, g3, t1, Ar1h, t2)
    BY <1>5, <1>7, <1>8, <1>21, PopsStep, RestoreLists
  <2> QED BY <2>1 DEF PoppedTo
<1> HIDE DEF g4
<1>10. /\ Pop([reg |-> g4, stk |-> t1], Reverse(HwWords)) = [reg |-> g5, stk |-> s]
       /\ g5 \in Registers
  <2>1. PoppedTo(k, g4, s, HwWords, t1)
    BY <1>7, <1>9, <1>21, PopsStep, WordLists
  <2> QED BY <2>1 DEF PoppedTo
<1>11. RestoreContext([reg |-> g0, stk |-> s4]) = [reg |-> g4, stk |-> t1]
  <2> HIDE DEF s1
  <2> QED BY <1>3, <1>4, <1>5, <1>6, <1>9, RestoreLists DEF RestoreContext
<1>12. g3["DBGSTAT_IER"] = g["DBGSTAT_IER"]
  <2>1. /\ "DBGSTAT_IER" \in Words /\ "DBGSTAT_IER" \notin ToSet(FpuWords)
        /\ "DBGSTAT_IER" \notin ToSet(CpuLow)
    BY RestoreLists DEF ToSet, FpuWords, CpuLow
  <2> QED BY <2>1 DEF g0, g1, g2, g3, Pops, Scratched
<1>13. g5 = k
  <2>1. ASSUME NEW w \in Words PROVE g5[w] = k[w]
    <3>1. CASE w \in ToSet(HwWords)
      BY <3>1 DEF Pops
    <3>2. CASE w \notin ToSet(HwWords)
      <4>1. w # "DBGSTAT_IER" /\ w \notin {"T_ST0", "AH_AL", "AR1_AR0"}
        BY <3>2 DEF ToSet, HwWords
      <4>2. k[w] = f[w]
        <5> DEFINE ier == g3["DBGSTAT_IER"].on
        <5>1. ier \in BOOLEAN
          BY <1>7
        <5> HIDE DEF ier
        <5>2. \A v \in Words : v # "DBGSTAT_IER" => WithIER(f, ier)[v] = f[v]
          BY <5>1, WithIERType
        <5> QED BY <4>1, <5>2 DEF k, ier
      <4>3. g5[w] = g4[w]
        BY <3>2 DEF Pops
      <4>4. CASE w = "AR1H_AR0H"
        BY <4>3, <4>4, RestoreLists DEF g4, Pops
      <4>5. CASE w # "AR1H_AR0H"
        <5>1. g4[w] = g2[w]
          BY <4>1, <4>5, RestoreLists DEF g4, g3, Pops, Scratched
        <5>2. CASE w \in ToSet(CpuWords)
          BY <4>2, <4>3, <4>5, <5>1, <5>2, RestoreLists DEF g2, Pops
        <5>3. CASE w \in ToSet(FpuWords)
          <6>1. g1[w] = f[w]
            BY <5>3 DEF g1, Pops
          <6> QED BY <4>2, <4>3, <5>1, <6>1 DEF g2, Pops
        <5> QED BY <3>2, <5>2, <5>3, WordLists
      <4> QED BY <4>4, <4>5
    <3> QED BY <3>1, <3>2
  <2> HIDE DEF g5
  <2> QED BY <1>7, <1>10, <2>1 DEF Registers
<1>14. Iret([reg |-> g4, stk |-> t1]) = [reg |-> k, stk |-> s]
  BY <1>10, <1>13 DEF Iret
<1>15. s \o FrameOf(f) = s4
  BY <1>1, <1>20
<1> QED BY <1>2, <1>11, <1>12, <1>14, <1>15 DEF k

(* The return from an interrupt pops all the words that it has pushed.     *)
LEMMA ReturnFrame ==
    ASSUME NEW f \in Registers, NEW g \in Registers, NEW s \in Seq(Cell)
    PROVE  Pop([reg |-> g, stk |-> s \o FrameOf(f)], Reverse(HwWords \o CpuWords \o FpuWords))
              = [reg |-> f, stk |-> s]
<1>1. Pop([reg |-> g, stk |-> s \o FrameOf(f)], Reverse(ContextWords))
         = [reg |-> Pops(f, g, ContextWords), stk |-> s]
  <2>1. PoppedTo(f, g, s, ContextWords, s \o FrameOf(f))
    BY PopsStep, WordLists DEF FrameOf
  <2> QED BY <2>1 DEF PoppedTo
<1>2. Pops(f, g, ContextWords) = f
  BY WordLists DEF Pops, Registers
<1> QED BY <1>1, <1>2 DEF ContextWords

-----------------------------------------------------------------------------
\* Whose code the registers of t belong to, and those registers.
Code(t) == IF isrOwner = t THEN "isr" ELSE written[t]

File(t, intm, int1) == RegistersOf(<<t, Code(t)>>, intm, int1)

\* The registers that a tick has found in t, and what it left of them.
Interrupted(t) == RegistersOf(<<t, written[t]>>, FALSE, TRUE)

Base(t) == IF isrOwner = t THEN FrameOf(Interrupted(t)) ELSE <<>>

CpuTypeOK ==
    /\ written \in [Tasks -> {"start", "one", "two"}]
    /\ stack \in [Tasks -> Seq(Cell)]
    /\ PIEACK \in BOOLEAN
    /\ isrOwner \in Tasks \cup {NoOwner}

\* A task has the registers of its first context until its first call, and is
\* not interrupted before.
NewInv ==
    \A t \in Tasks :
        /\ pc[t] = "new" <=> written[t] = "start"
        /\ isrOwner = t => pc[t] # "new"

\* INTM is set in a new task and in the loop of mrtk_tick, INT1 is clear as
\* long as a tick has not been acknowledged.
MaskInv ==
    /\ PIEACK <=> isrOwner # NoOwner
    /\ ~MrtkRunning => reg = RegistersOf(<<NoOwner, "boot">>, FALSE, FALSE)
    /\ MrtkRunning =>
          reg = File(RunningTask, pc[RunningTask] = "new" \/ Ticking, isrOwner = NoOwner)

StackInv ==
    \A t \in Tasks :
        IF MrtkRunning /\ RunningTask = t
        THEN stack[t] = Base(t)
        ELSE \E intm, int1 \in BOOLEAN :
                /\ stack[t] = Base(t) \o FrameOf(File(t, intm, int1))
                /\ pc[t] = "new" => intm

CpuInv == CpuTypeOK /\ NewInv /\ MaskInv /\ StackInv

\* No task of MrtkContext is deleted.
NoneDeleted == \A t \in Tasks : State[t] # "SLEEPING"

ContextInv == IInv /\ NoneDeleted /\ CpuInv

-----------------------------------------------------------------------------
LEMMA Authors ==
    ASSUME NEW t \in Tasks, CpuTypeOK
    PROVE  /\ <<t, Code(t)>> \in (Tasks \cup {NoOwner}) \X Codes
           /\ <<t, written[t]>> \in (Tasks \cup {NoOwner}) \X Codes
           /\ <<t, "isr">> \in (Tasks \cup {NoOwner}) \X Codes
           /\ <<t, "start">> \in (Tasks \cup {NoOwner}) \X Codes
           /\ <<t, "one">> \in (Tasks \cup {NoOwner}) \X Codes
           /\ <<t, "two">> \in (Tasks \cup {NoOwner}) \X Codes
<1>1. Code(t) \in Codes /\ written[t] \in Codes
  BY DEF CpuTypeOK, Code, Codes
<1>2. {"isr", "start", "one", "two"} \subseteq Codes
  BY DEF Codes
<1> QED BY <1>1, <1>2

LEMMA BootAuthor == <<NoOwner, "boot">> \in (Tasks \cup {NoOwner}) \X Codes
  BY DEF Codes

LEMMA FileWritten ==
    ASSUME NEW t \in Tasks, CpuTypeOK, NEW intm \in BOOLEAN, NEW int1 \in BOOLEAN
    PROVE  WrittenBy(File(t, intm, int1), <<t, Code(t)>>, intm, int1)
  BY Authors, Written DEF File

LEMMA FileTypes ==
    ASSUME NEW t \in Tasks, CpuTypeOK
    PROVE  /\ \A intm, int1 \in BOOLEAN : File(t, intm, int1) \in Registers
           /\ Interrupted(t) \in Registers
           /\ Base(t) \in Seq(Cell)
<1>1. \A intm, int1 \in BOOLEAN : File(t, intm, int1) \in Registers
  BY FileWritten DEF WrittenBy
<1>2. Interrupted(t) \in Registers
  <2>1. WrittenBy(Interrupted(t), <<t, written[t]>>, FALSE, TRUE)
    BY Authors, Written DEF Interrupted
  <2> QED BY <2>1 DEF WrittenBy
<1>3. FrameOf(Interrupted(t)) \in Seq(Cell)
  BY <1>2, FrameType
<1>4. <<>> \in Seq(Cell)
  OBVIOUS
<1>5. Base(t) \in Seq(Cell)
  BY <1>3, <1>4 DEF Base
<1> QED BY <1>1, <1>2, <1>5

LEMMA FirstFrame ==
    ASSUME NEW f \in Registers
    PROVE  <<>> \o FrameOf(f) = FrameOf(f)
  BY FrameType, ConcatEmptySeq

\* run leaves a frame of its registers, hgh takes the frame of f from s.
Switched(run, hgh, f, s) ==
    /\ reg' = Resumed(WithIER(f, reg["DBGSTAT_IER"].on))
    /\ stack' = [stack EXCEPT ![run] = stack[run] \o FrameOf(reg), ![hgh] = s]

(* What the switch from one task to another does, in terms of frames.      *)
LEMMA SwitchFrames ==
    ASSUME NEW run \in Tasks, NEW hgh \in Tasks, run # hgh,
           reg \in Registers, stack \in [Tasks -> Seq(Cell)],
           NEW f \in Registers, NEW s \in Seq(Cell), stack[hgh] = s \o FrameOf(f),
           ContextSwitch(run, hgh)
    PROVE  Switched(run, hgh, f, s)
<1> DEFINE slept == SaveContext(Trap([reg |-> reg, stk |-> stack[run]]))
           runs == Iret(RestoreContext(Scratch([reg |-> slept.reg, stk |-> stack[hgh]])))
<1>1. /\ slept.stk = stack[run] \o FrameOf(reg)
      /\ slept.reg \in Registers
      /\ slept.reg["DBGSTAT_IER"] = reg["DBGSTAT_IER"]
  BY SaveFrame
<1>2. runs = [reg |-> WithIER(f, reg["DBGSTAT_IER"].on), stk |-> s]
  <2> DEFINE g == slept.reg
  <2>1. g \in Registers /\ g["DBGSTAT_IER"] = reg["DBGSTAT_IER"]
    BY <1>1
  <2> HIDE DEF slept, g
  <2>2. Iret(RestoreContext(Scratch([reg |-> g, stk |-> s \o FrameOf(f)])))
           = [reg |-> WithIER(f, g["DBGSTAT_IER"].on), stk |-> s]
    BY <2>1, RestoreFrame
  <2> QED BY <2>1, <2>2 DEF g
<1>3. reg' = Resumed(runs.reg) /\ stack' = [stack EXCEPT ![run] = slept.stk, ![hgh] = runs.stk]
  BY DEF ContextSwitch
<1> HIDE DEF slept, runs
<1> QED BY <1>1, <1>2, <1>3 DEF Switched

-----------------------------------------------------------------------------
\* What the CPU needs to know of the kernel.
KernelFacts ==
    /\ MrtkRunning => RunningTask \in Tasks
    /\ isrOwner \in Tasks \cup {NoOwner}
    /\ Ticking => MrtkRunning /\ isrOwner = RunningTask
    /\ ~MrtkRunning => ~Ticking /\ isrOwner = NoOwner /\ \A t \in Tasks : pc[t] = "new"
    /\ pc \in [Tasks -> {"new", "app", "wait"}]
    /\ count \in Int

LEMMA IInvFacts == IInv => KernelFacts
  BY DEF KernelFacts, IInv, TypeOK, TickInv, BootInv, Ticking

LEMMA IInvFactsAfter == IInv' => KernelFacts'
  BY IInvFacts, PTL

(* The registers of the running task, spelt out for a step that uses them. *)
LEMMA RunningFile ==
    ASSUME KernelFacts, CpuInv, MrtkRunning
    PROVE  /\ RunningTask \in Tasks
           /\ (pc[RunningTask] = "new" \/ Ticking) \in BOOLEAN
           /\ (isrOwner = NoOwner) \in BOOLEAN
           /\ reg \in Registers
           /\ INTM <=> pc[RunningTask] = "new" \/ Ticking
           /\ INT1 <=> isrOwner = NoOwner
           /\ INTM \in BOOLEAN /\ INT1 \in BOOLEAN
<1> DEFINE intm == pc[RunningTask] = "new" \/ Ticking
           int1 == isrOwner = NoOwner
<1>1. RunningTask \in Tasks /\ intm \in BOOLEAN /\ int1 \in BOOLEAN
  BY DEF KernelFacts
<1>2. reg = RegistersOf(<<RunningTask, Code(RunningTask)>>, intm, int1)
  BY DEF CpuInv, MaskInv, File
<1>3. <<RunningTask, Code(RunningTask)>> \in (Tasks \cup {NoOwner}) \X Codes
  BY <1>1, Authors DEF CpuInv
<1> HIDE DEF intm, int1
<1>4. reg \in Registers /\ reg["DP_ST1"].on = intm /\ reg["DBGSTAT_IER"].on = int1
  <2>1. WrittenBy(reg, <<RunningTask, Code(RunningTask)>>, intm, int1)
    BY <1>1, <1>2, <1>3, Written
  <2> QED BY <2>1 DEF WrittenBy
<1> QED BY <1>1, <1>4 DEF intm, int1, INTM, INT1

(* A step of the kernel that changes no register, no stack and nothing of  *)
(* what the masks stand for.                                               *)
LEMMA CpuUntouched ==
    ASSUME CpuInv, UNCHANGED cpu, KernelFacts, KernelFacts',
           UNCHANGED <<MrtkRunning, RunningTask, isrOwner, pc>>, Ticking' <=> Ticking
    PROVE  CpuInv'
<1>1. UNCHANGED <<reg, stack, PIEACK, written>>
  BY DEF cpu
<1>2. CpuTypeOK'
  BY <1>1 DEF CpuInv, CpuTypeOK
<1>3. NewInv'
  BY <1>1 DEF CpuInv, NewInv
<1>4. MaskInv'
  BY <1>1 DEF CpuInv, MaskInv, File, Code
<1>5. StackInv'
  BY <1>1 DEF CpuInv, StackInv, File, Code, Base, Interrupted
<1> QED BY <1>2, <1>3, <1>4, <1>5 DEF CpuInv

(* mrtk_sched with what it does to the CPU, at the end of mrtk_wait and of  *)
(* a tick.                                                                 *)
LEMMA SchedContextCpu ==
    ASSUME CpuInv, KernelFacts, KernelFacts', MrtkRunning, MrtkRunning',
           UNCHANGED isrOwner, ~Ticking',
           \A t \in Tasks : pc'[t] = "new" <=> pc[t] = "new",
           pc[RunningTask] # "new",
           SchedContext
    PROVE  CpuInv'
<1> PICK run \in Tasks : run = RunningTask
  BY DEF KernelFacts
<1> PICK hgh \in Tasks : hgh = RunningTask'
  BY DEF KernelFacts
<1> PICK ier \in BOOLEAN : ier = (isrOwner = NoOwner)
  OBVIOUS
<1> PICK intm \in BOOLEAN : intm = (pc[run] = "new" \/ Ticking)
  OBVIOUS
<1>1. /\ run = RunningTask /\ hgh = RunningTask' /\ ier = (isrOwner = NoOwner)
      /\ intm = (pc[run] = "new" \/ Ticking)
  OBVIOUS
<1>2. UNCHANGED <<PIEACK, written>>
  BY DEF SchedContext
<1>3. reg = File(run, intm, ier) /\ stack[run] = Base(run)
  BY <1>1 DEF CpuInv, MaskInv, StackInv
<1>4. \A t \in Tasks : /\ Code(t)' = Code(t) /\ Base(t)' = Base(t)
                       /\ \A i, j \in BOOLEAN : File(t, i, j)' = File(t, i, j)
  BY <1>2 DEF Code, Base, File, Interrupted
<1>5. reg \in Registers /\ reg["DBGSTAT_IER"].on = ier
  BY RunningFile DEF INT1
<1>6. NewInv'
  BY <1>2 DEF CpuInv, NewInv
<1>7. PIEACK' <=> isrOwner' # NoOwner
  BY <1>2 DEF CpuInv, MaskInv
<1>8. CASE hgh = run
  <2>1. reg' = Eint(reg) /\ stack' = stack
    BY <1>8 DEF SchedContext
  <2>2. reg' = File(run, FALSE, ier)
    <3>1. WrittenBy(reg, <<run, Code(run)>>, intm, ier)
      BY <1>3, FileWritten DEF CpuInv
    <3> QED BY <2>1, <3>1 DEF WrittenBy, File
  <2>3. MaskInv'
    BY <1>1, <1>4, <1>7, <1>8, <2>2 DEF MaskInv
  <2>4. StackInv'
    <3>1. ASSUME NEW t \in Tasks, t # run
          PROVE  \E i, j \in BOOLEAN : /\ stack'[t] = Base(t)' \o FrameOf(File(t, i, j)')
                                       /\ pc'[t] = "new" => i
      <4>1. PICK m \in BOOLEAN, n \in BOOLEAN :
              stack[t] = Base(t) \o FrameOf(File(t, m, n)) /\ (pc[t] = "new" => m)
        BY <1>1, <3>1 DEF CpuInv, StackInv
      <4>2. /\ Base(t)' = Base(t) /\ File(t, m, n)' = File(t, m, n)
            /\ pc'[t] = "new" <=> pc[t] = "new"
        BY <1>4
      <4>3. stack'[t] = stack[t]
        BY <1>4, <2>1
      <4> QED BY <4>1, <4>2, <4>3
    <3>2. stack'[run] = Base(run)'
      BY <1>1, <1>3, <1>4, <2>1
    <3> QED BY <1>8, <3>1, <3>2 DEF StackInv, FrameOf, Image, File
  <2>5. CpuTypeOK'
    BY <1>2, <2>1 DEF CpuInv, CpuTypeOK
  <2> QED BY <1>6, <2>3, <2>4, <2>5 DEF CpuInv
<1>9. CASE hgh # run
  <2>1. PICK i \in BOOLEAN, j \in BOOLEAN :
              /\ stack[hgh] = Base(hgh) \o FrameOf(File(hgh, i, j))
              /\ pc[hgh] = "new" => i
    BY <1>1, <1>9 DEF CpuInv, StackInv
  <2> DEFINE f == File(hgh, i, j)
             s == Base(hgh)
  <2>2. f \in Registers /\ s \in Seq(Cell)
    BY <1>1, FileTypes DEF CpuInv
  <2>3. ContextSwitch(run, hgh)
    BY <1>9 DEF SchedContext
  <2>4. stack \in [Tasks -> Seq(Cell)]
    BY DEF CpuInv, CpuTypeOK
  <2>5. /\ reg' = Resumed(WithIER(f, ier))
        /\ stack' = [stack EXCEPT ![run] = stack[run] \o FrameOf(reg), ![hgh] = s]
    <3> HIDE DEF f, s
    <3>1. stack[hgh] = s \o FrameOf(f)
      BY <2>1 DEF f, s
    <3>2. Switched(run, hgh, f, s)
      BY <1>5, <1>9, <2>2, <2>3, <2>4, <3>1, SwitchFrames
    <3> QED BY <1>5, <3>2 DEF Switched
  <2>6. WithIER(f, ier) = File(hgh, i, ier)
    <3>1. WrittenBy(f, <<hgh, Code(hgh)>>, i, j)
      BY FileWritten DEF CpuInv
    <3> QED BY <3>1 DEF WrittenBy, WithIER, File
  <2>7. /\ File(hgh, i, ier)["PC"].by = <<hgh, Code(hgh)>>
        /\ Eint(File(hgh, i, ier)) = File(hgh, FALSE, ier)
    <3>1. WrittenBy(File(hgh, i, ier), <<hgh, Code(hgh)>>, i, ier)
      BY FileWritten DEF CpuInv
    <3> QED BY <3>1 DEF WrittenBy, File
  <2>14. Resumed(File(hgh, i, ier)) = IF Code(hgh) = "start" THEN File(hgh, i, ier)
                                      ELSE File(hgh, FALSE, ier)
    <3> DEFINE F == File(hgh, i, ier)
    <3> HIDE DEF F
    <3>1. F["PC"].by[2] = Code(hgh)
      BY <2>7 DEF F
    <3>2. Eint(F) = File(hgh, FALSE, ier)
      BY <2>7 DEF F
    <3> QED BY <3>1, <3>2 DEF F, Resumed
  <2>8. Code(hgh) = "start" <=> pc[hgh] = "new"
    BY <1>1 DEF Code, CpuInv, NewInv
  <2>9. reg' = File(hgh, pc[hgh] = "new", ier)
    <3>1. CASE pc[hgh] = "new"
      <4>1. reg' = File(hgh, i, ier) /\ i = TRUE
        BY <2>1, <2>5, <2>6, <2>8, <2>14, <3>1
      <4> QED BY <3>1, <4>1
    <3>2. CASE pc[hgh] # "new"
      BY <2>5, <2>6, <2>8, <2>14, <3>2
    <3> QED BY <3>1, <3>2
  <2>10. MaskInv'
    <3>1. pc'[hgh] = "new" <=> pc[hgh] = "new"
      BY <1>1
    <3> QED BY <1>1, <1>4, <1>7, <2>9, <3>1 DEF MaskInv
  <2>11. /\ stack'[hgh] = Base(hgh)
         /\ stack'[run] = Base(run) \o FrameOf(File(run, intm, ier))
         /\ \A t \in Tasks : t # run /\ t # hgh => stack'[t] = stack[t]
    BY <1>1, <1>3, <1>9, <2>4, <2>5
  <2>12. StackInv'
    <3>1. ASSUME NEW t \in Tasks, t # hgh
          PROVE  \E m, n \in BOOLEAN : /\ stack'[t] = Base(t)' \o FrameOf(File(t, m, n)')
                                       /\ pc'[t] = "new" => m
      <4>1. CASE t = run
        BY <1>1, <1>4, <2>11, <4>1
      <4>2. CASE t # run
        <5>1. PICK m \in BOOLEAN, n \in BOOLEAN :
                stack[t] = Base(t) \o FrameOf(File(t, m, n)) /\ (pc[t] = "new" => m)
          BY <1>1, <4>2 DEF CpuInv, StackInv
        <5>2. /\ Base(t)' = Base(t) /\ File(t, m, n)' = File(t, m, n)
              /\ pc'[t] = "new" <=> pc[t] = "new"
          BY <1>4
        <5>3. stack'[t] = stack[t]
          BY <1>4, <2>11, <3>1, <4>2
        <5> QED BY <5>1, <5>2, <5>3
      <4> QED BY <4>1, <4>2
    <3>2. stack'[hgh] = Base(hgh)'
      BY <1>1, <1>4, <2>11
    <3> QED BY <3>1, <3>2 DEF StackInv, FrameOf, Image, File
  <2>13. CpuTypeOK'
    <3>1. stack[run] \o FrameOf(reg) \in Seq(Cell)
      BY <1>1, <1>5, <2>4, FrameType, CellConcat
    <3>2. stack' \in [Tasks -> Seq(Cell)]
      BY <1>1, <2>2, <2>4, <2>5, <3>1
    <3> QED BY <1>2, <3>2 DEF CpuInv, CpuTypeOK
  <2> QED BY <1>6, <2>10, <2>12, <2>13 DEF CpuInv
<1> QED BY <1>8, <1>9

-----------------------------------------------------------------------------
\* No file of a task depends on what changes for another task.
SameFile(t) ==
    /\ Code(t)' = Code(t) /\ Base(t)' = Base(t)
    /\ \A i, j \in BOOLEAN : File(t, i, j)' = File(t, i, j)

LEMMA SwitchedOutKept ==
    ASSUME StackInv, NEW t \in Tasks, ~(MrtkRunning /\ RunningTask = t),
           SameFile(t), stack'[t] = stack[t], pc'[t] = "new" => pc[t] = "new"
    PROVE  \E m, n \in BOOLEAN : /\ stack'[t] = Base(t)' \o FrameOf(File(t, m, n)')
                                 /\ pc'[t] = "new" => m
<1>1. PICK m \in BOOLEAN, n \in BOOLEAN :
         stack[t] = Base(t) \o FrameOf(File(t, m, n)) /\ (pc[t] = "new" => m)
  BY DEF StackInv
<1> QED BY <1>1 DEF SameFile

LEMMA StartCpu ==
    ASSUME CpuInv, KernelFacts, KernelFacts', Starthghrdyprio
    PROVE  CpuInv'
<1> PICK hgh \in Tasks : hgh = RunningTask'
  BY DEF KernelFacts, Starthghrdyprio, Start
<1>1. /\ hgh = RunningTask' /\ ~MrtkRunning /\ MrtkRunning'
      /\ UNCHANGED <<PIEACK, written, isrOwner, pc, count>>
      /\ isrOwner = NoOwner /\ ~Ticking /\ \A t \in Tasks : pc[t] = "new"
  BY DEF Starthghrdyprio, Start, KernelFacts, isr
<1>2. PICK i \in BOOLEAN, j \in BOOLEAN :
         stack[hgh] = Base(hgh) \o FrameOf(File(hgh, i, j)) /\ (pc[hgh] = "new" => i)
  BY <1>1 DEF CpuInv, StackInv
<1>3. i = TRUE
  BY <1>1, <1>2
<1> DEFINE s == Base(hgh)
           f == File(hgh, i, j)
           runs == Iret(RestoreContext(Scratch([reg |-> systick_init, stk |-> stack[hgh]])))
<1>4. /\ systick_init \in Registers /\ systick_init["DBGSTAT_IER"].on = TRUE
      /\ f \in Registers /\ s \in Seq(Cell)
  <2>1. WrittenBy(systick_init, <<NoOwner, "boot">>, FALSE, TRUE)
    BY BootAuthor, Written DEF systick_init
  <2> QED BY <2>1, FileTypes DEF WrittenBy, CpuInv
<1>5. runs = [reg |-> WithIER(f, TRUE), stk |-> s]
  <2> DEFINE g == systick_init
  <2> HIDE DEF g, f, s
  <2>1. g \in Registers /\ g["DBGSTAT_IER"].on = TRUE /\ f \in Registers /\ s \in Seq(Cell)
        /\ stack[hgh] = s \o FrameOf(f)
    BY <1>2, <1>4 DEF g, f, s
  <2>2. Iret(RestoreContext(Scratch([reg |-> g, stk |-> s \o FrameOf(f)])))
           = [reg |-> WithIER(f, g["DBGSTAT_IER"].on), stk |-> s]
    BY <2>1, RestoreFrame
  <2> QED BY <2>1, <2>2 DEF g
<1>6. WithIER(f, TRUE) = File(hgh, TRUE, TRUE)
  <2>1. WrittenBy(f, <<hgh, Code(hgh)>>, TRUE, j)
    BY <1>3, FileWritten DEF CpuInv
  <2> QED BY <2>1 DEF WrittenBy, WithIER, File
<1>7. reg' = File(hgh, TRUE, TRUE) /\ stack' = [stack EXCEPT ![hgh] = s]
  <2>1. reg' = runs.reg /\ stack' = [stack EXCEPT ![hgh] = runs.stk]
    BY <1>1 DEF Starthghrdyprio
  <2> HIDE DEF runs, f
  <2> QED BY <1>5, <1>6, <2>1
<1>8. \A t \in Tasks : SameFile(t)
  BY <1>1 DEF SameFile, Code, Base, File, Interrupted
<1>9. stack \in [Tasks -> Seq(Cell)]
  BY DEF CpuInv, CpuTypeOK
<1>10. CpuTypeOK'
  BY <1>1, <1>4, <1>7, <1>9 DEF CpuInv, CpuTypeOK
<1>11. NewInv'
  BY <1>1 DEF CpuInv, NewInv
<1>12. MaskInv'
  <2>1. reg' = File(hgh, TRUE, TRUE)'
    BY <1>7, <1>8 DEF SameFile
  <2>2. /\ pc'[RunningTask'] = "new" \/ Ticking'
        /\ isrOwner' = NoOwner /\ (PIEACK' <=> isrOwner' # NoOwner)
    BY <1>1 DEF CpuInv, MaskInv
  <2> QED BY <1>1, <2>1, <2>2 DEF MaskInv
<1>13. StackInv'
  <2>1. ASSUME NEW t \in Tasks, t # hgh
        PROVE  \E m, n \in BOOLEAN : /\ stack'[t] = Base(t)' \o FrameOf(File(t, m, n)')
                                     /\ pc'[t] = "new" => m
    <3>1. stack'[t] = stack[t] /\ pc'[t] = pc[t]
      BY <1>1, <1>7, <2>1
    <3> QED BY <1>1, <1>8, <3>1, SwitchedOutKept DEF CpuInv
  <2>2. stack'[hgh] = Base(hgh)'
    BY <1>7, <1>8, <1>9 DEF SameFile
  <2> QED BY <1>1, <2>1, <2>2 DEF StackInv, FrameOf, Image, File
<1> QED BY <1>10, <1>11, <1>12, <1>13 DEF CpuInv

(* A critical section of a task, and the code of its own around it.        *)
LEMMA ComputeCpu ==
    ASSUME CpuInv, KernelFacts, KernelFacts', NEW t \in Tasks, InTask(t), Compute(t),
           UNCHANGED <<MrtkRunning, RunningTask, isrOwner, count>>,
           pc'[t] # "new", \A u \in Tasks : u # t => pc'[u] = pc[u]
    PROVE  CpuInv'
<1>1. RunningTask = t /\ MrtkRunning /\ isrOwner # t /\ ~Ticking /\ ~Ticking'
      /\ RunningTask' = t /\ MrtkRunning'
  BY DEF InTask, KernelFacts, Ticking
<1>2. PICK v \in {"one", "two"} :
         /\ written' = [written EXCEPT ![t] = v]
         /\ reg' = Eint(RegistersOf(<<t, v>>, INTM, INT1))
         /\ UNCHANGED <<stack, PIEACK>>
  BY DEF Compute
<1>3. reg' = RegistersOf(<<t, v>>, FALSE, INT1)
  <2>1. INTM \in BOOLEAN /\ INT1 \in BOOLEAN
    BY <1>1, RunningFile
  <2>2. <<t, v>> \in (Tasks \cup {NoOwner}) \X Codes
    BY Authors DEF CpuInv
  <2>3. WrittenBy(RegistersOf(<<t, v>>, INTM, INT1), <<t, v>>, INTM, INT1)
    BY <2>1, <2>2, Written
  <2> QED BY <1>2, <2>3 DEF WrittenBy
<1>4. INT1 = (isrOwner = NoOwner)
  BY <1>1, RunningFile
<1>5. written'[t] = v /\ \A u \in Tasks : u # t => written'[u] = written[u]
  BY <1>2 DEF CpuInv, CpuTypeOK
<1>6. Code(t)' = v /\ Base(t)' = Base(t)
  BY <1>1, <1>5 DEF Code, Base
<1>7. \A u \in Tasks : u # t => SameFile(u)
  BY <1>5 DEF SameFile, Code, Base, File, Interrupted
<1>8. CpuTypeOK'
  BY <1>2 DEF CpuInv, CpuTypeOK
<1>9. NewInv'
  BY <1>1, <1>5 DEF CpuInv, NewInv
<1>10. MaskInv'
  <2>1. PIEACK' <=> isrOwner' # NoOwner
    BY <1>2 DEF CpuInv, MaskInv
  <2>2. reg' = File(t, FALSE, isrOwner = NoOwner)'
    BY <1>3, <1>4, <1>6 DEF File
  <2> QED BY <1>1, <2>1, <2>2 DEF MaskInv
<1>11. StackInv'
  <2>1. ASSUME NEW u \in Tasks, u # t
        PROVE  \E m, n \in BOOLEAN : /\ stack'[u] = Base(u)' \o FrameOf(File(u, m, n)')
                                     /\ pc'[u] = "new" => m
    <3>1. stack'[u] = stack[u] /\ pc'[u] = pc[u]
      BY <1>2, <2>1
    <3> QED BY <1>1, <1>7, <2>1, <3>1, SwitchedOutKept DEF CpuInv
  <2>2. stack'[t] = Base(t)'
    BY <1>1, <1>2, <1>6 DEF CpuInv, StackInv
  <2> QED BY <1>1, <2>1, <2>2 DEF StackInv, FrameOf, Image, File
<1> QED BY <1>8, <1>9, <1>10, <1>11 DEF CpuInv

(* The gates of the CPU are open only where the kernel may take a tick.    *)
LEMMA OpenGates ==
    ASSUME CpuInv, KernelFacts, TickOpen
    PROVE  /\ MrtkRunning /\ isrOwner = NoOwner /\ pc[RunningTask] # "new"
           /\ RunningTask \in Tasks /\ ~Ticking
<1>1. MrtkRunning
  <2>1. ASSUME ~MrtkRunning PROVE FALSE
    <3>1. WrittenBy(reg, <<NoOwner, "boot">>, FALSE, FALSE)
      BY <2>1, BootAuthor, Written DEF CpuInv, MaskInv
    <3> QED BY <3>1 DEF WrittenBy, TickOpen, INT1
  <2> QED BY <2>1
<1> QED BY <1>1, RunningFile DEF TickOpen

LEMMA TickInterruptCpu ==
    ASSUME CpuInv, KernelFacts, KernelFacts', TickInterrupt
    PROVE  CpuInv'
<1>1. /\ MrtkRunning /\ isrOwner = NoOwner /\ pc[RunningTask] # "new"
      /\ RunningTask \in Tasks /\ ~Ticking
  BY OpenGates DEF TickInterrupt
<1> PICK t \in Tasks : t = RunningTask
  BY <1>1
<1>2. /\ t = RunningTask /\ RunningTask' = t /\ isrOwner' = t /\ MrtkRunning'
      /\ count' = 0 /\ PIEACK' = TRUE /\ UNCHANGED <<written, pc>>
  BY <1>1 DEF TickInterrupt, TickTaken, sched, boot
<1>3. Ticking'
  BY <1>2, TaskNumbers DEF Ticking, NotTicking
<1>4. isrOwner # t /\ t # NoOwner
  BY <1>1, TaskNumbers
<1>5. reg = File(t, FALSE, TRUE) /\ stack[t] = <<>>
  <2>1. reg = File(t, FALSE, TRUE)
    BY <1>1, <1>2 DEF CpuInv, MaskInv
  <2>2. stack[t] = Base(t)
    BY <1>1, <1>2 DEF CpuInv, StackInv
  <2> QED BY <1>4, <2>1, <2>2 DEF Base
<1>6. reg = Interrupted(t) /\ reg \in Registers
  BY <1>4, <1>5, FileTypes DEF File, Code, Interrupted, CpuInv
<1>7. stack' = [stack EXCEPT ![t] = FrameOf(Interrupted(t))]
  <2> DEFINE m == [reg |-> reg, stk |-> stack[t]]
  <2>1. Push(m, ContextWords).stk = stack[t] \o FrameOf(reg)
    <3>1. Push(m, ContextWords) = [reg |-> reg, stk |-> stack[t] \o FrameOf(reg)]
      BY Pushed, Zenon DEF FrameOf
    <3> HIDE DEF m
    <3> QED BY <3>1
  <2>2. stack[t] \o FrameOf(reg) = FrameOf(Interrupted(t))
    BY <1>5, <1>6, FirstFrame
  <2>3. stack' = [stack EXCEPT ![t] = Push(m, ContextWords).stk]
    BY <1>2 DEF TickInterrupt, ContextWords
  <2> QED BY <2>1, <2>2, <2>3
<1>8. reg' = RegistersOf(<<t, "isr">>, TRUE, FALSE)
  <2>1. reg' = Dint(RegistersOf(<<t, "isr">>, INTM, FALSE))
    BY <1>2 DEF TickInterrupt
  <2>2. INTM \in BOOLEAN /\ <<t, "isr">> \in (Tasks \cup {NoOwner}) \X Codes
    BY <1>1, RunningFile, Authors DEF CpuInv
  <2>3. WrittenBy(RegistersOf(<<t, "isr">>, INTM, FALSE), <<t, "isr">>, INTM, FALSE)
    BY <2>2, Written
  <2> QED BY <2>1, <2>3 DEF WrittenBy
<1>9. Code(t)' = "isr" /\ Base(t)' = FrameOf(Interrupted(t))
  BY <1>2 DEF Code, Base, Interrupted
<1>10. \A u \in Tasks : u # t => SameFile(u)
  BY <1>1, <1>2, TaskNumbers DEF SameFile, Code, Base, File, Interrupted
<1>11. CpuTypeOK'
  <2>1. FrameOf(Interrupted(t)) \in Seq(Cell)
    BY <1>6, FrameType
  <2> QED BY <1>2, <1>7, <2>1 DEF CpuInv, CpuTypeOK
<1>12. NewInv'
  BY <1>1, <1>2 DEF CpuInv, NewInv
<1>13. MaskInv'
  <2>1. reg' = File(t, TRUE, FALSE)'
    BY <1>8, <1>9 DEF File
  <2>2. isrOwner' # NoOwner
    BY <1>2, <1>4
  <2> QED BY <1>2, <1>3, <2>1, <2>2 DEF MaskInv
<1>14. StackInv'
  <2>1. ASSUME NEW u \in Tasks, u # t
        PROVE  \E m, n \in BOOLEAN : /\ stack'[u] = Base(u)' \o FrameOf(File(u, m, n)')
                                     /\ pc'[u] = "new" => m
    <3>1. stack'[u] = stack[u] /\ pc'[u] = pc[u]
      BY <1>2, <1>7, <2>1 DEF CpuInv, CpuTypeOK
    <3> QED BY <1>2, <1>10, <2>1, <3>1, SwitchedOutKept DEF CpuInv
  <2>2. stack'[t] = Base(t)'
    BY <1>7, <1>9 DEF CpuInv, CpuTypeOK
  <2> QED BY <1>2, <2>1, <2>2 DEF StackInv, FrameOf, Image, File
<1> QED BY <1>11, <1>12, <1>13, <1>14 DEF CpuInv

LEMMA TickReturnCpu ==
    ASSUME CpuInv, KernelFacts, KernelFacts', TickReturn
    PROVE  CpuInv'
<1>1. /\ ~Ticking /\ isrOwner # NoOwner /\ RunningTask = isrOwner /\ isrOwner' = NoOwner
      /\ UNCHANGED <<written, pc, count, RunningTask, MrtkRunning>> /\ PIEACK' = FALSE
  BY DEF TickReturn, AckTick, sched, boot
<1> PICK t \in Tasks : t = isrOwner
  BY <1>1 DEF KernelFacts
<1>2. /\ t = isrOwner /\ t = RunningTask /\ MrtkRunning /\ t # NoOwner
      /\ RunningTask' = t /\ MrtkRunning' /\ ~Ticking'
  BY <1>1 DEF KernelFacts, Ticking
<1>3. stack[t] = FrameOf(Interrupted(t)) /\ reg \in Registers /\ Interrupted(t) \in Registers
  <2>1. stack[t] = Base(t)
    BY <1>2 DEF CpuInv, StackInv
  <2> QED BY <1>2, <2>1, RunningFile, FileTypes DEF Base, CpuInv
<1>4. reg' = Interrupted(t) /\ stack' = [stack EXCEPT ![t] = <<>>]
  <2> DEFINE f == Interrupted(t)
             back == Pop([reg |-> reg, stk |-> stack[t]],
                         Reverse(HwWords \o CpuWords \o FpuWords))
  <2>1. stack[t] = <<>> \o FrameOf(f) /\ <<>> \in Seq(Cell)
    BY <1>3, FirstFrame
  <2>2. back = [reg |-> f, stk |-> <<>>]
    <3> HIDE DEF f
    <3>1. f \in Registers
      BY <1>3 DEF f
    <3>2. Pop([reg |-> reg, stk |-> <<>> \o FrameOf(f)],
              Reverse(HwWords \o CpuWords \o FpuWords)) = [reg |-> f, stk |-> <<>>]
      BY <1>3, <2>1, <3>1, ReturnFrame
    <3> QED BY <2>1, <3>2
  <2>3. reg' = back.reg /\ stack' = [stack EXCEPT ![t] = back.stk]
    BY <1>2 DEF TickReturn
  <2> HIDE DEF back, f
  <2>4. reg' = f /\ stack' = [stack EXCEPT ![t] = <<>>]
    BY <2>2, <2>3
  <2> QED BY <2>4 DEF f
<1>5. Code(t)' = written[t] /\ Base(t)' = <<>>
  BY <1>1, <1>2 DEF Code, Base
<1>6. \A u \in Tasks : u # t => SameFile(u)
  BY <1>1, <1>2, TaskNumbers DEF SameFile, Code, Base, File, Interrupted
<1>7. CpuTypeOK'
  <2>1. <<>> \in Seq(Cell) /\ stack \in [Tasks -> Seq(Cell)]
    BY DEF CpuInv, CpuTypeOK
  <2>2. stack' \in [Tasks -> Seq(Cell)]
    BY <1>4, <2>1
  <2> QED BY <1>1, <2>2 DEF CpuInv, CpuTypeOK
<1>8. NewInv'
  BY <1>1, TaskNumbers DEF CpuInv, NewInv
<1>9. pc[t] # "new"
  BY <1>2 DEF CpuInv, NewInv
<1>10. MaskInv'
  <2>1. reg' = File(t, FALSE, TRUE)'
    BY <1>4, <1>5 DEF File, Interrupted
  <2> QED BY <1>1, <1>2, <1>9, <2>1 DEF MaskInv
<1>11. StackInv'
  <2>1. ASSUME NEW u \in Tasks, u # t
        PROVE  \E m, n \in BOOLEAN : /\ stack'[u] = Base(u)' \o FrameOf(File(u, m, n)')
                                     /\ pc'[u] = "new" => m
    <3>1. stack'[u] = stack[u] /\ pc'[u] = pc[u]
      BY <1>1, <1>4, <2>1 DEF CpuInv, CpuTypeOK
    <3> QED BY <1>2, <1>6, <2>1, <3>1, SwitchedOutKept DEF CpuInv
  <2>2. stack'[t] = Base(t)'
    BY <1>4, <1>5 DEF CpuInv, CpuTypeOK
  <2> QED BY <1>2, <2>1, <2>2 DEF StackInv, FrameOf, Image, File
<1> QED BY <1>7, <1>8, <1>10, <1>11 DEF CpuInv

-----------------------------------------------------------------------------
LEMMA InitCpu ==
    ASSUME ContextInit, KernelFacts
    PROVE  CpuInv
<1>1. ~MrtkRunning /\ isrOwner = NoOwner /\ \A t \in Tasks : pc[t] = "new"
  BY DEF ContextInit, Init
<1>2. \A t \in Tasks : t # NoOwner
  BY TaskNumbers
<1>3. ASSUME NEW t \in Tasks
      PROVE  /\ RegistersOf(<<t, "start">>, TRUE, FALSE) \in Registers
             /\ stack[t] = <<>> \o FrameOf(RegistersOf(<<t, "start">>, TRUE, FALSE))
  <2> DEFINE f == RegistersOf(<<t, "start">>, TRUE, FALSE)
             m == [reg |-> f, stk |-> <<>>]
  <2>1. <<t, "start">> \in (Tasks \cup {NoOwner}) \X Codes
    BY DEF Codes
  <2>2. f \in Registers
    <3>1. WrittenBy(f, <<t, "start">>, TRUE, FALSE)
      BY <2>1, Written
    <3> QED BY <3>1 DEF WrittenBy
  <2>3. stack[t] = Push(m, ContextWords).stk
    BY DEF ContextInit, mrtk_taskcontextinit, ContextWords
  <2> HIDE DEF f
  <2>4. Push(m, ContextWords) = [reg |-> f, stk |-> <<>> \o FrameOf(f)]
    BY Pushed, Zenon DEF FrameOf
  <2> HIDE DEF m
  <2>5. f \in Registers /\ stack[t] = <<>> \o FrameOf(f)
    BY <2>2, <2>3, <2>4
  <2> QED BY <2>5 DEF f
<1>4. CpuTypeOK
  <2>1. \A t \in Tasks : stack[t] \in Seq(Cell)
    <3> TAKE t \in Tasks
    <3> DEFINE f == RegistersOf(<<t, "start">>, TRUE, FALSE)
    <3>1. f \in Registers /\ stack[t] = <<>> \o FrameOf(f)
      BY <1>3
    <3> HIDE DEF f
    <3> QED BY <3>1, FirstFrame, FrameType
  <2>2. stack = [t \in Tasks |-> mrtk_taskcontextinit(t)]
    BY DEF ContextInit
  <2>3. stack \in [Tasks -> Seq(Cell)]
    BY <2>1, <2>2
  <2> QED BY <1>1, <2>3 DEF ContextInit, CpuTypeOK
<1>5. NewInv
  BY <1>1, <1>2 DEF NewInv, ContextInit
<1>6. MaskInv
  BY <1>1 DEF MaskInv, ContextInit
<1>7. StackInv
  <2>1. ASSUME NEW t \in Tasks
        PROVE  \E intm, int1 \in BOOLEAN : /\ stack[t] = Base(t) \o FrameOf(File(t, intm, int1))
                                           /\ pc[t] = "new" => intm
    <3>1. Base(t) = <<>> /\ File(t, TRUE, FALSE) = RegistersOf(<<t, "start">>, TRUE, FALSE)
      BY <1>1, <1>2 DEF Base, File, Code, ContextInit
    <3> QED BY <1>3, <3>1
  <2> QED BY <1>1, <2>1 DEF StackInv
<1> QED BY <1>4, <1>5, <1>6, <1>7 DEF CpuInv

(* No step of MrtkKernel puts a task to sleep for good.                    *)
LEMMA NoneDeletedStep ==
    ASSUME TypeOK, NoneDeleted, [Next]_vars
    PROVE  NoneDeleted'
<1>1. State \in [Tasks -> TaskStates]
  BY DEF TypeOK
<1>2. ASSUME Sched PROVE NoneDeleted'
  BY <1>1, <1>2 DEF Sched, SchedFrom, Switch, NoneDeleted
<1>3. ASSUME UNCHANGED State PROVE NoneDeleted'
  BY <1>3 DEF NoneDeleted
<1>4. CASE Start
  BY <1>1, <1>4 DEF Start, NoneDeleted
<1>5. ASSUME NEW t \in Users, NEW d \in WaitTimes, WaitBegin(t, d) PROVE NoneDeleted'
  BY <1>1, <1>5 DEF WaitBegin, NoneDeleted
<1>6. CASE TickWake
  BY <1>1, <1>6 DEF TickWake, NoneDeleted
<1>7. CASE UNCHANGED vars
  BY <1>3, <1>7 DEF vars, tcb
<1>8. CASE TickSched
  BY <1>2, <1>8 DEF TickSched
<1>9. ASSUME NEW t \in Users, WaitSched(t) PROVE NoneDeleted'
  BY <1>2, <1>9 DEF WaitSched
<1>10. CASE TickBegin \/ TickSkip \/ TickDelay \/ AckTick
  BY <1>3, <1>10 DEF TickBegin, TickTaken, TickSkip, TickDelay, AckTick, tcb
<1>11. ASSUME NEW t \in Tasks, KernelCall(t) \/ PlaceTask(t) PROVE NoneDeleted'
  BY <1>3, <1>11 DEF KernelCall, PlaceTask, tcb
<1> QED BY <1>4, <1>5, <1>6, <1>7, <1>8, <1>9, <1>10, <1>11, TaskNumbers
        DEF Next, TaskNext, TickNext

(* A step of the CPU is a step of the kernel: the masks let a tick through *)
(* only where MrtkKernel does.                                             *)
LEMMA ContextStep ==
    ASSUME CpuInv, KernelFacts, [ContextNext]_<<vars, cpu>>
    PROVE  [Next]_vars
<1>1. ASSUME TickInterrupt PROVE TickBegin
  BY <1>1, OpenGates DEF TickInterrupt, TickBegin
<1>2. CASE UNCHANGED <<vars, cpu>>
  BY <1>2
<1>3. CASE ContextNext
  <2>1. ASSUME NEW t \in Users, PlaceTask(t) PROVE Next
    BY <2>1 DEF Next
  <2>2. CASE Starthghrdyprio
    BY <2>2 DEF Starthghrdyprio, Next
  <2>3. ASSUME NEW t \in Tasks, KernelCall(t) PROVE Next
    BY <2>3 DEF Next, TaskNext
  <2>4. ASSUME NEW t \in Users, NEW d \in WaitTimes, WaitBegin(t, d) PROVE Next
    BY <2>4 DEF Next, TaskNext
  <2>5. ASSUME NEW t \in Users, WaitSched(t) PROVE Next
    BY <2>5 DEF Next, TaskNext
  <2>6. CASE TickInterrupt
    BY <1>1, <2>6 DEF Next, TickNext
  <2>7. CASE TickSkip \/ TickDelay \/ TickWake \/ TickSched \/ TickReturn
    BY <2>7 DEF Next, TickNext, TickReturn
  <2> QED BY <1>3, <2>1, <2>2, <2>3, <2>4, <2>5, <2>6, <2>7 DEF ContextNext
<1> QED BY <1>2, <1>3

LEMMA StepCpu ==
    ASSUME CpuInv, KernelFacts, KernelFacts', [ContextNext]_<<vars, cpu>>
    PROVE  CpuInv'
<1>1. CASE UNCHANGED <<vars, cpu>>
  BY <1>1, CpuUntouched DEF vars, sched, boot, isr, Ticking
<1>2. ASSUME NEW t \in Users, PlaceTask(t), UNCHANGED cpu PROVE CpuInv'
  BY <1>2, CpuUntouched DEF PlaceTask, isr, Ticking
<1>3. CASE Starthghrdyprio
  BY <1>3, StartCpu
<1>4. ASSUME NEW t \in Tasks, KernelCall(t), Compute(t) PROVE CpuInv'
  <2>1. /\ UNCHANGED <<MrtkRunning, RunningTask, isrOwner, count>> /\ InTask(t)
        /\ pc'[t] # "new" /\ \A u \in Tasks : u # t => pc'[u] = pc[u]
    BY <1>4 DEF KernelCall, sched, boot, isr, KernelFacts
  <2> QED BY <1>4, <2>1, ComputeCpu
<1>5. ASSUME NEW t \in Users, NEW d \in WaitTimes, WaitBegin(t, d), Compute(t) PROVE CpuInv'
  <2>1. /\ UNCHANGED <<MrtkRunning, RunningTask, isrOwner, count>> /\ InTask(t)
        /\ pc'[t] # "new" /\ \A u \in Tasks : u # t => pc'[u] = pc[u]
        /\ t \in Tasks
    BY <1>5, TaskNumbers DEF WaitBegin, sched, boot, isr, KernelFacts
  <2> QED BY <1>5, <2>1, ComputeCpu
<1>6. ASSUME NEW t \in Users, WaitSched(t), SchedContext PROVE CpuInv'
  <2>1. /\ MrtkRunning /\ MrtkRunning' /\ RunningTask = t /\ isrOwner # t
        /\ UNCHANGED <<isrOwner, count>> /\ pc[t] = "wait" /\ t \in Tasks
        /\ \A u \in Tasks : pc'[u] = "new" <=> pc[u] = "new"
    BY <1>6, TaskNumbers DEF WaitSched, InTask, boot, isr, KernelFacts
  <2>2. ~Ticking'
    BY <2>1 DEF KernelFacts, Ticking
  <2> QED BY <1>6, <2>1, <2>2, SchedContextCpu
<1>7. CASE TickInterrupt
  BY <1>7, TickInterruptCpu
<1>8. CASE (TickSkip \/ TickDelay \/ TickWake) /\ UNCHANGED cpu
  <2>1. /\ UNCHANGED <<MrtkRunning, RunningTask, isrOwner, pc>>
        /\ count < UsersMax /\ count' = count + 1
    BY <1>8 DEF TickSkip, TickDelay, TickWake, boot, sched
  <2>2. count \in Int
    BY DEF KernelFacts
  <2>3. Ticking
    BY <2>1, TaskNumbers DEF Ticking, NotTicking
  <2>4. Ticking'
    BY <2>1, <2>2, TaskNumbers DEF Ticking, NotTicking
  <2> QED BY <1>8, <2>1, <2>3, <2>4, CpuUntouched
<1>9. CASE TickSched /\ SchedContext
  <2>1. /\ UNCHANGED <<MrtkRunning, isrOwner, pc>> /\ count' = NotTicking /\ count = UsersMax
    BY <1>9 DEF TickSched, boot
  <2>2. ~Ticking' /\ Ticking
    BY <2>1, TaskNumbers DEF Ticking, NotTicking
  <2>3. MrtkRunning /\ MrtkRunning' /\ isrOwner = RunningTask /\ pc[RunningTask] # "new"
    BY <2>1, <2>2 DEF KernelFacts, CpuInv, NewInv
  <2> QED BY <1>9, <2>1, <2>2, <2>3, SchedContextCpu
<1>10. CASE TickReturn
  BY <1>10, TickReturnCpu
<1> QED BY <1>1, <1>2, <1>3, <1>4, <1>5, <1>6, <1>7, <1>8, <1>9, <1>10 DEF ContextNext

-----------------------------------------------------------------------------
LEMMA ContextInvStep ==
    ASSUME NoWaitOfOne, ContextInv, [ContextNext]_<<vars, cpu>>
    PROVE  ContextInv'
<1>1. KernelFacts /\ CpuInv /\ TypeOK
  BY IInvFacts DEF ContextInv, IInv
<1>2. [Next]_vars
  BY <1>1, ContextStep
<1>3. HasStack
  BY <1>1 DEF ContextInv, KernelFacts, NoneDeleted, HasStack
<1>4. IInv'
  <2>1. [TaskStep \/ StackLost]_vars
    BY <1>2, <1>3 DEF TaskStep
  <2> QED BY <2>1, StepIInv DEF ContextInv
<1>5. NoneDeleted'
  BY <1>1, <1>2, NoneDeletedStep DEF ContextInv
<1>6. CpuInv'
  BY <1>1, <1>4, IInvFactsAfter, StepCpu
<1> QED BY <1>4, <1>5, <1>6 DEF ContextInv

LEMMA ContextInvInit == ContextInit => ContextInv
<1> SUFFICES ASSUME ContextInit PROVE ContextInv
  OBVIOUS
<1>1. IInv
  BY InitIInv DEF ContextInit
<1>2. NoneDeleted
  BY DEF ContextInit, Init, NoneDeleted
<1>3. CpuInv
  BY <1>1, IInvFacts, InitCpu
<1> QED BY <1>1, <1>2, <1>3 DEF ContextInv

(* The frames on every stack and the masks of the CPU are what ContextInv  *)
(* says, throughout: mrtk_sched, the context switch and cpu_timer0_isr.    *)
THEOREM ContextInvariant == ASSUME NoWaitOfOne PROVE ContextSpec => []ContextInv
<1>1. ContextInit => ContextInv
  BY ContextInvInit
<1>2. ContextInv /\ [ContextNext]_<<vars, cpu>> => ContextInv'
  BY ContextInvStep
<1> QED BY <1>1, <1>2, PTL DEF ContextSpec

(* A task finds every register as it left it, whatever switches and ticks  *)
(* have come between two of its instructions, for any number of tasks.     *)
THEOREM ContextKeepsRegisters ==
    ASSUME NoWaitOfOne
    PROVE  ContextSpec => []RegistersKept
<1>1. ContextInv => RegistersKept
  <2> SUFFICES ASSUME ContextInv, MrtkRunning, NEW w \in Words
               PROVE  reg[w].by = RunningCode /\ reg[w].word = w
    BY DEF RegistersKept
  <2>1. KernelFacts /\ CpuInv /\ RunningTask \in Tasks
    BY IInvFacts DEF ContextInv, KernelFacts
  <2>2. PICK intm \in BOOLEAN, int1 \in BOOLEAN : reg = File(RunningTask, intm, int1)
    BY <2>1 DEF CpuInv, MaskInv
  <2>3. WrittenBy(reg, <<RunningTask, Code(RunningTask)>>, intm, int1)
    BY <2>1, <2>2, FileWritten DEF CpuInv
  <2> QED BY <2>3 DEF WrittenBy, RunningCode, Code
<1> QED BY <1>1, ContextInvariant, PTL

(* No tick is held back but by the kernel: once the last one has been      *)
(* acknowledged, a task past its first critical section has all gates open. *)
THEOREM ContextMasksNoTick ==
    ASSUME NoWaitOfOne
    PROVE  ContextSpec => []TicksNotMasked
<1>1. ContextInv => TicksNotMasked
  <2> SUFFICES ASSUME ContextInv, MrtkRunning, isrOwner = NoOwner, pc[RunningTask] # "new"
               PROVE  TickOpen
    BY DEF TicksNotMasked
  <2>1. KernelFacts /\ CpuInv
    BY IInvFacts DEF ContextInv
  <2>2. ~Ticking
    BY <2>1, TaskNumbers DEF KernelFacts
  <2>3. ~PIEACK
    BY <2>1 DEF CpuInv, MaskInv
  <2> QED BY <2>1, <2>2, <2>3, RunningFile DEF TickOpen
<1> QED BY <1>1, ContextInvariant, PTL

(* Two frames of 26 words are the most a stack ever holds: the 64 words    *)
(* that mrtk_Init gives the idle task are enough for them.                 *)
THEOREM ContextStackFits ==
    ASSUME NoWaitOfOne
    PROVE  ContextSpec => []StackFits
<1>1. ContextInv => StackFits
  <2> SUFFICES ASSUME ContextInv, NEW t \in Tasks
               PROVE  Len(stack[t]) <= TASK_CONTEXT_SIZE
    BY DEF StackFits
  <2>1. CpuTypeOK /\ StackInv
    BY DEF ContextInv, CpuInv
  <2>2. Base(t) \in Seq(Cell) /\ Len(Base(t)) \in {0, 26}
    <3>1. Len(FrameOf(Interrupted(t))) = 26
      BY <2>1, FileTypes, FrameType
    <3> QED BY <2>1, <3>1, FileTypes DEF Base
  <2>3. Len(stack[t]) \in {0, 26, 52}
    <3>1. CASE stack[t] = Base(t)
      BY <2>2, <3>1
    <3>2. ASSUME NEW i \in BOOLEAN, NEW j \in BOOLEAN,
                 stack[t] = Base(t) \o FrameOf(File(t, i, j))
          PROVE  Len(stack[t]) \in {0, 26, 52}
      <4> DEFINE s == Base(t)
                 f == FrameOf(File(t, i, j))
      <4>1. f \in Seq(Cell) /\ Len(f) = 26 /\ s \in Seq(Cell) /\ Len(s) \in {0, 26}
        BY <2>1, <2>2, FileTypes, FrameType
      <4> HIDE DEF s, f
      <4>2. Len(s \o f) = Len(s) + 26
        BY <4>1, CellConcat
      <4>3. Len(s \o f) \in {0, 26, 52}
        BY <4>1, <4>2
      <4> QED BY <3>2, <4>3 DEF s, f
    <3> QED BY <2>1, <3>1, <3>2 DEF StackInv
  <2>4. \A n \in {0, 26, 52} : n <= TASK_CONTEXT_SIZE
    BY DEF TASK_CONTEXT_SIZE
  <2> QED BY ONLY <2>3, <2>4
<1> QED BY <1>1, ContextInvariant, PTL

(* With the masks of the CPU in the place of the kernel's rule for when a  *)
(* tick may be taken, every behaviour is one of MrtkKernel.                *)
THEOREM ContextImplementsKernel ==
    ASSUME NoWaitOfOne
    PROVE  ContextSpec => KernelImplemented
<1>1. ContextInit => Init
  BY DEF ContextInit
<1>2. ContextInv /\ [ContextNext]_<<vars, cpu>> => [Next]_vars
  BY IInvFacts, ContextStep DEF ContextInv
<1> QED BY <1>1, <1>2, ContextInvariant, PTL DEF ContextSpec, KernelImplemented, Spec
=============================================================================
