----------------------------- MODULE TextProofs -----------------------------
(***************************************************************************)
(* What becomes of a text on its way through IRC: Multiline and Mentions,  *)
(* for texts of any length, any frame budget, any limits the server        *)
(* announces and any people.  What their recursive functions compute is    *)
(* shown by least counterexamples.                                         *)
(***************************************************************************)
EXTENDS Multiline, Mentions, SequenceTheorems, FiniteSetTheorems, WellFoundedInduction, TLAPS

-----------------------------------------------------------------------------
(* Numbers and folds *)

\* A set of numbers with something in it has a least number.
LEMMA LeastNumber ==
  ASSUME NEW D \in SUBSET Nat, D # {}
  PROVE  \E d \in D : \A y \in D : d <= y
<1> DEFINE R == OpToRel(<, Nat)
<1>1. IsWellFoundedOn(R, Nat) BY NatLessThanWellFounded
<1>2. \A x, y \in Nat : x < y => <<x, y>> \in R BY DEF OpToRel
<1> HIDE DEF R
<1>3. PICK d \in D : \A y \in D : ~(<<y, d>> \in R) BY <1>1, WFMin
<1>4. ASSUME NEW y \in D PROVE d <= y
  <2>1. d \in Nat /\ y \in Nat /\ ~(y < d) BY <1>2, <1>3
  <2> QED BY <2>1
<1> QED BY <1>4

\* A set of numbers that holds 0 and the successor of what it holds, up to n,
\* holds all of them.
LEMMA UpTo ==
  ASSUME NEW N \in Nat, NEW H, 0 \in H, \A n \in 1..N : n - 1 \in H => n \in H
  PROVE  0..N \subseteq H
<1> DEFINE D == {n \in 0..N : n \notin H}
<1>1. SUFFICES ASSUME D # {} PROVE FALSE OBVIOUS
<1>2. D \in SUBSET Nat OBVIOUS
<1>3. PICK d \in D : \A y \in D : d <= y
  <2> HIDE DEF D
  <2> QED BY <1>1, <1>2, LeastNumber
<1>4. d \in 1..N /\ d \notin H
  <2>1. d \in 0..N /\ d \notin H OBVIOUS
  <2> QED BY <2>1
<1>5. d - 1 \in 0..N /\ d - 1 \notin D BY <1>3, <1>4
<1> QED BY <1>4, <1>5

\* A bounded set of numbers has a greatest one.
LEMMA GreatestNumber ==
  ASSUME NEW n \in Nat, NEW D \in SUBSET (0..n), D # {}
  PROVE  Max(D) \in D /\ \A y \in D : Max(D) >= y
<1> DEFINE E == {n - y : y \in D}
<1>1. E \in SUBSET Nat /\ E # {}
  <2>1. \A y \in D : y \in 0..n OBVIOUS
  <2>2. \A y \in 0..n : n - y \in Nat OBVIOUS
  <2> QED BY <2>1, <2>2
<1>2. PICK e \in E : \A z \in E : e <= z
  <2> HIDE DEF E
  <2> QED BY <1>1, LeastNumber
<1>3. PICK d \in D : e = n - d BY <1>2
<1>4. ASSUME NEW y \in D PROVE d >= y
  <2>1. n - y \in E BY DEF E
  <2>2. e <= n - y /\ y \in 0..n /\ d \in 0..n BY <1>2, <2>1
  <2> QED BY <1>3, <2>2
<1> HIDE DEF E
<1> QED BY <1>4 DEF Max

\* g is the recursion over 0..N that starts with base.
Recursion(g, N, base, step) ==
  g = [n \in 0..N |-> IF n = 0 THEN base ELSE step[n][g[n - 1]]]

StaysIn(V, N, step) == \A n \in 1..N, v \in V : step[n][v] \in V

\* A recursion whose steps stay in a set has a solution there.
LEMMA FoldFact ==
  ASSUME NEW V, NEW N \in Nat, NEW base \in V, NEW step, StaysIn(V, N, step)
  PROVE  \E g \in [0..N -> V] : Recursion(g, N, base, step)
<1> DEFINE Solves(g, m) == g[0] = base /\ \A n \in 1..m : g[n] = step[n][g[n - 1]]
           H == {m \in 0..N : \E g \in [0..m -> V] : Solves(g, m)}
<1>0. \A n \in 1..N, v \in V : step[n][v] \in V BY DEF StaysIn
<1>1. 0 \in H
  <2>1. [n \in 0..0 |-> base] \in [0..0 -> V] OBVIOUS
  <2>2. Solves([n \in 0..0 |-> base], 0) OBVIOUS
  <2>3. 0 \in 0..N OBVIOUS
  <2> HIDE DEF Solves
  <2> QED BY <2>1, <2>2, <2>3
<1>2. ASSUME NEW n \in 1..N, n - 1 \in H PROVE n \in H
  <2>1. PICK g \in [0..(n - 1) -> V] : Solves(g, n - 1) BY <1>2
  <2> DEFINE h == [i \in 0..n |-> IF i = n THEN step[n][g[n - 1]] ELSE g[i]]
  <2>2. h \in [0..n -> V]
    <3>1. g[n - 1] \in V OBVIOUS
    <3> QED BY <1>0, <3>1
  <2>3. Solves(h, n)
    <3>1. h[0] = base BY <2>1
    <3>2. ASSUME NEW i \in 1..n PROVE h[i] = step[i][h[i - 1]]
      <4>1. i - 1 \in 0..n /\ i - 1 # n /\ h[i - 1] = g[i - 1] OBVIOUS
      <4>2. CASE i = n BY <4>1, <4>2
      <4>3. CASE i # n
        <5>1. i \in 1..(n - 1) BY <4>3
        <5>2. g[i] = step[i][g[i - 1]] BY <2>1, <5>1
        <5> QED BY <4>1, <4>3, <5>2
      <4> QED BY <4>2, <4>3
    <3> QED BY <3>1, <3>2
  <2>4. n \in 0..N OBVIOUS
  <2> HIDE DEF h, Solves
  <2> QED BY <2>2, <2>3, <2>4
<1>3. N \in H
  <2> HIDE DEF H
  <2>1. 0..N \subseteq H BY <1>1, <1>2, UpTo
  <2> QED BY <2>1
<1>4. PICK g \in [0..N -> V] : Solves(g, N) BY <1>3
<1>5. ASSUME NEW n \in 0..N PROVE g[n] = IF n = 0 THEN base ELSE step[n][g[n - 1]] BY <1>4
<1>6. Recursion(g, N, base, step) BY <1>5 DEF Recursion
<1> QED BY <1>6

\* Where g and h agree before a step they agree after it.
SameSteps(g, h, N) == g[0] = h[0] /\ \A n \in 1..N : g[n - 1] = h[n - 1] => g[n] = h[n]

Agree(g, h, N) == \A n \in 0..N : g[n] = h[n]

LEMMA FoldsAgree ==
  ASSUME NEW N \in Nat, NEW g, NEW h, SameSteps(g, h, N)
  PROVE  Agree(g, h, N)
<1> DEFINE H == {n \in 0..N : g[n] = h[n]}
<1>1. 0 \in H BY DEF SameSteps
<1>2. \A n \in 1..N : n - 1 \in H => n \in H BY DEF SameSteps
<1>3. 0..N \subseteq H
  <2> HIDE DEF H
  <2> QED BY <1>1, <1>2, UpTo
<1> QED BY <1>3 DEF Agree

-----------------------------------------------------------------------------
(* The recursions of Multiline *)

Line == Seq({"a", " "})
Frame == [text : Line, concat : BOOLEAN]

LEMMA GlueType ==
  ASSUME NEW o \in Seq(Line), NEW f \in Frame
  PROVE  Glue(o, f) \in Seq(Line) /\ Glue(o, f) # <<>>
<1>1. f.text \in Line BY DEF Frame
<1>2. CASE f.concat /\ o # <<>>
  <2>1. Len(o) \in 1..Len(o) BY <1>2, EmptySeq, LenProperties
  <2>2. o[Len(o)] \in Line BY <2>1, ElementOfSeq
  <2>3. o[Len(o)] \o f.text \in Line BY <1>1, <2>2, ConcatProperties DEF Line
  <2>4. PICK e : e = o[Len(o)] \o f.text OBVIOUS
  <2>5. [o EXCEPT ![Len(o)] = e] \in Seq(Line) /\ Len([o EXCEPT ![Len(o)] = e]) = Len(o)
    BY <2>1, <2>3, <2>4, ExceptSeq
  <2>6. Glue(o, f) = [o EXCEPT ![Len(o)] = e] BY <1>2, <2>4 DEF Glue
  <2> QED BY <2>1, <2>5, <2>6, EmptySeq
<1>3. CASE ~(f.concat /\ o # <<>>)
  <2>1. Glue(o, f) = Append(o, f.text) BY <1>3 DEF Glue
  <2> QED BY <1>1, <2>1, AppendProperties
<1> QED BY <1>2, <1>3

\* accLines is its recursion.
LEMMA AccFold ==
  ASSUME NEW fs \in Seq(Frame)
  PROVE  \E g \in [0..Len(fs) -> Seq(Line)] :
           /\ g[0] = <<>> /\ \A n \in 1..Len(fs) : g[n] = Glue(g[n - 1], fs[n])
           /\ accLines(fs) = g[Len(fs)]
<1> DEFINE step == [n \in 1..Len(fs) |-> [v \in Seq(Line) |-> Glue(v, fs[n])]]
           Sol(g) == g = [n \in 0..Len(fs) |-> IF n = 0 THEN <<>> ELSE Glue(g[n - 1], fs[n])]
<1>1. Len(fs) \in Nat /\ <<>> \in Seq(Line) BY LenProperties, EmptySeq
<1>2. \A n \in 1..Len(fs), v \in Seq(Line) : step[n][v] = Glue(v, fs[n]) /\ step[n][v] \in Seq(Line)
  BY GlueType, ElementOfSeq
<1>3. PICK g \in [0..Len(fs) -> Seq(Line)] : Recursion(g, Len(fs), <<>>, step)
  <2>1. StaysIn(Seq(Line), Len(fs), step) BY <1>2 DEF StaysIn
  <2> HIDE DEF step
  <2> QED BY <1>1, <2>1, FoldFact
<1>4. Sol(g)
  <2>1. ASSUME NEW n \in 0..Len(fs), n # 0 PROVE step[n][g[n - 1]] = Glue(g[n - 1], fs[n])
    <3>1. n \in 1..Len(fs) /\ n - 1 \in 0..Len(fs) BY <1>1, <2>1
    <3>2. g[n - 1] \in Seq(Line) BY <3>1
    <3> HIDE DEF step
    <3> QED BY <1>2, <3>1, <3>2
  <2> HIDE DEF step
  <2> QED BY <1>3, <2>1 DEF Recursion
<1>5. PICK h : Sol(h) /\ accLines(fs) = h[Len(fs)] BY <1>4 DEF accLines
<1>6. \A n \in 0..Len(fs) : h[n] = g[n]
  <2>1. h[0] = <<>> /\ g[0] = <<>> BY <1>1, <1>4, <1>5
  <2>2. ASSUME NEW n \in 1..Len(fs), g[n - 1] = h[n - 1] PROVE g[n] = h[n]
    <3>1. n \in 0..Len(fs) /\ n # 0 BY <1>1
    <3>2. h[n] = Glue(h[n - 1], fs[n]) /\ g[n] = Glue(g[n - 1], fs[n]) BY <1>4, <1>5, <3>1
    <3> QED BY <2>2, <3>2
  <2> HIDE DEF step, Sol
  <2>3. SameSteps(g, h, Len(fs)) BY <2>1, <2>2 DEF SameSteps
  <2>4. Agree(g, h, Len(fs)) BY <1>1, <2>3, FoldsAgree
  <2> QED BY <2>4 DEF Agree
<1>7. \A n \in 1..Len(fs) : g[n] = Glue(g[n - 1], fs[n]) BY <1>1, <1>4
<1>8. g[0] = <<>> /\ Len(fs) \in 0..Len(fs) BY <1>1, <1>4
<1> QED BY <1>5, <1>6, <1>7, <1>8

\* One more frame is glued to what the others make.
LEMMA AccFact ==
  /\ accLines(<<>>) = <<>>
  /\ \A fs \in Seq(Frame), f \in Frame :
       accLines(fs) \in Seq(Line) /\ accLines(Append(fs, f)) = Glue(accLines(fs), f)
<1>1. accLines(<<>>) = <<>>
  <2>1. <<>> \in Seq(Frame) /\ Len(<<>>) = 0 BY EmptySeq
  <2> QED BY <2>1, AccFold
<1>2. ASSUME NEW fs \in Seq(Frame), NEW f \in Frame
      PROVE  accLines(fs) \in Seq(Line) /\ accLines(Append(fs, f)) = Glue(accLines(fs), f)
  <2>1. PICK n \in Nat : n = Len(fs) BY LenProperties
  <2>2. PICK all : all = Append(fs, f) OBVIOUS
  <2>3. all \in Seq(Frame) /\ Len(all) = n + 1 /\ all[n + 1] = f /\ \A i \in 1..n : all[i] = fs[i]
    BY <2>1, <2>2, AppendProperties
  <2>4. PICK g \in [0..n -> Seq(Line)] :
          g[0] = <<>> /\ (\A i \in 1..n : g[i] = Glue(g[i - 1], fs[i])) /\ accLines(fs) = g[n]
    BY <2>1, AccFold
  <2>5. PICK h \in [0..(n + 1) -> Seq(Line)] :
          h[0] = <<>> /\ (\A i \in 1..(n + 1) : h[i] = Glue(h[i - 1], all[i]))
          /\ accLines(all) = h[n + 1]
    BY <2>3, AccFold
  <2>6. \A i \in 0..n : g[i] = h[i]
    <3>1. \A i \in 1..n : h[i] = Glue(h[i - 1], fs[i])
      <4>1. \A i \in 1..n : i \in 1..(n + 1) OBVIOUS
      <4> QED BY <2>3, <2>5, <4>1
    <3>2. SameSteps(g, h, n) BY <2>4, <2>5, <3>1 DEF SameSteps
    <3>3. Agree(g, h, n) BY <2>1, <3>2, FoldsAgree
    <3> QED BY <3>3 DEF Agree
  <2>7. h[n + 1] = Glue(h[n], f)
    <3>1. n + 1 \in 1..(n + 1) /\ (n + 1) - 1 = n OBVIOUS
    <3> QED BY <2>3, <2>5, <3>1
  <2>8. n \in 0..n OBVIOUS
  <2> QED BY <2>2, <2>4, <2>5, <2>6, <2>7, <2>8
<1> QED BY <1>1, <1>2

\* WireBytes is its recursion.
LEMMA BytesFold ==
  ASSUME NEW fs \in Seq(Frame)
  PROVE  \E g \in [0..Len(fs) -> Int] :
           /\ g[0] = 0 /\ \A n \in 1..Len(fs) : g[n] = g[n - 1] + Len(fs[n].text) + (IF n = 1 THEN 0 ELSE 1)
           /\ WireBytes(fs) = g[Len(fs)]
<1> DEFINE step == [n \in 1..Len(fs) |-> [v \in Int |-> v + Len(fs[n].text) + (IF n = 1 THEN 0 ELSE 1)]]
           Sol(g) == g = [n \in 0..Len(fs) |->
                            IF n = 0 THEN 0 ELSE g[n - 1] + Len(fs[n].text) + (IF n = 1 THEN 0 ELSE 1)]
<1>1. Len(fs) \in Nat /\ 0 \in Int BY LenProperties, EmptySeq
<1>2. ASSUME NEW n \in 1..Len(fs), NEW v \in Int
      PROVE  step[n][v] = v + Len(fs[n].text) + (IF n = 1 THEN 0 ELSE 1) /\ step[n][v] \in Int
  <2>1. fs[n] \in Frame BY ElementOfSeq
  <2>2. v + Len(fs[n].text) + (IF n = 1 THEN 0 ELSE 1) \in Int 
    <3>1. Len(fs[n].text) \in Nat BY <2>1, LenProperties DEF Frame, Line
    <3> QED BY <3>1
  <2> QED BY <2>2
<1>3. PICK g \in [0..Len(fs) -> Int] : Recursion(g, Len(fs), 0, step)
  <2>1. StaysIn(Int, Len(fs), step) BY <1>2 DEF StaysIn
  <2> HIDE DEF step
  <2> QED BY <1>1, <2>1, FoldFact
<1>4. Sol(g)
  <2>1. ASSUME NEW n \in 0..Len(fs), n # 0 PROVE step[n][g[n - 1]] = g[n - 1] + Len(fs[n].text) + (IF n = 1 THEN 0 ELSE 1)
    <3>1. n \in 1..Len(fs) /\ n - 1 \in 0..Len(fs) BY <1>1, <2>1
    <3>2. g[n - 1] \in Int BY <3>1
    <3> HIDE DEF step
    <3> QED BY <1>2, <3>1, <3>2
  <2> HIDE DEF step
  <2> QED BY <1>3, <2>1 DEF Recursion
<1>5. PICK h : Sol(h) /\ WireBytes(fs) = h[Len(fs)] BY <1>4 DEF WireBytes
<1>6. \A n \in 0..Len(fs) : h[n] = g[n]
  <2>1. h[0] = 0 /\ g[0] = 0 BY <1>1, <1>4, <1>5
  <2>2. ASSUME NEW n \in 1..Len(fs), g[n - 1] = h[n - 1] PROVE g[n] = h[n]
    <3>1. n \in 0..Len(fs) /\ n # 0 BY <1>1
    <3>2. h[n] = h[n - 1] + Len(fs[n].text) + (IF n = 1 THEN 0 ELSE 1) /\ g[n] = g[n - 1] + Len(fs[n].text) + (IF n = 1 THEN 0 ELSE 1)
      BY <1>4, <1>5, <3>1
    <3> QED BY <2>2, <3>2
  <2> HIDE DEF step, Sol
  <2>3. SameSteps(g, h, Len(fs)) BY <2>1, <2>2 DEF SameSteps
  <2>4. Agree(g, h, Len(fs)) BY <1>1, <2>3, FoldsAgree
  <2> QED BY <2>4 DEF Agree
<1>7. ASSUME NEW n \in 1..Len(fs) PROVE g[n] = g[n - 1] + Len(fs[n].text) + (IF n = 1 THEN 0 ELSE 1)
  <2>1. n \in 0..Len(fs) /\ n # 0 BY <1>1
  <2> QED BY <1>4, <2>1
<1>8. g[0] = 0 /\ Len(fs) \in 0..Len(fs) BY <1>1, <1>4
<1> QED BY <1>5, <1>6, <1>7, <1>8

\* A frame more costs its text and, behind another one, a newline.
LEMMA BytesFact ==
  /\ WireBytes(<<>>) = 0
  /\ \A fs \in Seq(Frame), f \in Frame :
       WireBytes(fs) \in Int /\ WireBytes(Append(fs, f)) = WireBytes(fs) + Len(f.text) + (IF fs = <<>> THEN 0 ELSE 1)
<1>1. WireBytes(<<>>) = 0
  <2>1. <<>> \in Seq(Frame) /\ Len(<<>>) = 0 BY EmptySeq
  <2> QED BY <2>1, BytesFold
<1>2. ASSUME NEW fs \in Seq(Frame), NEW f \in Frame
      PROVE  WireBytes(fs) \in Int /\ WireBytes(Append(fs, f)) = WireBytes(fs) + Len(f.text) + (IF fs = <<>> THEN 0 ELSE 1)
  <2>1. PICK n \in Nat : n = Len(fs) BY LenProperties
  <2>2. PICK all : all = Append(fs, f) OBVIOUS
  <2>3. all \in Seq(Frame) /\ Len(all) = n + 1 /\ all[n + 1] = f /\ \A i \in 1..n : all[i] = fs[i]
    BY <2>1, <2>2, AppendProperties
  <2>4. PICK g \in [0..n -> Int] :
          /\ g[0] = 0 /\ \A i \in 1..n : g[i] = g[i - 1] + Len(fs[i].text) + (IF i = 1 THEN 0 ELSE 1)
          /\ WireBytes(fs) = g[n]
    BY <2>1, BytesFold
  <2>5. PICK h \in [0..(n + 1) -> Int] :
          /\ h[0] = 0 /\ \A i \in 1..(n + 1) : h[i] = h[i - 1] + Len(all[i].text) + (IF i = 1 THEN 0 ELSE 1)
          /\ WireBytes(all) = h[n + 1]
    BY <2>3, BytesFold
  <2>6. \A i \in 0..n : g[i] = h[i]
    <3>1. \A i \in 1..n : h[i] = h[i - 1] + Len(fs[i].text) + (IF i = 1 THEN 0 ELSE 1)
      <4>1. \A i \in 1..n : i \in 1..(n + 1) OBVIOUS
      <4> QED BY <2>3, <2>5, <4>1
    <3>2. SameSteps(g, h, n) BY <2>4, <2>5, <3>1 DEF SameSteps
    <3>3. Agree(g, h, n) BY <2>1, <3>2, FoldsAgree
    <3> QED BY <3>3 DEF Agree
  <2>7. h[n + 1] = h[n] + Len(f.text) + (IF n + 1 = 1 THEN 0 ELSE 1)
    <3>1. n + 1 \in 1..(n + 1) /\ (n + 1) - 1 = n OBVIOUS
    <3> QED BY <2>3, <2>5, <3>1
  <2>8. n \in 0..n OBVIOUS
  <2>9. fs = <<>> <=> n = 0 BY <2>1, EmptySeq
  <2> QED BY <2>1, <2>2, <2>4, <2>5, <2>6, <2>7, <2>8, <2>9
<1> QED BY <1>1, <1>2

\* OnTheWire is its recursion.
LEMMA WireFold ==
  ASSUME NEW bs \in Seq(Seq(Frame))
  PROVE  \E g \in [0..Len(bs) -> Seq(Frame)] :
           /\ g[0] = <<>> /\ \A n \in 1..Len(bs) : g[n] = g[n - 1] \o bs[n]
           /\ OnTheWire(bs) = g[Len(bs)]
<1> DEFINE step == [n \in 1..Len(bs) |-> [v \in Seq(Frame) |-> v \o bs[n]]]
           Sol(g) == g = [n \in 0..Len(bs) |->
                            IF n = 0 THEN <<>> ELSE g[n - 1] \o bs[n]]
<1>1. Len(bs) \in Nat /\ <<>> \in Seq(Frame) BY LenProperties, EmptySeq
<1>2. ASSUME NEW n \in 1..Len(bs), NEW v \in Seq(Frame)
      PROVE  step[n][v] = v \o bs[n] /\ step[n][v] \in Seq(Frame)
  <2>1. bs[n] \in Seq(Frame) BY ElementOfSeq
  <2>2. v \o bs[n] \in Seq(Frame) BY <2>1, ConcatProperties
  <2> QED BY <2>2
<1>3. PICK g \in [0..Len(bs) -> Seq(Frame)] : Recursion(g, Len(bs), <<>>, step)
  <2>1. StaysIn(Seq(Frame), Len(bs), step) BY <1>2 DEF StaysIn
  <2> HIDE DEF step
  <2> QED BY <1>1, <2>1, FoldFact
<1>4. Sol(g)
  <2>1. ASSUME NEW n \in 0..Len(bs), n # 0 PROVE step[n][g[n - 1]] = g[n - 1] \o bs[n]
    <3>1. n \in 1..Len(bs) /\ n - 1 \in 0..Len(bs) BY <1>1, <2>1
    <3>2. g[n - 1] \in Seq(Frame) BY <3>1
    <3> HIDE DEF step
    <3> QED BY <1>2, <3>1, <3>2
  <2> HIDE DEF step
  <2> QED BY <1>3, <2>1 DEF Recursion
<1>5. PICK h : Sol(h) /\ OnTheWire(bs) = h[Len(bs)] BY <1>4 DEF OnTheWire
<1>6. \A n \in 0..Len(bs) : h[n] = g[n]
  <2>1. h[0] = <<>> /\ g[0] = <<>> BY <1>1, <1>4, <1>5
  <2>2. ASSUME NEW n \in 1..Len(bs), g[n - 1] = h[n - 1] PROVE g[n] = h[n]
    <3>1. n \in 0..Len(bs) /\ n # 0 BY <1>1
    <3>2. h[n] = h[n - 1] \o bs[n] /\ g[n] = g[n - 1] \o bs[n]
      BY <1>4, <1>5, <3>1
    <3> QED BY <2>2, <3>2
  <2> HIDE DEF step, Sol
  <2>3. SameSteps(g, h, Len(bs)) BY <2>1, <2>2 DEF SameSteps
  <2>4. Agree(g, h, Len(bs)) BY <1>1, <2>3, FoldsAgree
  <2> QED BY <2>4 DEF Agree
<1>7. ASSUME NEW n \in 1..Len(bs) PROVE g[n] = g[n - 1] \o bs[n]
  <2>1. n \in 0..Len(bs) /\ n # 0 BY <1>1
  <2> QED BY <1>4, <2>1
<1>8. g[0] = <<>> /\ Len(bs) \in 0..Len(bs) BY <1>1, <1>4
<1> QED BY <1>5, <1>6, <1>7, <1>8

\* A batch more follows what the others put on the wire.
LEMMA WireFact ==
  /\ OnTheWire(<<>>) = <<>>
  /\ \A bs \in Seq(Seq(Frame)), b \in Seq(Frame) :
       OnTheWire(bs) \in Seq(Frame) /\ OnTheWire(Append(bs, b)) = OnTheWire(bs) \o b
<1>1. OnTheWire(<<>>) = <<>>
  <2>1. <<>> \in Seq(Seq(Frame)) /\ Len(<<>>) = 0 BY EmptySeq
  <2> QED BY <2>1, WireFold
<1>2. ASSUME NEW bs \in Seq(Seq(Frame)), NEW b \in Seq(Frame)
      PROVE  OnTheWire(bs) \in Seq(Frame) /\ OnTheWire(Append(bs, b)) = OnTheWire(bs) \o b
  <2>1. PICK n \in Nat : n = Len(bs) BY LenProperties
  <2>2. PICK all : all = Append(bs, b) OBVIOUS
  <2>3. all \in Seq(Seq(Frame)) /\ Len(all) = n + 1 /\ all[n + 1] = b /\ \A i \in 1..n : all[i] = bs[i]
    BY <2>1, <2>2, AppendProperties
  <2>4. PICK g \in [0..n -> Seq(Frame)] :
          /\ g[0] = <<>> /\ \A i \in 1..n : g[i] = g[i - 1] \o bs[i]
          /\ OnTheWire(bs) = g[n]
    BY <2>1, WireFold
  <2>5. PICK h \in [0..(n + 1) -> Seq(Frame)] :
          /\ h[0] = <<>> /\ \A i \in 1..(n + 1) : h[i] = h[i - 1] \o all[i]
          /\ OnTheWire(all) = h[n + 1]
    BY <2>3, WireFold
  <2>6. \A i \in 0..n : g[i] = h[i]
    <3>1. \A i \in 1..n : h[i] = h[i - 1] \o bs[i]
      <4>1. \A i \in 1..n : i \in 1..(n + 1) OBVIOUS
      <4> QED BY <2>3, <2>5, <4>1
    <3>2. SameSteps(g, h, n) BY <2>4, <2>5, <3>1 DEF SameSteps
    <3>3. Agree(g, h, n) BY <2>1, <3>2, FoldsAgree
    <3> QED BY <3>3 DEF Agree
  <2>7. h[n + 1] = h[n] \o b
    <3>1. n + 1 \in 1..(n + 1) /\ (n + 1) - 1 = n OBVIOUS
    <3> QED BY <2>3, <2>5, <3>1
  <2>8. n \in 0..n OBVIOUS
  <2> QED BY <2>2, <2>4, <2>5, <2>6, <2>7, <2>8
<1> QED BY <1>1, <1>2

\* NonBlank is its recursion.
LEMMA NonBlankFold ==
  ASSUME NEW ls \in Seq(Line)
  PROVE  \E g \in [0..Len(ls) -> Seq(Line)] :
           /\ g[0] = <<>> /\ \A n \in 1..Len(ls) : g[n] = (IF IsBlank(ls[n]) THEN g[n - 1] ELSE Append(g[n - 1], ls[n]))
           /\ NonBlank(ls) = g[Len(ls)]
<1> DEFINE step == [n \in 1..Len(ls) |-> [v \in Seq(Line) |-> (IF IsBlank(ls[n]) THEN v ELSE Append(v, ls[n]))]]
           Sol(g) == g = [n \in 0..Len(ls) |->
                            IF n = 0 THEN <<>> ELSE (IF IsBlank(ls[n]) THEN g[n - 1] ELSE Append(g[n - 1], ls[n]))]
<1>1. Len(ls) \in Nat /\ <<>> \in Seq(Line) BY LenProperties, EmptySeq
<1>2. ASSUME NEW n \in 1..Len(ls), NEW v \in Seq(Line)
      PROVE  step[n][v] = (IF IsBlank(ls[n]) THEN v ELSE Append(v, ls[n])) /\ step[n][v] \in Seq(Line)
  <2>1. ls[n] \in Line BY ElementOfSeq
  <2>2. (IF IsBlank(ls[n]) THEN v ELSE Append(v, ls[n])) \in Seq(Line) BY <2>1, AppendProperties
  <2> QED BY <2>2
<1>3. PICK g \in [0..Len(ls) -> Seq(Line)] : Recursion(g, Len(ls), <<>>, step)
  <2>1. StaysIn(Seq(Line), Len(ls), step) BY <1>2 DEF StaysIn
  <2> HIDE DEF step
  <2> QED BY <1>1, <2>1, FoldFact
<1>4. Sol(g)
  <2>1. ASSUME NEW n \in 0..Len(ls), n # 0 PROVE step[n][g[n - 1]] = (IF IsBlank(ls[n]) THEN g[n - 1] ELSE Append(g[n - 1], ls[n]))
    <3>1. n \in 1..Len(ls) /\ n - 1 \in 0..Len(ls) BY <1>1, <2>1
    <3>2. g[n - 1] \in Seq(Line) BY <3>1
    <3> HIDE DEF step
    <3> QED BY <1>2, <3>1, <3>2
  <2> HIDE DEF step
  <2> QED BY <1>3, <2>1 DEF Recursion
<1>5. PICK h : Sol(h) /\ NonBlank(ls) = h[Len(ls)] BY <1>4 DEF NonBlank
<1>6. \A n \in 0..Len(ls) : h[n] = g[n]
  <2>1. h[0] = <<>> /\ g[0] = <<>> BY <1>1, <1>4, <1>5
  <2>2. ASSUME NEW n \in 1..Len(ls), g[n - 1] = h[n - 1] PROVE g[n] = h[n]
    <3>1. n \in 0..Len(ls) /\ n # 0 BY <1>1
    <3>2. h[n] = (IF IsBlank(ls[n]) THEN h[n - 1] ELSE Append(h[n - 1], ls[n])) /\ g[n] = (IF IsBlank(ls[n]) THEN g[n - 1] ELSE Append(g[n - 1], ls[n]))
      BY <1>4, <1>5, <3>1
    <3> QED BY <2>2, <3>2
  <2> HIDE DEF step, Sol
  <2>3. SameSteps(g, h, Len(ls)) BY <2>1, <2>2 DEF SameSteps
  <2>4. Agree(g, h, Len(ls)) BY <1>1, <2>3, FoldsAgree
  <2> QED BY <2>4 DEF Agree
<1>7. ASSUME NEW n \in 1..Len(ls) PROVE g[n] = (IF IsBlank(ls[n]) THEN g[n - 1] ELSE Append(g[n - 1], ls[n]))
  <2>1. n \in 0..Len(ls) /\ n # 0 BY <1>1
  <2> QED BY <1>4, <2>1
<1>8. g[0] = <<>> /\ Len(ls) \in 0..Len(ls) BY <1>1, <1>4
<1> QED BY <1>5, <1>6, <1>7, <1>8

-----------------------------------------------------------------------------
(* Cutting and gluing *)

\* Lines sent one by one arrive as they are.
LEMMA AloneFact ==
  ASSUME NEW sp \in Seq(Line)
  PROVE  /\ [i \in 1..Len(sp) |-> Alone(sp[i])] \in Seq(Seq(Frame))
         /\ accLines(OnTheWire([i \in 1..Len(sp) |-> Alone(sp[i])])) = sp
<1> DEFINE First(n) == [i \in 1..n |-> Alone(sp[i])]
           H == {n \in 0..Len(sp) : /\ First(n) \in Seq(Seq(Frame))
                                    /\ accLines(OnTheWire(First(n))) = SubSeq(sp, 1, n)}
<1>1. Len(sp) \in Nat BY LenProperties
<1>2. 0 \in H
  <2>1. First(0) = <<>> OBVIOUS
  <2>2. SubSeq(sp, 1, 0) = <<>> BY SubSeqEmpty
  <2>3. First(0) \in Seq(Seq(Frame)) BY <2>1, EmptySeq
  <2>4. accLines(OnTheWire(<<>>)) = <<>> BY AccFact, WireFact
  <2> HIDE DEF First
  <2> QED BY <1>1, <2>1, <2>2, <2>3, <2>4
<1>3. ASSUME NEW n \in 1..Len(sp), n - 1 \in H PROVE n \in H
  <2>1. PICK S : S = First(n - 1) OBVIOUS
  <2>2. S \in Seq(Seq(Frame)) /\ accLines(OnTheWire(S)) = SubSeq(sp, 1, n - 1) BY <1>3, <2>1
  <2>3. PICK f : f = OutFrame(sp[n], FALSE) OBVIOUS
  <2>4. sp[n] \in Line BY ElementOfSeq
  <2>5. f \in Frame /\ ~f.concat /\ f.text = sp[n] BY <2>3, <2>4 DEF OutFrame, Frame
  <2>6. Alone(sp[n]) = <<f>> BY <2>3 DEF Alone
  <2>7. <<f>> \in Seq(Frame) BY <2>5
  <2>8. Len(S) = n - 1
    <3>1. DOMAIN S = 1..(n - 1) BY <2>1
    <3>2. Len(S) \in Nat /\ DOMAIN S = 1..Len(S) BY <2>2, LenProperties
    <3> QED BY <3>1, <3>2
  <2>9. First(n) = Append(S, <<f>>)
    <3>1. Append(S, <<f>>) \in Seq(Seq(Frame)) /\ Len(Append(S, <<f>>)) = n
          /\ Append(S, <<f>>)[n] = <<f>> /\ \A i \in 1..(n - 1) : Append(S, <<f>>)[i] = S[i]
      BY <2>2, <2>7, <2>8, AppendProperties
    <3>2. DOMAIN Append(S, <<f>>) = 1..n BY <3>1, LenProperties
    <3>3. Append(S, <<f>>) = [i \in 1..n |-> Append(S, <<f>>)[i]] BY <3>1, <3>2
    <3>4. ASSUME NEW i \in 1..n PROVE Append(S, <<f>>)[i] = Alone(sp[i])
      <4>1. CASE i = n BY <2>6, <3>1, <4>1
      <4>2. CASE i # n
        <5>1. i \in 1..(n - 1) BY <4>2
        <5>2. S[i] = Alone(sp[i]) BY <2>1, <5>1
        <5> QED BY <3>1, <5>1, <5>2
      <4> QED BY <4>1, <4>2
    <3> QED BY <3>3, <3>4
  <2>10. First(n) \in Seq(Seq(Frame))
    <3>1. Append(S, <<f>>) \in Seq(Seq(Frame)) BY <2>2, <2>7, AppendProperties
    <3> HIDE DEF First
    <3> QED BY <2>9, <3>1
  <2>11. OnTheWire(First(n)) = Append(OnTheWire(S), f) /\ OnTheWire(S) \in Seq(Frame)
    <3>1. OnTheWire(Append(S, <<f>>)) = OnTheWire(S) \o <<f>> /\ OnTheWire(S) \in Seq(Frame)
      BY <2>2, <2>7, WireFact
    <3> HIDE DEF First
    <3> QED BY <2>5, <2>9, <3>1, AppendIsConcat
  <2>12. accLines(OnTheWire(First(n))) = Append(SubSeq(sp, 1, n - 1), sp[n])
    <3>1. accLines(Append(OnTheWire(S), f)) = Glue(SubSeq(sp, 1, n - 1), f)
      BY <2>2, <2>5, <2>11, AccFact
    <3> HIDE DEF First
    <3> QED BY <2>5, <2>11, <3>1 DEF Glue
  <2>13. Append(SubSeq(sp, 1, n - 1), sp[n]) = SubSeq(sp, 1, n)
    <3>1. 1 \in 1..Len(sp) /\ n \in 1..Len(sp) BY <1>1
    <3>2. SubSeq(sp, 1, n) = SubSeq(sp, 1, n - 1) \o <<sp[n]>> BY <3>1, SubSeqRecursiveSecond
    <3>3. SubSeq(sp, 1, n - 1) \in Seq(Line)
      <4>1. \A i \in 1..(n - 1) : sp[i] \in Line BY <1>1, ElementOfSeq
      <4> QED BY <4>1, SubSeqProperties
    <3> QED BY <2>4, <3>2, <3>3, AppendIsConcat
  <2> HIDE DEF First
  <2> QED BY <1>1, <2>10, <2>12, <2>13
<1>4. Len(sp) \in H
  <2> HIDE DEF H
  <2>1. 0..Len(sp) \subseteq H BY <1>1, <1>2, <1>3, UpTo
  <2> QED BY <1>1, <2>1
<1>5. SubSeq(sp, 1, Len(sp)) = sp BY SubSeqFull
<1> QED BY <1>4, <1>5

\* A piece of a sequence.
LEMMA PieceFact ==
  ASSUME NEW S, NEW s \in Seq(S), NEW m \in Nat \ {0}, NEW n \in 0..Len(s)
  PROVE  SubSeq(s, m, n) \in Seq(S) /\ (m <= n => Len(SubSeq(s, m, n)) = n - m + 1)
         /\ (m > n => Len(SubSeq(s, m, n)) = 0)
<1>1. Len(s) \in Nat BY LenProperties
<1>2. \A i \in m..n : i \in 1..Len(s) BY <1>1
<1>3. \A i \in m..n : s[i] \in S BY <1>2, ElementOfSeq
<1>4. m \in Int /\ n \in Int BY <1>1
<1>5. SubSeq(s, m, n) \in Seq(S) BY <1>3, <1>4, SubSeqProperties
<1>6. Len(SubSeq(s, m, n)) = IF m <= n THEN n - m + 1 ELSE 0 BY <1>3, <1>4, SubSeqProperties
<1> QED BY <1>4, <1>5, <1>6

\* What stays of a line when its chunk is cut off.
Rest(l) == SubSeq(l, Len(Chunk(l)) + 1, Len(l))

\* A chunk is a frame's worth of its line, from the left.
LEMMA ChunkFact ==
  ASSUME NEW l \in Line
  PROVE  /\ Chunk(l) \in Line /\ Rest(l) \in Line /\ l = Chunk(l) \o Rest(l)
         /\ Len(Chunk(l)) \in Nat /\ Len(Chunk(l)) <= FrameBudget
<1> DEFINE text == Chunk(l)
<1>8. PICK rest : rest = SubSeq(l, Len(text) + 1, Len(l)) OBVIOUS
<1>9. rest = Rest(l) BY <1>8 DEF Rest
<1>0. PICK C : Line = Seq(C) BY DEF Line
<1>1. Len(l) \in Nat /\ FrameBudget \in Nat \ {0} BY <1>0, LenProperties, MultilineAssumption
<1>2. PICK c \in 0..Len(l) : c <= FrameBudget /\ text = SubSeq(l, 1, c)
  <2>1. CASE Len(l) <= FrameBudget
    <3>1. text = SubSeq(l, 1, Len(l)) BY <1>0, <2>1, SubSeqFull DEF Chunk
    <3> QED BY <1>1, <2>1, <3>1
  <2>2. CASE ~(Len(l) <= FrameBudget)
    <3>1. PICK spaces : spaces = {i \in 2..FrameBudget : l[i] = " "} OBVIOUS
    <3>2. text = SubSeq(l, 1, IF spaces = {} THEN FrameBudget ELSE Max(spaces))
      BY <2>2, <3>1 DEF Chunk
    <3>3. CASE spaces = {}
      <4>1. text = SubSeq(l, 1, FrameBudget) BY <3>2, <3>3
      <4>2. FrameBudget \in 0..Len(l) /\ FrameBudget <= FrameBudget BY <1>1, <2>2
      <4> QED BY <4>1, <4>2
    <3>4. CASE spaces # {}
      <4>1. \A i \in spaces : i \in 2..FrameBudget BY <3>1
      <4>2. \A i \in 2..FrameBudget : i \in 0..FrameBudget OBVIOUS
      <4>3. spaces \in SUBSET (0..FrameBudget) BY <4>1, <4>2
      <4>4. PICK m : m = Max(spaces) OBVIOUS
      <4>5. m \in spaces BY <1>1, <3>4, <4>3, <4>4, GreatestNumber
      <4>6. m \in 2..FrameBudget BY <4>1, <4>5
      <4>7. m \in 0..Len(l) /\ m <= FrameBudget BY <1>1, <2>2, <4>6
      <4>8. text = SubSeq(l, 1, m) BY <3>2, <3>4, <4>4
      <4> QED BY <4>7, <4>8
    <3> QED BY <3>3, <3>4
  <2> QED BY <2>1, <2>2
<1>3. text \in Line /\ Len(text) = c
  <2>1. 1 \in Nat \ {0} OBVIOUS
  <2>2. text \in Line /\ (1 <= c => Len(text) = c - 1 + 1) /\ (1 > c => Len(text) = 0)
    BY <1>0, <1>2, <2>1, PieceFact
  <2> QED BY <1>1, <2>2
<1>4. rest \in Line
  <2>1. Len(text) + 1 \in Nat \ {0} /\ Len(l) \in 0..Len(l) BY <1>1, <1>3
  <2>2. SubSeq(l, Len(text) + 1, Len(l)) \in Line
    <3> HIDE DEF text
    <3> QED BY <1>0, <2>1, PieceFact
  <2> QED BY <1>8, <2>2
<1>5. l = text \o rest
  <2>1. 1 \in 1..(Len(l) + 1) /\ c \in (1 - 1)..Len(l) /\ Len(l) \in c..Len(l) BY <1>1
  <2>2. SubSeq(l, 1, c) \o SubSeq(l, c + 1, Len(l)) = SubSeq(l, 1, Len(l))
    BY <1>0, <2>1, ConcatAdjacentSubSeq
  <2>3. SubSeq(l, 1, Len(l)) = l BY <1>0, SubSeqFull
  <2> QED BY <1>2, <1>3, <1>8, <2>2, <2>3
<1>6. Len(text) \in Nat /\ Len(text) <= FrameBudget BY <1>1, <1>2, <1>3
<1> QED BY <1>3, <1>4, <1>5, <1>6, <1>9

\* Two pieces glued one after the other are one.
LEMMA GlueGlue ==
  ASSUME NEW A \in Seq(Line), NEW g \in BOOLEAN, g => A # <<>>,
         NEW text \in Line, NEW rest \in Line
  PROVE  Glue(Glue(A, OutFrame(text, g)), OutFrame(rest, TRUE)) = Glue(A, OutFrame(text \o rest, g))
<1>1. PICK n \in Nat : n = Len(A) BY LenProperties
<1>2. PICK t : t = text \o rest OBVIOUS
<1>3. t \in Line BY <1>2, ConcatProperties DEF Line
<1>4. PICK B : B = Glue(A, OutFrame(text, g)) OBVIOUS
<1>5. OutFrame(text, g) \in Frame /\ OutFrame(t, g) \in Frame BY <1>3 DEF OutFrame, Frame
<1>6. B \in Seq(Line) /\ B # <<>> BY <1>4, <1>5, GlueType
<1>7. Glue(B, OutFrame(rest, TRUE)) = [B EXCEPT ![Len(B)] = B[Len(B)] \o rest]
  BY <1>6 DEF Glue, OutFrame
<1>8. CASE g
  <2>1. n \in 1..n /\ A[n] \in Line
    <3>1. n \in 1..n BY <1>1, <1>8, EmptySeq
    <3> QED BY <1>1, <3>1, ElementOfSeq
  <2>2. PICK e : e = A[n] \o text OBVIOUS
  <2>3. e \in Line BY <2>1, <2>2, ConcatProperties DEF Line
  <2>4. B = [A EXCEPT ![n] = e] BY <1>1, <1>4, <1>8, <2>2 DEF Glue, OutFrame
  <2>5. Len(B) = n /\ B[n] = e /\ DOMAIN A = 1..n
    BY <1>1, <2>1, <2>3, <2>4, ExceptSeq, LenProperties
  <2>6. e \o rest = A[n] \o t
    <3>0. PICK C : Line = Seq(C) BY DEF Line
    <3>1. PICK a : a = A[n] OBVIOUS
    <3>2. (a \o text) \o rest = a \o (text \o rest) 
      <4>1. a \in Seq(C) /\ text \in Seq(C) /\ rest \in Seq(C) BY <2>1, <3>0, <3>1
      <4> QED BY <4>1, ConcatAssociative
    <3> QED BY <1>2, <2>2, <3>1, <3>2
  <2>7. [B EXCEPT ![n] = e \o rest] = [A EXCEPT ![n] = A[n] \o t] BY <2>4, <2>5, <2>6
  <2>8. Glue(A, OutFrame(t, g)) = [A EXCEPT ![n] = A[n] \o t] BY <1>1, <1>8 DEF Glue, OutFrame
  <2> QED BY <1>2, <1>4, <1>7, <2>5, <2>7, <2>8
<1>9. CASE ~g
  <2>1. B = Append(A, text) /\ Glue(A, OutFrame(t, g)) = Append(A, t)
    BY <1>4, <1>9 DEF Glue, OutFrame
  <2>2. Len(B) = n + 1 /\ B[n + 1] = text /\ \A i \in 1..n : B[i] = A[i]
    BY <1>1, <2>1, AppendProperties
  <2>3. PICK C : C = Append(A, t) OBVIOUS
  <2>4. C \in Seq(Line) /\ Len(C) = n + 1 /\ C[n + 1] = t /\ \A i \in 1..n : C[i] = A[i]
    BY <1>1, <1>3, <2>3, AppendProperties
  <2>5. PICK D : D = [B EXCEPT ![n + 1] = t] OBVIOUS
  <2>6. D \in Seq(Line) /\ Len(D) = n + 1 /\ D[n + 1] = t /\ \A i \in 1..n : D[i] = B[i]
    <3>1. n + 1 \in 1..Len(B) BY <2>2
    <3>2. \A j \in 1..Len(B) : D[j] = IF j = n + 1 THEN t ELSE B[j] BY <1>3, <1>6, <2>5, <3>1, ExceptSeq
    <3>3. \A i \in 1..n : i \in 1..Len(B) /\ i # n + 1 BY <2>2
    <3>4. D \in Seq(Line) /\ Len(D) = Len(B) BY <1>3, <1>6, <2>5, <3>1, ExceptSeq
    <3> QED BY <2>2, <3>1, <3>2, <3>3, <3>4
  <2>7. \A i \in 1..(n + 1) : D[i] = C[i]
    <3>1. \A i \in 1..(n + 1) : i = n + 1 \/ i \in 1..n OBVIOUS
    <3> QED BY <2>2, <2>4, <2>6, <3>1
  <2>8. D = C BY <2>4, <2>6, <2>7, SeqEqual
  <2> QED BY <1>2, <1>4, <1>7, <2>1, <2>2, <2>3, <2>5, <2>8
<1> QED BY <1>8, <1>9

\* The lines the cut frames and those still to be cut make up.
Pending(A, g, ls) ==
  IF g THEN Glue(A, OutFrame(Head(ls), TRUE)) \o Tail(ls) ELSE A \o ls

\* The lines left when rest is what stays of the first.
Left(rest, ls) == (IF rest = <<>> THEN <<>> ELSE <<rest>>) \o Tail(ls)

\* The first of the lines is cut into text and rest.
Cuts(A, g, ls, text, rest, more) ==
  /\ A \in Seq(Line) /\ g \in BOOLEAN /\ (g => A # <<>>)
  /\ ls \in Seq(Line) /\ ls # <<>>
  /\ text \in Line /\ rest \in Line /\ Head(ls) = text \o rest /\ more = (rest # <<>>)

\* Cutting a frame off leaves them what they are.
LEMMA PendingFact ==
  ASSUME NEW A, NEW g, NEW ls, NEW text, NEW rest, NEW more, Cuts(A, g, ls, text, rest, more)
  PROVE  /\ Left(rest, ls) \in Seq(Line) /\ (rest # <<>> => Left(rest, ls) # <<>>)
         /\ Pending(Glue(A, OutFrame(text, g)), more, Left(rest, ls)) = Pending(A, g, ls)
<1> USE DEF Cuts
<1>0. PICK ls2 : ls2 = Left(rest, ls) OBVIOUS
<1>1. PICK h : h = Head(ls) OBVIOUS
<1>2. PICK tl : tl = Tail(ls) OBVIOUS
<1>3. h \in Line /\ tl \in Seq(Line) BY <1>1, <1>2, HeadTailProperties
<1>4. Glue(A, OutFrame(h, g)) \o tl = Pending(A, g, ls)
  <2>1. CASE g BY <1>1, <1>2, <2>1 DEF Pending
  <2>2. CASE ~g
    <3>1. Glue(A, OutFrame(h, g)) = Append(A, h) BY <2>2 DEF Glue, OutFrame
    <3>2. Append(A, h) = A \o <<h>> /\ <<h>> \in Seq(Line) BY <1>3, AppendIsConcat
    <3>3. (A \o <<h>>) \o tl = A \o (<<h>> \o tl) BY <1>3, <3>2, ConcatAssociative
    <3>4. <<h>> \o tl = ls
      <4>1. Len(ls) \in Nat \ {0} BY EmptySeq
      <4>2. 1 \in 1..Len(ls) /\ Len(ls) \in 1..Len(ls) BY <4>1
      <4>3. SubSeq(ls, 1, Len(ls)) = <<ls[1]>> \o SubSeq(ls, 1 + 1, Len(ls))
        BY <4>2, SubSeqRecursiveFirst
      <4>4. tl = SubSeq(ls, 2, Len(ls)) BY <1>2, TailIsSubSeq
      <4>5. Head(ls) = ls[1] BY <4>1
      <4>6. SubSeq(ls, 1, Len(ls)) = ls BY SubSeqFull
      <4> QED BY <1>1, <4>3, <4>4, <4>5, <4>6
    <3>5. Pending(A, g, ls) = A \o ls BY <2>2 DEF Pending
    <3> QED BY <3>1, <3>2, <3>3, <3>4, <3>5
  <2> QED BY <2>1, <2>2
<1>5. CASE rest = <<>>
  <2>1. ls2 = tl BY <1>0, <1>2, <1>3, <1>5, ConcatEmptySeq DEF Left
  <2>2. text = h BY <1>1, <1>5, ConcatEmptySeq DEF Line
  <2>3. Pending(Glue(A, OutFrame(text, g)), more, ls2) = Glue(A, OutFrame(text, g)) \o ls2
    BY <1>5 DEF Pending
  <2> QED BY <1>0, <1>3, <1>4, <1>5, <2>1, <2>2, <2>3
<1>6. CASE rest # <<>>
  <2>1. ls2 = <<rest>> \o tl /\ <<rest>> \in Seq(Line) BY <1>0, <1>2, <1>6 DEF Left
  <2>2. ls2 \in Seq(Line) /\ Len(ls2) = 1 + Len(tl) /\ ls2[1] = rest
        /\ \A i \in 2..(1 + Len(tl)) : ls2[i] = tl[i - 1]
    <3>1. Len(<<rest>>) = 1 /\ Len(tl) \in Nat /\ <<rest>>[1] = rest BY <1>3, LenProperties
    <3>2. \A i \in 1..(1 + Len(tl)) : ls2[i] = IF i <= 1 THEN <<rest>>[i] ELSE tl[i - 1]
      BY <1>3, <2>1, <3>1, ConcatProperties
    <3>3. ls2 \in Seq(Line) /\ Len(ls2) = 1 + Len(tl) BY <1>3, <2>1, <3>1, ConcatProperties
    <3>4. 1 \in 1..(1 + Len(tl)) /\ \A i \in 2..(1 + Len(tl)) : i \in 1..(1 + Len(tl)) /\ ~(i <= 1)
      BY <3>1
    <3>5. ls2[1] = rest
      <4>1. 1 \in 1..(1 + Len(tl)) /\ 1 <= 1 BY <3>1
      <4>2. ls2[1] = <<rest>>[1] BY <3>2, <4>1
      <4> QED BY <3>1, <4>2
    <3>6. \A i \in 2..(1 + Len(tl)) : ls2[i] = tl[i - 1] BY <3>2, <3>4
    <3> QED BY <3>3, <3>5, <3>6
  <2>3. Len(tl) \in Nat /\ ls2 # <<>>
    <3>1. Len(tl) \in Nat BY <1>3, LenProperties
    <3> QED BY <2>2, <3>1, EmptySeq
  <2>4. Head(ls2) = rest BY <2>2, <2>3
  <2>5. Tail(ls2) = tl
    <3>1. Tail(ls2) \in Seq(Line) /\ Len(Tail(ls2)) = Len(tl)
          /\ \A i \in 1..Len(tl) : Tail(ls2)[i] = ls2[i + 1]
      BY <2>2, <2>3, HeadTailProperties
    <3>2. \A i \in 1..Len(tl) : i + 1 \in 2..(1 + Len(tl)) /\ (i + 1) - 1 = i BY <2>3
    <3>3. \A i \in 1..Len(tl) : Tail(ls2)[i] = tl[i] BY <2>2, <3>1, <3>2
    <3> QED BY <1>3, <3>1, <3>3, SeqEqual
  <2>6. Pending(Glue(A, OutFrame(text, g)), more, ls2)
        = Glue(Glue(A, OutFrame(text, g)), OutFrame(rest, TRUE)) \o tl
    BY <1>6, <2>4, <2>5 DEF Pending
  <2>7. Glue(Glue(A, OutFrame(text, g)), OutFrame(rest, TRUE)) = Glue(A, OutFrame(h, g))
    <3>1. text \o rest = h BY <1>1
    <3>2. Glue(Glue(A, OutFrame(text, g)), OutFrame(rest, TRUE)) = Glue(A, OutFrame(text \o rest, g))
      BY GlueGlue
    <3> QED BY <3>1, <3>2
  <2> QED BY <1>0, <1>4, <2>2, <2>3, <2>6, <2>7
<1> QED BY <1>5, <1>6

-----------------------------------------------------------------------------
(* The lines survive *)

LineTypes ==
  /\ message \in Seq(Line) /\ lines \in Seq(Line) /\ glued \in BOOLEAN
  /\ planned \in Seq(Frame) /\ cur \in Seq(Frame) /\ sentBatches \in Seq(Seq(Frame))
  /\ hasCap \in BOOLEAN /\ maxLines \in Nat \ {0} /\ maxBytes \in Nat \ {0}
  /\ planPhase \in {"start", "cut", "pack", "done"}

\* The frames cut and the lines left, the batches and the frames left, make up
\* the message at every moment.
CutInv ==
  /\ planPhase = "start" =>
       /\ message = <<>> /\ lines = <<>> /\ ~glued /\ planned = <<>> /\ cur = <<>>
       /\ sentBatches = <<>>
  /\ planPhase \in {"cut", "pack"} => hasCap /\ Len(message) # 1
  /\ planPhase = "cut" =>
       /\ cur = <<>> /\ sentBatches = <<>>
       /\ glued => lines # <<>> /\ accLines(planned) # <<>>
       /\ Pending(accLines(planned), glued, lines) = Trimmed(message)
  /\ planPhase = "pack" =>
       accLines((OnTheWire(sentBatches) \o cur) \o planned) = Trimmed(message)
  /\ planPhase = "done" => accLines(OnTheWire(sentBatches)) = Meant

Small(frames) == \A i \in 1..Len(frames) : Len(frames[i].text) <= FrameBudget

Allowed(b) ==
  /\ Len(b) <= maxLines /\ Small(b)
  /\ WireBytes(b) <= maxBytes \/ Len(b) = 1

\* The batch in hand is counted and, like those sent, within the limits.
LimitInv ==
  /\ curBytes = WireBytes(cur)
  /\ hasCap /\ Len(message) > 1 =>
       /\ Small(planned) /\ (cur # <<>> => Allowed(cur))
       /\ \A n \in 1..Len(sentBatches) : Allowed(sentBatches[n])

LineInv == LineTypes /\ CutInv /\ LimitInv

LEMMA TrimmedType ==
  ASSUME NEW c \in Seq(Line)
  PROVE  Trimmed(c) \in Seq(Line)
<1>1. Len(c) \in Nat /\ DOMAIN c = 1..Len(c) BY LenProperties
<1>2. PICK D : D = {0} \cup {i \in DOMAIN c : ~IsBlank(c[i])} OBVIOUS
<1>3. \A i \in D : i \in 0..Len(c) BY <1>1, <1>2
<1>4. D \in SUBSET (0..Len(c)) /\ D # {} BY <1>2, <1>3
<1>5. Max(D) \in D BY <1>1, <1>4, GreatestNumber
<1>6. Max(D) \in 0..Len(c) BY <1>3, <1>5
<1>7. Trimmed(c) = SubSeq(c, 1, Max(D)) BY <1>2 DEF Trimmed
<1>8. 1 \in Nat \ {0} OBVIOUS
<1> QED BY <1>6, <1>7, <1>8, PieceFact

\* A message has one to three lines.
LEMMA ContentFact ==
  ASSUME NEW text \in Texts, NEW c \in Split(text)
  PROVE  c \in Seq(Line) /\ Len(c) \in 1..3
<1>1. text \in Line
  <2>1. PICK C : C = {"a", " "} OBVIOUS
  <2>2. text \in UNION {[1..m -> C] : m \in 0..MaxChars} BY <2>1 DEF Texts, BoundedSeq, SeqOf
  <2>3. PICK m \in 0..MaxChars : text \in [1..m -> C] BY <2>2
  <2>4. m \in Nat BY MultilineAssumption
  <2>5. text \in Seq(C) BY <2>3, <2>4
  <2> QED BY <2>1, <2>5 DEF Line
<1>2. PICK C : Line = Seq(C) BY DEF Line
<1>3. PICK n \in Nat : n = Len(text) BY <1>1, <1>2, LenProperties
<1>4. ASSUME NEW i \in 0..n, NEW j \in 0..n PROVE SubSeq(text, i + 1, j) \in Line
  <2>1. i + 1 \in Nat \ {0} BY <1>3
  <2> QED BY <1>1, <1>2, <1>3, <2>1, PieceFact
<1>5. 0 \in 0..n /\ n \in 0..n BY <1>3
<1>6. \/ c = <<text>>
      \/ \E i \in 0..n : c = <<SubSeq(text, 0 + 1, i), SubSeq(text, i + 1, n)>>
      \/ \E i \in 0..n : \E j \in i..n :
           c = <<SubSeq(text, 0 + 1, i), SubSeq(text, i + 1, j), SubSeq(text, j + 1, n)>>
  BY <1>3 DEF Split
<1>7. CASE c = <<text>> BY <1>1, <1>7
<1>8. ASSUME NEW i \in 0..n, c = <<SubSeq(text, 0 + 1, i), SubSeq(text, i + 1, n)>>
      PROVE  c \in Seq(Line) /\ Len(c) \in 1..3
  <2>1. SubSeq(text, 0 + 1, i) \in Line /\ SubSeq(text, i + 1, n) \in Line BY <1>4, <1>5
  <2> QED BY <1>8, <2>1
<1>9. ASSUME NEW i \in 0..n, NEW j \in i..n,
             c = <<SubSeq(text, 0 + 1, i), SubSeq(text, i + 1, j), SubSeq(text, j + 1, n)>>
      PROVE  c \in Seq(Line) /\ Len(c) \in 1..3
  <2>1. j \in 0..n BY <1>3
  <2>2. SubSeq(text, 0 + 1, i) \in Line /\ SubSeq(text, i + 1, j) \in Line
        /\ SubSeq(text, j + 1, n) \in Line BY <1>4, <1>5, <2>1
  <2> QED BY <1>9, <2>2
<1> QED BY <1>6, <1>7, <1>8, <1>9

LEMMA LineInit == MultilineInit => LineInv
<1> SUFFICES ASSUME MultilineInit PROVE LineInv OBVIOUS
<1>1. LineTypes BY MultilineAssumption, EmptySeq DEF MultilineInit, LineTypes
<1>2. CutInv BY DEF MultilineInit, CutInv
<1>3. LimitInv
  <2>1. curBytes = WireBytes(cur) BY BytesFact DEF MultilineInit
  <2>2. Len(message) = 0 BY DEF MultilineInit
  <2> QED BY <2>1, <2>2 DEF LimitInv
<1> QED BY <1>1, <1>2, <1>3 DEF LineInv

LEMMA SendLinesStep ==
  ASSUME LineInv, planPhase = "start", NEW text \in Texts, NEW typed \in Split(text),
         SendLines(typed)
  PROVE  LineInv'
<1>1. typed \in Seq(Line) /\ Len(typed) \in 1..3 BY ContentFact
<1>2. message' = typed BY DEF SendLines
<1>3. /\ lines = <<>> /\ ~glued /\ planned = <<>> /\ cur = <<>> /\ sentBatches = <<>>
      /\ LineTypes /\ curBytes = WireBytes(cur)
  BY DEF LineInv, CutInv, LimitInv
<1>4. /\ hasCap' = hasCap /\ maxLines' = maxLines /\ maxBytes' = maxBytes /\ glued' = glued
      /\ planned' = planned /\ cur' = cur /\ curBytes' = curBytes
  BY DEF SendLines
<1>5. curBytes' = WireBytes(cur)' BY <1>3, <1>4
<1>6. CASE Len(typed) = 1
  <2>1. sentBatches' = <<Alone(typed[1])>> /\ planPhase' = "done" /\ lines' = lines
    BY <1>6 DEF SendLines
  <2>2. typed[1] \in Line
    <3>1. 1 \in 1..Len(typed) BY <1>6
    <3> QED BY <1>1, <3>1, ElementOfSeq
  <2>3. PICK f : f = OutFrame(typed[1], FALSE) OBVIOUS
  <2>4. f \in Frame /\ ~f.concat /\ f.text = typed[1] BY <2>2, <2>3 DEF OutFrame, Frame
  <2>5. sentBatches' = <<<<f>>>> BY <2>1, <2>3 DEF Alone
  <2>6. <<f>> \in Seq(Frame) /\ <<<<f>>>> \in Seq(Seq(Frame)) BY <2>4
  <2>7. LineTypes' BY <1>1, <1>2, <1>3, <1>4, <2>1, <2>5, <2>6 DEF LineTypes
  <2>8. accLines(OnTheWire(<<<<f>>>>)) = typed
    <3>1. Append(<<>>, <<f>>) = <<<<f>>>> /\ Append(<<>>, f) = <<f>> OBVIOUS
    <3>2. <<>> \in Seq(Seq(Frame)) /\ <<>> \in Seq(Frame) BY EmptySeq
    <3>3. OnTheWire(Append(<<>>, <<f>>)) = <<>> \o <<f>> BY <2>6, <3>2, WireFact
    <3>4. <<>> \o <<f>> = <<f>> BY <2>6, ConcatEmptySeq
    <3>5. accLines(Append(<<>>, f)) = Glue(<<>>, f) BY <2>4, <3>2, AccFact
    <3>6. Glue(<<>>, f) = <<typed[1]>> BY <2>4 DEF Glue
    <3>7. <<typed[1]>> = typed
      <4>1. <<typed[1]>> \in Seq(Line) /\ Len(<<typed[1]>>) = Len(typed) BY <1>6, <2>2
      <4>2. \A i \in 1..1 : <<typed[1]>>[i] = typed[i] OBVIOUS
      <4> QED BY <1>1, <1>6, <4>1, <4>2, SeqEqual
    <3> QED BY <3>1, <3>3, <3>4, <3>5, <3>6, <3>7
  <2>9. CutInv' BY <1>2, <1>6, <2>1, <2>5, <2>8 DEF CutInv, Meant
  <2>10. LimitInv' BY <1>2, <1>5, <1>6 DEF LimitInv
  <2> QED BY <2>7, <2>9, <2>10 DEF LineInv
<1>7. CASE Len(typed) # 1 /\ hasCap
  <2>1. lines' = Trimmed(typed) /\ planPhase' = "cut" /\ sentBatches' = sentBatches
    BY <1>7 DEF SendLines
  <2>2. Trimmed(typed) \in Seq(Line) BY <1>1, TrimmedType
  <2>3. LineTypes' BY <1>1, <1>2, <1>3, <1>4, <2>1, <2>2 DEF LineTypes
  <2>4. Pending(accLines(<<>>), FALSE, Trimmed(typed)) = Trimmed(typed)
    BY <2>2, AccFact, ConcatEmptySeq DEF Pending
  <2>5. CutInv'
    <3>1. glued' = FALSE /\ planned' = <<>> BY <1>3, <1>4 DEF LineTypes
    <3> QED BY <1>2, <1>3, <1>4, <1>7, <2>1, <2>4, <3>1 DEF CutInv
  <2>6. LimitInv'
    <3>1. planned' = <<>> /\ cur' = <<>> /\ sentBatches' = <<>> BY <1>3, <1>4, <2>1
    <3>2. Small(planned)' BY <3>1 DEF Small
    <3> QED BY <1>5, <3>1, <3>2 DEF LimitInv
  <2> QED BY <2>3, <2>5, <2>6 DEF LineInv
<1>8. CASE Len(typed) # 1 /\ ~hasCap
  <2>1. PICK sp : sp = NonBlank(Trimmed(typed)) OBVIOUS
  <2>2. sentBatches' = [i \in 1..Len(sp) |-> Alone(sp[i])] /\ planPhase' = "done" /\ lines' = lines
    BY <1>8, <2>1 DEF SendLines
  <2>3. sp \in Seq(Line)
    <3>1. Trimmed(typed) \in Seq(Line) BY <1>1, TrimmedType
    <3>2. PICK t \in Seq(Line) : t = Trimmed(typed) BY <3>1
    <3>3. Len(t) \in Nat BY LenProperties
    <3>4. Len(t) \in 0..Len(t) BY <3>3
    <3>5. NonBlank(t) \in Seq(Line) BY <3>4, NonBlankFold
    <3> QED BY <2>1, <3>2, <3>5
  <2>4. sentBatches' \in Seq(Seq(Frame)) /\ accLines(OnTheWire(sentBatches')) = sp
    BY <2>2, <2>3, AloneFact
  <2>5. LineTypes' BY <1>1, <1>2, <1>3, <1>4, <2>2, <2>4 DEF LineTypes
  <2>6. CutInv' BY <1>2, <1>4, <1>8, <2>1, <2>2, <2>4 DEF CutInv, Meant
  <2>7. LimitInv' BY <1>4, <1>5, <1>8 DEF LimitInv
  <2> QED BY <2>5, <2>6, <2>7 DEF LineInv
<1>9. hasCap \in BOOLEAN BY <1>3 DEF LineTypes
<1> QED BY <1>6, <1>7, <1>8, <1>9

LEMMA CutFrameStep ==
  ASSUME LineInv, CutFrame
  PROVE  LineInv'
<1>1. /\ LineTypes /\ hasCap /\ Len(message) # 1 /\ planPhase = "cut"
      /\ cur = <<>> /\ sentBatches = <<>>
      /\ glued => lines # <<>> /\ accLines(planned) # <<>>
      /\ Pending(accLines(planned), glued, lines) = Trimmed(message)
      /\ curBytes = WireBytes(cur)
      /\ Len(message) > 1 => Small(planned)
  BY DEF LineInv, CutInv, LimitInv, CutFrame
<1>2. /\ message' = message /\ hasCap' = hasCap /\ maxLines' = maxLines /\ maxBytes' = maxBytes
      /\ cur' = cur /\ curBytes' = curBytes /\ sentBatches' = sentBatches
  BY DEF CutFrame
<1>3. Trimmed(message)' = Trimmed(message) BY <1>2 DEF Trimmed
<1>4. planned \in Seq(Frame) /\ lines \in Seq(Line) /\ glued \in BOOLEAN BY <1>1 DEF LineTypes
<1>5. accLines(planned) \in Seq(Line)
  <2>1. OutFrame(<<>>, TRUE) \in Frame BY EmptySeq DEF OutFrame, Frame, Line
  <2> QED BY <1>4, <2>1, AccFact
<1>6. CASE lines = <<>>
  <2>1. planPhase' = "pack" /\ lines' = lines /\ glued' = glued /\ planned' = planned
    BY <1>6 DEF CutFrame
  <2>2. accLines((OnTheWire(<<>>) \o <<>>) \o planned) = Trimmed(message)
    <3>1. Pending(accLines(planned), glued, lines) = accLines(planned)
      BY <1>1, <1>5, <1>6, ConcatEmptySeq DEF Pending
    <3>2. OnTheWire(<<>>) = <<>> /\ <<>> \o <<>> = <<>> BY WireFact
    <3>3. <<>> \o planned = planned BY <1>4, ConcatEmptySeq
    <3> QED BY <1>1, <3>1, <3>2, <3>3
  <2>3. LineTypes' BY <1>1, <1>2, <2>1 DEF LineTypes
  <2>4. CutInv' BY <1>1, <1>2, <1>3, <2>1, <2>2 DEF CutInv
  <2>5. LimitInv'
    <3>1. Small(planned)' = Small(planned) BY <2>1 DEF Small
    <3> QED BY <1>1, <1>2, <3>1 DEF LimitInv
  <2> QED BY <2>3, <2>4, <2>5 DEF LineInv
<1>7. CASE lines # <<>>
  <2>1. PICK l : l = Head(lines) OBVIOUS
  <2>2. PICK text : text = Chunk(l) OBVIOUS
  <2>3. PICK rest : rest = Rest(l) OBVIOUS
  <2>4. l \in Line BY <1>4, <1>7, <2>1, HeadTailProperties
  <2>5. /\ text \in Line /\ rest \in Line /\ l = text \o rest
        /\ Len(text) \in Nat /\ Len(text) <= FrameBudget
    BY <2>2, <2>3, <2>4, ChunkFact
  <2>6. PICK f : f = OutFrame(text, glued) OBVIOUS
  <2>7. f \in Frame /\ f.text = text BY <1>4, <2>5, <2>6 DEF OutFrame, Frame
  <2>8. planned' = Append(planned, f) /\ glued' = (rest # <<>>) /\ planPhase' = planPhase
        /\ lines' = (IF rest = <<>> THEN <<>> ELSE <<rest>>) \o Tail(lines)
    BY <1>7, <2>1, <2>2, <2>3, <2>6 DEF CutFrame, Rest
  <2>9. accLines(planned') = Glue(accLines(planned), f) BY <1>4, <2>7, <2>8, AccFact
  <2>10. /\ lines' \in Seq(Line) /\ (rest # <<>> => lines' # <<>>)
         /\ Pending(Glue(accLines(planned), f), rest # <<>>, lines') = Trimmed(message)
    <3>1. PICK A : A = accLines(planned) OBVIOUS
    <3>2. PICK ls2 : ls2 = lines' OBVIOUS
    <3>3. PICK ls : ls = lines OBVIOUS
    <3>4. PICK g : g = glued OBVIOUS
    <3>5. A \in Seq(Line) /\ ls \in Seq(Line) /\ ls # <<>> /\ g \in BOOLEAN /\ (g => A # <<>>)
      BY <1>1, <1>4, <1>5, <1>7, <3>1, <3>3, <3>4
    <3>6. Head(ls) = text \o rest BY <2>1, <2>5, <3>3
    <3>7. ls2 = Left(rest, ls) BY <2>8, <3>2, <3>3 DEF Left
    <3>9. PICK more : more = (rest # <<>>) OBVIOUS
    <3>8. /\ Left(rest, ls) \in Seq(Line) /\ (rest # <<>> => Left(rest, ls) # <<>>)
          /\ Pending(Glue(A, OutFrame(text, g)), more, Left(rest, ls)) = Pending(A, g, ls)
      <4>1. Cuts(A, g, ls, text, rest, more) BY <2>5, <3>5, <3>6, <3>9 DEF Cuts
      <4> QED BY <4>1, PendingFact
    <3> QED BY <1>1, <2>6, <3>1, <3>2, <3>3, <3>4, <3>7, <3>8, <3>9
  <2>11. Glue(accLines(planned), f) # <<>> BY <1>5, <2>7, GlueType
  <2>12. planned' \in Seq(Frame) BY <1>4, <2>7, <2>8, AppendProperties
  <2>13. LineTypes' BY <1>1, <1>2, <2>8, <2>10, <2>12 DEF LineTypes
  <2>14. CutInv'
    <3>1. Pending(accLines(planned), glued, lines)' = Trimmed(message)'
      BY <1>3, <2>8, <2>9, <2>10
    <3> QED BY <1>1, <1>2, <2>8, <2>9, <2>10, <2>11, <3>1 DEF CutInv
  <2>15. LimitInv'
    <3>1. ASSUME Len(message) > 1 PROVE Small(planned')
      <4>1. PICK n \in Nat : n = Len(planned) BY <1>4, LenProperties
      <4>2. PICK all : all = planned' OBVIOUS
      <4>3. Len(all) = n + 1 /\ all[n + 1] = f /\ \A i \in 1..n : all[i] = planned[i]
        BY <1>4, <2>7, <2>8, <4>1, <4>2, AppendProperties
      <4>4. \A i \in 1..n : Len(planned[i].text) <= FrameBudget BY <1>1, <3>1, <4>1 DEF Small
      <4>5. \A i \in 1..(n + 1) : i = n + 1 \/ i \in 1..n OBVIOUS
      <4> QED BY <2>5, <2>7, <4>2, <4>3, <4>4, <4>5 DEF Small
    <3>2. Len(message') > 1 => Small(planned)' BY <1>2, <3>1
    <3> QED BY <1>1, <1>2, <3>2 DEF LimitInv
  <2> QED BY <2>13, <2>14, <2>15 DEF LineInv
<1> QED BY <1>6, <1>7

\* The first frame of what is left.
LEMMA HeadFact ==
  ASSUME NEW S, NEW s \in Seq(S), s # <<>>
  PROVE  Head(s) \in S /\ Tail(s) \in Seq(S) /\ s = <<Head(s)>> \o Tail(s)
<1>1. Len(s) \in Nat \ {0} BY EmptySeq
<1>2. 1 \in 1..Len(s) /\ Len(s) \in 1..Len(s) BY <1>1
<1>3. SubSeq(s, 1, Len(s)) = <<s[1]>> \o SubSeq(s, 1 + 1, Len(s)) BY <1>2, SubSeqRecursiveFirst
<1>4. Tail(s) = SubSeq(s, 2, Len(s)) BY TailIsSubSeq
<1>5. Head(s) = s[1] BY <1>1
<1>6. SubSeq(s, 1, Len(s)) = s BY SubSeqFull
<1> QED BY <1>3, <1>4, <1>5, <1>6, HeadTailProperties

LEMMA PackFrameStep ==
  ASSUME LineInv, PackFrame
  PROVE  LineInv'
<1>1. /\ LineTypes /\ hasCap /\ Len(message) # 1 /\ planPhase = "pack" /\ planned # <<>>
      /\ accLines((OnTheWire(sentBatches) \o cur) \o planned) = Trimmed(message)
      /\ curBytes = WireBytes(cur)
      /\ Len(message) > 1 =>
           /\ Small(planned) /\ (cur # <<>> => Allowed(cur))
           /\ \A n \in 1..Len(sentBatches) : Allowed(sentBatches[n])
  BY DEF LineInv, CutInv, LimitInv, PackFrame
<1>2. /\ message' = message /\ hasCap' = hasCap /\ maxLines' = maxLines /\ maxBytes' = maxBytes
      /\ lines' = lines /\ glued' = glued /\ planPhase' = planPhase /\ planned' = Tail(planned)
  BY DEF PackFrame
<1>3. Trimmed(message)' = Trimmed(message) BY <1>2 DEF Trimmed
<1>4. /\ planned \in Seq(Frame) /\ cur \in Seq(Frame) /\ sentBatches \in Seq(Seq(Frame))
      /\ maxLines \in Nat \ {0} /\ maxBytes \in Nat \ {0}
  BY <1>1 DEF LineTypes
<1>5. PICK f : f = Head(planned) OBVIOUS
<1>6. f \in Frame /\ Tail(planned) \in Seq(Frame) /\ planned = <<f>> \o Tail(planned)
  BY <1>1, <1>4, <1>5, HeadFact
<1>7. Len(f.text) \in Nat
  <2>1. PICK C : Line = Seq(C) BY DEF Line
  <2>2. f.text \in Line BY <1>6 DEF Frame
  <2> QED BY <2>1, <2>2, LenProperties
<1>8. PICK W : W = OnTheWire(sentBatches) OBVIOUS
<1>9. W \in Seq(Frame)
  <2>1. <<>> \in Seq(Frame) BY EmptySeq
  <2> QED BY <1>4, <1>8, <2>1, WireFact
<1>10. <<f>> \in Seq(Frame) /\ Len(<<f>>) = 1 BY <1>6
<1>11. /\ Len(message) > 1 => Len(f.text) <= FrameBudget /\ Small(planned')
  <2>1. Len(planned) \in Nat \ {0} BY <1>1, <1>4, EmptySeq
  <2>2. f = planned[1] BY <1>5, <2>1
  <2>3. Len(Tail(planned)) = Len(planned) - 1
        /\ \A i \in 1..Len(Tail(planned)) : Tail(planned)[i] = planned[i + 1]
    BY <1>1, <1>4, HeadTailProperties
  <2>4. 1 \in 1..Len(planned) /\ \A i \in 1..Len(Tail(planned)) : i + 1 \in 1..Len(planned)
    BY <2>1, <2>3
  <2> QED BY <1>1, <1>2, <2>2, <2>3, <2>4 DEF Small
<1>12. WireBytes(<<f>>) = Len(f.text) /\ Append(<<>>, f) = <<f>>
  <2>1. <<>> \in Seq(Frame) /\ Append(<<>>, f) = <<f>> BY EmptySeq
  <2>2. WireBytes(Append(<<>>, f)) = WireBytes(<<>>) + Len(f.text) + 0 BY <1>6, <2>1, BytesFact
  <2>3. WireBytes(<<>>) = 0 BY BytesFact
  <2> QED BY <1>7, <2>1, <2>2, <2>3
<1>13. WireBytes(cur) \in Int /\ Len(cur) \in Nat BY <1>4, <1>6, BytesFact, LenProperties
<1>14. PICK full : full = (cur # <<>> /\ (Len(cur) >= maxLines
                                           \/ curBytes + JoinedCost(f.text) > maxBytes))
  OBVIOUS
<1>15. CASE full
  <2>1. sentBatches' = Append(sentBatches, cur) /\ cur' = <<f>> /\ curBytes' = Len(f.text)
    BY <1>5, <1>14, <1>15 DEF PackFrame
  <2>2. sentBatches' \in Seq(Seq(Frame)) BY <1>4, <2>1, AppendProperties
  <2>3. LineTypes' BY <1>1, <1>2, <1>6, <1>10, <2>1, <2>2 DEF LineTypes
  <2>4. OnTheWire(sentBatches') = W \o cur BY <1>4, <1>8, <2>1, WireFact
  <2>5. ((W \o cur) \o <<f>>) \o Tail(planned) = (W \o cur) \o planned
    <3>1. PICK B : B = W \o cur OBVIOUS
    <3>2. B \in Seq(Frame) BY <1>4, <1>9, <3>1, ConcatProperties
    <3> QED BY <1>6, <1>10, <3>1, <3>2, ConcatAssociative
  <2>6. CutInv'
    <3>1. accLines((OnTheWire(sentBatches') \o cur') \o planned') = Trimmed(message)'
      BY <1>1, <1>2, <1>3, <1>8, <2>1, <2>4, <2>5
    <3> QED BY <1>1, <1>2, <3>1 DEF CutInv
  <2>7. LimitInv'
    <3>1. curBytes' = WireBytes(cur') BY <1>12, <2>1
    <3>2. ASSUME Len(message) > 1
          PROVE  Allowed(cur') /\ \A n \in 1..Len(sentBatches') : Allowed(sentBatches'[n])
      <4>1. Small(<<f>>) BY <1>10, <1>11, <3>2 DEF Small
      <4>2. Allowed(cur') BY <1>4, <1>10, <2>1, <4>1 DEF Allowed
      <4>3. PICK n \in Nat : n = Len(sentBatches) BY <1>4, LenProperties
      <4>4. Len(sentBatches') = n + 1 /\ sentBatches'[n + 1] = cur
            /\ \A i \in 1..n : sentBatches'[i] = sentBatches[i]
        BY <1>4, <2>1, <4>3, AppendProperties
      <4>5. \A i \in 1..(n + 1) : i = n + 1 \/ i \in 1..n OBVIOUS
      <4>6. Allowed(cur) /\ \A i \in 1..n : Allowed(sentBatches[i]) BY <1>1, <1>14, <1>15, <3>2, <4>3
      <4> QED BY <4>2, <4>4, <4>5, <4>6
    <3>3. \A b : Allowed(b)' = Allowed(b) BY <1>2 DEF Allowed, Small
    <3>4. Allowed(cur') <=> Allowed(cur)' BY <1>2 DEF Allowed, Small
    <3>5. (\A n \in 1..Len(sentBatches') : Allowed(sentBatches'[n]))
          => \A n \in (1..Len(sentBatches))' : Allowed(sentBatches[n])' BY <1>2 DEF Allowed, Small
    <3>6. Small(planned') <=> Small(planned)' BY DEF Small
    <3> QED BY <1>2, <1>11, <3>1, <3>2, <3>4, <3>5, <3>6 DEF LimitInv
  <2> QED BY <2>3, <2>6, <2>7 DEF LineInv
<1>16. CASE ~full
  <2>1. sentBatches' = sentBatches /\ cur' = Append(cur, f)
        /\ curBytes' = curBytes + JoinedCost(f.text)
    BY <1>5, <1>14, <1>16 DEF PackFrame
  <2>2. cur' \in Seq(Frame) /\ cur' = cur \o <<f>> /\ cur' # <<>> /\ Len(cur') = Len(cur) + 1
    BY <1>4, <1>6, <2>1, AppendProperties, AppendIsConcat
  <2>3. LineTypes' BY <1>1, <1>2, <1>6, <2>1, <2>2 DEF LineTypes
  <2>4. (W \o (cur \o <<f>>)) \o Tail(planned) = (W \o cur) \o planned
    <3>1. PICK c : c = cur OBVIOUS
    <3>2. c \in Seq(Frame) BY <1>4, <3>1
    <3>3. PICK B : B = W \o c OBVIOUS
    <3>4. B \in Seq(Frame) BY <1>9, <3>2, <3>3, ConcatProperties
    <3>5. W \o (c \o <<f>>) = B \o <<f>> BY <1>9, <1>10, <3>2, <3>3, ConcatAssociative
    <3>6. (B \o <<f>>) \o Tail(planned) = B \o (<<f>> \o Tail(planned))
      BY <1>6, <1>10, <3>4, ConcatAssociative
    <3> QED BY <1>6, <3>1, <3>3, <3>5, <3>6
  <2>5. CutInv'
    <3>1. accLines((OnTheWire(sentBatches') \o cur') \o planned') = Trimmed(message)'
      BY <1>1, <1>2, <1>3, <1>8, <2>1, <2>2, <2>4
    <3> QED BY <1>1, <1>2, <3>1 DEF CutInv
  <2>6. WireBytes(cur') = curBytes' /\ curBytes' \in Int
    <3>1. WireBytes(cur') = WireBytes(cur) + Len(f.text) + (IF cur = <<>> THEN 0 ELSE 1)
      BY <1>4, <1>6, <2>1, BytesFact
    <3>2. JoinedCost(f.text) = Len(f.text) + (IF cur = <<>> THEN 0 ELSE 1) BY DEF JoinedCost
    <3>3. PICK c \in Int : c = WireBytes(cur) BY <1>13
    <3>4. PICK k \in Nat : k = Len(f.text) BY <1>7
    <3>5. curBytes = c /\ curBytes' = c + (k + (IF cur = <<>> THEN 0 ELSE 1))
      BY <1>1, <2>1, <3>2, <3>3, <3>4
    <3>6. WireBytes(cur') = c + k + (IF cur = <<>> THEN 0 ELSE 1) BY <3>1, <3>3, <3>4
    <3> QED BY <3>5, <3>6
  <2>7. ASSUME Len(message) > 1 PROVE Allowed(cur')
    <3>1. CASE cur = <<>>
      <4>1. cur' = <<f>> BY <1>12, <2>1, <3>1
      <4>2. Small(<<f>>) BY <1>10, <1>11, <2>7 DEF Small
      <4> QED BY <1>4, <1>10, <4>1, <4>2 DEF Allowed
    <3>2. CASE cur # <<>>
      <4>1. Allowed(cur) BY <1>1, <2>7, <3>2
      <4>2. Len(cur) < maxLines /\ curBytes' <= maxBytes
        <5>1. ~(Len(cur) >= maxLines) /\ ~(curBytes + JoinedCost(f.text) > maxBytes)
          BY <1>14, <1>16, <3>2
        <5> QED BY <1>4, <1>13, <2>1, <2>6, <5>1
      <4>3. Small(cur')
        <5>1. PICK n \in Nat : n = Len(cur) BY <1>13
        <5>2. Len(cur') = n + 1 /\ cur'[n + 1] = f /\ \A i \in 1..n : cur'[i] = cur[i]
          BY <1>4, <1>6, <2>1, <5>1, AppendProperties
        <5>3. \A i \in 1..n : Len(cur[i].text) <= FrameBudget BY <4>1, <5>1 DEF Allowed, Small
        <5>4. \A i \in 1..(n + 1) : i = n + 1 \/ i \in 1..n OBVIOUS
        <5> QED BY <1>11, <2>7, <5>2, <5>3, <5>4 DEF Small
      <4>4. Len(cur') <= maxLines BY <1>4, <1>13, <2>2, <4>2
      <4> QED BY <2>6, <4>2, <4>3, <4>4 DEF Allowed
    <3> QED BY <3>1, <3>2
  <2>8. LimitInv'
    <3>1. Allowed(cur') <=> Allowed(cur)' BY <1>2 DEF Allowed, Small
    <3>2. (\A n \in 1..Len(sentBatches) : Allowed(sentBatches[n]))
          => \A n \in (1..Len(sentBatches))' : Allowed(sentBatches[n])'
      BY <1>2, <2>1 DEF Allowed, Small
    <3>3. Small(planned') <=> Small(planned)' BY DEF Small
    <3> QED BY <1>1, <1>2, <1>11, <2>6, <2>7, <3>1, <3>2, <3>3 DEF LimitInv
  <2> QED BY <2>3, <2>5, <2>8 DEF LineInv
<1> QED BY <1>15, <1>16

LEMMA FlushPlanStep ==
  ASSUME LineInv, FlushPlan
  PROVE  LineInv'
<1>1. /\ LineTypes /\ hasCap /\ Len(message) # 1 /\ planned = <<>>
      /\ accLines((OnTheWire(sentBatches) \o cur) \o planned) = Trimmed(message)
      /\ Len(message) > 1 =>
           /\ (cur # <<>> => Allowed(cur))
           /\ \A n \in 1..Len(sentBatches) : Allowed(sentBatches[n])
  BY DEF LineInv, CutInv, LimitInv, FlushPlan
<1>2. /\ message' = message /\ hasCap' = hasCap /\ maxLines' = maxLines /\ maxBytes' = maxBytes
      /\ lines' = lines /\ glued' = glued /\ planPhase' = "done" /\ planned' = planned
      /\ cur' = <<>> /\ curBytes' = 0
      /\ sentBatches' = IF cur = <<>> THEN sentBatches ELSE Append(sentBatches, cur)
  BY DEF FlushPlan
<1>3. cur \in Seq(Frame) /\ sentBatches \in Seq(Seq(Frame)) BY <1>1 DEF LineTypes
<1>4. <<>> \in Seq(Frame) BY EmptySeq
<1>5. sentBatches' \in Seq(Seq(Frame)) BY <1>2, <1>3, AppendProperties
<1>6. PICK W : W = OnTheWire(sentBatches) OBVIOUS
<1>7. W \in Seq(Frame) BY <1>3, <1>4, <1>6, WireFact
<1>8. OnTheWire(sentBatches') = W \o cur
  <2>1. CASE cur = <<>> BY <1>2, <1>6, <1>7, <2>1, ConcatEmptySeq
  <2>2. CASE cur # <<>> BY <1>2, <1>3, <1>6, <2>2, WireFact
  <2> QED BY <2>1, <2>2
<1>9. (W \o cur) \o <<>> = W \o cur BY <1>3, <1>7, ConcatProperties, ConcatEmptySeq
<1>10. LineTypes' BY <1>1, <1>2, <1>4, <1>5 DEF LineTypes
<1>11. CutInv'
  <2>1. Meant' = Trimmed(message) BY <1>1, <1>2 DEF Meant, Trimmed
  <2>2. accLines(OnTheWire(sentBatches')) = Trimmed(message) BY <1>1, <1>6, <1>8, <1>9
  <2> QED BY <1>2, <2>1, <2>2 DEF CutInv
<1>12. LimitInv'
  <2>1. curBytes' = WireBytes(cur') BY <1>2, BytesFact
  <2>2. Small(planned)' BY <1>1, <1>2, EmptySeq DEF Small
  <2>3. ASSUME Len(message) > 1 PROVE \A n \in 1..Len(sentBatches') : Allowed(sentBatches'[n])
    <3>1. CASE cur = <<>> BY <1>1, <1>2, <2>3, <3>1
    <3>2. CASE cur # <<>>
      <4>1. PICK n \in Nat : n = Len(sentBatches) BY <1>3, LenProperties
      <4>2. Len(sentBatches') = n + 1 /\ sentBatches'[n + 1] = cur
            /\ \A i \in 1..n : sentBatches'[i] = sentBatches[i]
        BY <1>2, <1>3, <3>2, <4>1, AppendProperties
      <4>3. \A i \in 1..(n + 1) : i = n + 1 \/ i \in 1..n OBVIOUS
      <4> QED BY <1>1, <2>3, <3>2, <4>1, <4>2, <4>3
    <3> QED BY <3>1, <3>2
  <2>4. (\A n \in 1..Len(sentBatches') : Allowed(sentBatches'[n]))
        => \A n \in (1..Len(sentBatches))' : Allowed(sentBatches[n])'
    BY <1>2 DEF Allowed, Small
  <2> QED BY <1>2, <2>1, <2>2, <2>3, <2>4 DEF LimitInv
<1> QED BY <1>10, <1>11, <1>12 DEF LineInv

LEMMA LineStep == LineInv /\ [MultilineNext]_lineVars => LineInv'
<1> SUFFICES ASSUME LineInv, [MultilineNext]_lineVars PROVE LineInv' OBVIOUS
<1>1. CASE planPhase = "start" /\ \E text \in Texts : \E typed \in Split(text) : SendLines(typed)
  BY <1>1, SendLinesStep
<1>2. CASE CutFrame BY <1>2, CutFrameStep
<1>3. CASE PackFrame BY <1>3, PackFrameStep
<1>4. CASE FlushPlan BY <1>4, FlushPlanStep
<1>5. CASE UNCHANGED lineVars
  BY <1>5 DEF lineVars, LineInv, LineTypes, CutInv, LimitInv, Meant, Trimmed, Small, Allowed
<1> QED BY <1>1, <1>2, <1>3, <1>4, <1>5 DEF MultilineNext

\* At rest the invariant is the property.
LEMMA LineInvMeans == LineInv => LinesKept
<1> SUFFICES ASSUME LineInv PROVE LinesKept OBVIOUS
<1>1. LimitsKept
  <2> SUFFICES ASSUME hasCap, Len(message) > 1,
                      NEW b \in Range(sentBatches) \cup ({cur} \ {<<>>})
               PROVE  /\ Len(b) <= maxLines
                      /\ \A i \in DOMAIN b : Len(b[i].text) <= FrameBudget
                      /\ WireBytes(b) <= maxBytes \/ Len(b) = 1
    BY DEF LimitsKept
  <2>1. Allowed(b) /\ b \in Seq(Frame)
    <3>1. sentBatches \in Seq(Seq(Frame)) /\ cur \in Seq(Frame) BY DEF LineInv, LineTypes
    <3>2. CASE b \in Range(sentBatches)
      <4>1. PICK n \in DOMAIN sentBatches : b = sentBatches[n] BY <3>2 DEF Range
      <4>2. n \in 1..Len(sentBatches) BY <3>1, LenProperties
      <4> QED BY <3>1, <4>1, <4>2, ElementOfSeq DEF LineInv, LimitInv
    <3>3. CASE b = cur /\ cur # <<>> BY <3>1, <3>3 DEF LineInv, LimitInv
    <3> QED BY <3>2, <3>3
  <2>2. DOMAIN b = 1..Len(b) BY <2>1, LenProperties
  <2> QED BY <2>1, <2>2 DEF Allowed, Small
<1>2. LinesSurvive
  <2> SUFFICES ASSUME planPhase = "done"
               PROVE  /\ accLines(OnTheWire(sentBatches)) = Meant
                      /\ hasCap /\ Len(sentBatches) = 1 => accLines(sentBatches[1]) = Meant
    BY DEF LinesSurvive
  <2>1. accLines(OnTheWire(sentBatches)) = Meant BY DEF LineInv, CutInv
  <2>2. ASSUME Len(sentBatches) = 1 PROVE OnTheWire(sentBatches) = sentBatches[1]
    <3>1. sentBatches \in Seq(Seq(Frame)) BY DEF LineInv, LineTypes
    <3>2. PICK b : b = sentBatches[1] OBVIOUS
    <3>3. b \in Seq(Frame)
      <4>1. 1 \in 1..Len(sentBatches) BY <2>2
      <4> QED BY <3>1, <3>2, <4>1, ElementOfSeq
    <3>4. sentBatches = <<b>>
      <4>1. <<b>> \in Seq(Seq(Frame)) /\ Len(<<b>>) = 1 BY <3>3
      <4>2. \A i \in 1..1 : sentBatches[i] = <<b>>[i] BY <3>2
      <4> QED BY <2>2, <3>1, <4>1, <4>2, SeqEqual
    <3>5. <<>> \in Seq(Seq(Frame)) /\ Append(<<>>, b) = <<b>> BY EmptySeq
    <3>6. OnTheWire(Append(<<>>, b)) = OnTheWire(<<>>) \o b BY <3>3, <3>5, WireFact
    <3>7. OnTheWire(<<>>) = <<>> BY WireFact
    <3>8. <<>> \o b = b BY <3>3, ConcatEmptySeq
    <3> QED BY <3>2, <3>4, <3>5, <3>6, <3>7, <3>8
  <2> QED BY <2>1, <2>2
<1> QED BY <1>1, <1>2 DEF LinesKept

\* The plan keeps the server's limits, and what is sent, joined again, is what
\* was typed (planMultiline, accLines): for every text, budget and limits.
THEOREM LinesStayKept == MultilineSpec => []LinesKept
<1>1. MultilineSpec => []LineInv BY LineInit, LineStep, PTL DEF MultilineSpec
<1> QED BY <1>1, LineInvMeans, PTL

-----------------------------------------------------------------------------
(* Atoms of a text *)

\* What is on the wire: atoms of the text, letters and the sign of a channel.
Glyphs == Atoms \cup {Sign(c) : c \in {"a", "b", "#"}}

Blank == Sign(" ")
Web == Sign("www.")
Sep(g) == g \in {Sign(" "), Sign("@"), Sign("<")}

\* A sign is its rune.
LEMMA SignFact ==
  /\ \A c : Sign(c).mark = "none" /\ Sign(c).id = <<c>> /\ Sign(c).id[1] = c
  /\ \A c, d : Sign(c) = Sign(d) => c = d
<1>1. \A c : Sign(c).mark = "none" /\ Sign(c).id = <<c>> /\ Sign(c).id[1] = c BY DEF Sign
<1>2. ASSUME NEW c, NEW d, Sign(c) = Sign(d) PROVE c = d
  <2>1. Sign(c).id[1] = Sign(d).id[1] BY <1>2
  <2> QED BY <1>1, <2>1
<1> QED BY <1>1, <1>2

\* Signs are told apart.
LEMMA SepFact ==
  /\ \A g : Sep(g) => ~IsLetter(g) /\ g # Web /\ g.mark = "none" /\ g # Sign("#")
  /\ \A c \in Letters : IsLetter(Sign(c)) /\ Sign(c) # Web /\ Sign(c) # Blank /\ ~Sep(Sign(c))
                        /\ Sign(c) # Sign("@")
  /\ ~Sep(Sign("#")) /\ Sign("#") # Web /\ Sign("#") # Blank
  /\ Web # Blank /\ Web.mark = "none" /\ Blank.mark = "none"
<1>1. ASSUME NEW g, Sep(g) PROVE ~IsLetter(g) /\ g # Web /\ g.mark = "none" /\ g # Sign("#")
  <2>1. PICK c \in {" ", "@", "<"} : g = Sign(c) BY <1>1 DEF Sep
  <2>2. c \notin Letters /\ c # "www." /\ c # "#" BY <2>1 DEF Letters
  <2> QED BY <2>1, <2>2, SignFact DEF IsLetter, Web
<1>2. ASSUME NEW c \in Letters
      PROVE  IsLetter(Sign(c)) /\ Sign(c) # Web /\ Sign(c) # Blank /\ ~Sep(Sign(c))
             /\ Sign(c) # Sign("@")
  <2>1. c # "www." /\ c # " " /\ c # "@" /\ c # "<" BY DEF Letters
  <2> QED BY <2>1, SignFact DEF IsLetter, Web, Blank, Sep
<1>3. ~Sep(Sign("#")) /\ Sign("#") # Web /\ Sign("#") # Blank BY SignFact DEF Sep, Web, Blank
<1>4. Web # Blank /\ Web.mark = "none" /\ Blank.mark = "none" BY SignFact, Zenon DEF Web, Blank
<1> QED BY <1>1, <1>2, <1>3, <1>4

\* Short texts.
LEMMA ShortSeq ==
  ASSUME NEW S, NEW x \in S, NEW y \in S, NEW z \in S
  PROVE  /\ <<x>> \in Seq(S) /\ Len(<<x>>) = 1
         /\ <<x, y>> \in Seq(S) /\ Len(<<x, y>>) = 2
         /\ <<x, y, z>> \in Seq(S) /\ Len(<<x, y, z>>) = 3
OBVIOUS

\* A nick has letters, one at least.
LEMMA NickFact ==
  ASSUME NEW n \in Nicks
  PROVE  n \in Seq(Letters) /\ Len(n) \in Nat \ {0}
<1>1. "a" \in Letters /\ "b" \in Letters BY DEF Letters
<1>2. n = <<"a">> \/ n = <<"a", "b">> \/ n = <<"b">> BY DEF Nicks
<1>3. CASE n = <<"a">> BY <1>1, <1>3, ShortSeq
<1>4. CASE n = <<"a", "b">> BY <1>1, <1>4, ShortSeq
<1>5. CASE n = <<"b">> BY <1>1, <1>5, ShortSeq
<1> QED BY <1>2, <1>3, <1>4, <1>5

\* So has the name of a channel, behind its "#".
LEMMA ChannelFact ==
  ASSUME NEW c \in DOMAIN ChannelName
  PROVE  ChannelName[c] \in Seq({"#", "a", "b"}) /\ Len(ChannelName[c]) \in Nat \ {0}
<1>1. c \in {"c1", "c2", "c3"} BY DEF ChannelName
<1>2. ChannelName["c1"] = <<"#", "a">> /\ ChannelName["c2"] = <<"#", "b">>
      /\ ChannelName["c3"] = <<"#", "a", "b">> BY DEF ChannelName
<1>3. PICK S : S = {"#", "a", "b"} OBVIOUS
<1>4. "#" \in S /\ "a" \in S /\ "b" \in S BY <1>3
<1>5. CASE c = "c1" BY <1>2, <1>3, <1>4, <1>5, ShortSeq
<1>6. CASE c = "c2"
  <2>1. <<"#", "b">> \in Seq(S) /\ Len(<<"#", "b">>) = 2 BY <1>4, ShortSeq
  <2> QED BY <1>2, <1>3, <1>6, <2>1
<1>7. CASE c = "c3"
  <2>1. PICK n : n = <<"#", "a", "b">> OBVIOUS
  <2>2. n \in Seq(S) /\ Len(n) = 3 BY <1>4, <2>1, ShortSeq
  <2>3. ChannelName[c] = n BY <1>2, <1>7, <2>1
  <2>4. Len(n) \in Nat \ {0} BY <2>2
  <2> QED BY <1>3, <2>2, <2>3, <2>4
<1> QED BY <1>1, <1>5, <1>6, <1>7

\* A channel the sender knows has a name.
LEMMA SentChannel ==
  ASSUME NEW tok, KnownChannel(tok)
  PROVE  tok.id[1] \in DOMAIN ChannelName /\ tok.mark = "chan"
BY DEF KnownChannel, SentFrom, ChannelName

\* A name spelled out, sign by sign.
LEMMA SpellFact ==
  ASSUME NEW name \in Seq({"#", "a", "b"})
  PROVE  /\ Spell(name) \in Seq(Glyphs) /\ Len(Spell(name)) = Len(name)
         /\ \A i \in 1..Len(name) : Spell(name)[i] = Sign(name[i]) /\ name[i] \in {"#", "a", "b"}
<1>1. Len(name) \in Nat /\ \A i \in 1..Len(name) : name[i] \in {"#", "a", "b"}
  BY LenProperties, ElementOfSeq
<1>2. \A i \in 1..Len(name) : Sign(name[i]) \in Glyphs BY <1>1 DEF Glyphs
<1>3. Spell(name) \in [1..Len(name) -> Glyphs] BY <1>2 DEF Spell
<1>4. Spell(name) \in Seq(Glyphs) BY <1>1, <1>3
<1>5. Len(Spell(name)) = Len(name)
  <2>1. DOMAIN Spell(name) = 1..Len(name) BY <1>3
  <2> QED BY <1>1, <1>4, <2>1, LenProperties
<1> QED BY <1>1, <1>4, <1>5 DEF Spell

\* A nick is spelled in letters.
LEMMA NickSpelled ==
  ASSUME NEW n \in Nicks
  PROVE  /\ Spell(n) \in Seq(Glyphs) /\ Len(Spell(n)) = Len(n) /\ Len(n) \in Nat \ {0}
         /\ \A i \in 1..Len(n) : Spell(n)[i] = Sign(n[i]) /\ n[i] \in Letters
<1>1. n \in Seq(Letters) /\ Len(n) \in Nat \ {0} BY NickFact
<1>2. n \in Seq({"#", "a", "b"})
  <2>1. Letters \subseteq {"#", "a", "b"} BY DEF Letters
  <2> QED BY <1>1, <2>1, SeqMonotonic
<1>3. \A i \in 1..Len(n) : n[i] \in Letters BY <1>1, ElementOfSeq
<1> QED BY <1>1, <1>2, <1>3, SpellFact

\* A name is read at i where its signs stand, one after the other.
LEMMA ReadsFact ==
  ASSUME NEW text \in Seq(Glyphs), NEW i \in Nat \ {0}, NEW name, Len(name) \in Nat \ {0}
  PROVE  Reads(text, i, name) <=>
           /\ i + Len(name) - 1 <= Len(text)
           /\ \A j \in 1..Len(name) : text[i + j - 1] = Sign(name[j])
<1>1. PICK n \in Nat \ {0} : n = Len(name) OBVIOUS
<1>2. Len(text) \in Nat BY LenProperties
<1>3. CASE ~(i + n - 1 <= Len(text)) BY <1>1, <1>3 DEF Reads
<1>4. CASE i + n - 1 <= Len(text)
  <2>1. PICK t : t = SubSeq(text, i, i + n - 1) OBVIOUS
  <2>2. i + n - 1 \in 0..Len(text) /\ i <= i + n - 1 /\ i + n - 1 - i + 1 = n BY <1>2, <1>4
  <2>3. t \in Seq(Glyphs) /\ Len(t) = n BY <2>1, <2>2, PieceFact
  <2>4. DOMAIN t = 1..n BY <2>3, LenProperties
  <2>5. \A j \in 1..n : t[j] = text[i + j - 1]
    <3>1. \A k \in i..(i + n - 1) : k \in 1..Len(text) BY <1>2, <1>4
    <3>2. \A k \in i..(i + n - 1) : text[k] \in Glyphs BY <3>1, ElementOfSeq
    <3>3. i \in Int /\ i + n - 1 \in Int OBVIOUS
    <3>4. \A j \in 1..((i + n - 1) - i + 1) : t[j] = text[i + j - 1]
      BY <2>1, <3>2, <3>3, SubSeqProperties
    <3> QED BY <3>4
  <2>6. Spell(name) = [j \in 1..n |-> Sign(name[j])] BY <1>1 DEF Spell
  <2>7. t = [j \in 1..n |-> t[j]] BY <2>3, <2>4
  <2>8. t = Spell(name) <=> \A j \in 1..n : t[j] = Sign(name[j]) BY <2>6, <2>7
  <2>9. Reads(text, i, name) <=> t = Spell(name) BY <1>1, <1>4, <2>1 DEF Reads
  <2> QED BY <1>1, <1>4, <2>5, <2>8, <2>9
<1> QED BY <1>3, <1>4

-----------------------------------------------------------------------------
(* A text grows at its end *)

\* t is o with x behind it.
Joined(t, o, x) ==
  /\ o \in Seq(Glyphs) /\ x \in Seq(Glyphs) /\ t \in Seq(Glyphs)
  /\ Len(o) \in Nat /\ Len(x) \in Nat /\ Len(t) = Len(o) + Len(x)
  /\ \A i \in 1..Len(o) : t[i] = o[i]
  /\ \A i \in 1..Len(x) : t[Len(o) + i] = x[i]

\* Concatenation puts one text behind the other.
LEMMA JoinFact ==
  ASSUME NEW o \in Seq(Glyphs), NEW x \in Seq(Glyphs)
  PROVE  Joined(o \o x, o, x)
<1>1. Len(o) \in Nat /\ Len(x) \in Nat BY LenProperties
<1>2. PICK t : t = o \o x OBVIOUS
<1>3. t \in Seq(Glyphs) /\ Len(t) = Len(o) + Len(x)
      /\ \A i \in 1..(Len(o) + Len(x)) : t[i] = IF i <= Len(o) THEN o[i] ELSE x[i - Len(o)]
  BY <1>2, ConcatProperties
<1>4. \A i \in 1..Len(o) : i \in 1..(Len(o) + Len(x)) /\ i <= Len(o) BY <1>1
<1>5. \A i \in 1..Len(x) : /\ Len(o) + i \in 1..(Len(o) + Len(x)) /\ ~(Len(o) + i <= Len(o))
                           /\ Len(o) + i - Len(o) = i
  BY <1>1
<1>6. \A i \in 1..Len(o) : t[i] = o[i] BY <1>3, <1>4
<1>7. \A i \in 1..Len(x) : t[Len(o) + i] = x[i] BY <1>3, <1>5
<1> QED BY <1>1, <1>2, <1>3, <1>6, <1>7 DEF Joined

\* The last atom of a text, put there by itself.
LEMMA OneMore ==
  ASSUME NEW o \in Seq(Glyphs), NEW g \in Glyphs
  PROVE  Joined(Append(o, g), o, <<g>>)
<1>1. <<g>> \in Seq(Glyphs) OBVIOUS
<1>2. Append(o, g) = o \o <<g>> BY AppendIsConcat
<1> QED BY <1>1, <1>2, JoinFact

\* Some link is open at position n.
LinkOpen(text, n) == \E j \in 1..n : text[j] = Web /\ \A i \in j..n : text[i] # Blank

\* The name stands at s by itself: its signs one after the other, no word before
\* or after it, no link around it.
Stands(text, s, name) ==
  /\ s \in 1..Len(text) /\ s + Len(name) - 1 <= Len(text)
  /\ \A i \in 1..Len(name) : text[s + i - 1] = Sign(name[i])
  /\ s > 1 => Sep(text[s - 1])
  /\ s + Len(name) <= Len(text) => Sep(text[s + Len(name)])
  /\ ~LinkOpen(text, s)

\* A name that stands by itself still does when the text grows, unless a word
\* is put right behind it.
LEMMA StandsOn ==
  ASSUME NEW t, NEW o, NEW x, Joined(t, o, x), NEW s, NEW name \in Nicks, Stands(o, s, name),
         s + Len(name) > Len(o) => Len(x) > 0 /\ Sep(x[1])
  PROVE  Stands(t, s, name)
<1>1. PICK n \in Nat : n = Len(o) BY DEF Joined
<1>2. PICK m \in Nat : m = Len(x) BY DEF Joined
<1>3. PICK l \in Nat \ {0} : l = Len(name) BY NickFact
<1>4. Len(t) = n + m /\ (\A i \in 1..n : t[i] = o[i]) /\ \A i \in 1..m : t[n + i] = x[i]
  BY <1>1, <1>2 DEF Joined
<1>5. s \in 1..n /\ s + l - 1 <= n BY <1>1, <1>3 DEF Stands
<1>6. s \in 1..Len(t) /\ s + Len(name) - 1 <= Len(t) BY <1>3, <1>4, <1>5
<1>7. \A i \in 1..Len(name) : t[s + i - 1] = Sign(name[i])
  <2>1. \A i \in 1..l : s + i - 1 \in 1..n BY <1>5
  <2>2. \A i \in 1..l : o[s + i - 1] = Sign(name[i]) BY <1>3 DEF Stands
  <2> QED BY <1>3, <1>4, <2>1, <2>2
<1>8. s > 1 => Sep(t[s - 1])
  <2>1. s > 1 => s - 1 \in 1..n BY <1>5
  <2> QED BY <1>4, <2>1 DEF Stands
<1>9. s + Len(name) <= Len(t) => Sep(t[s + Len(name)])
  <2>1. CASE s + l <= n
    <3>1. s + l \in 1..n BY <1>5, <2>1
    <3>2. Sep(o[s + l]) BY <1>1, <1>3, <2>1 DEF Stands
    <3> QED BY <1>3, <1>4, <3>1, <3>2
  <2>2. CASE ~(s + l <= n)
    <3>1. s + l = n + 1 BY <1>5, <2>2
    <3>2. m > 0 /\ Sep(x[1]) BY <1>1, <1>2, <1>3, <1>5, <2>2
    <3>3. 1 \in 1..m BY <3>2
    <3> QED BY <1>3, <1>4, <3>1, <3>2, <3>3
  <2> QED BY <2>1, <2>2
<1>10. ~LinkOpen(t, s)
  <2>1. \A j \in 1..s : j \in 1..n BY <1>5
  <2>2. \A j \in 1..s : \A i \in j..s : i \in 1..n BY <1>5
  <2> QED BY <1>4, <2>1, <2>2 DEF Stands, LinkOpen
<1> QED BY <1>6, <1>7, <1>8, <1>9, <1>10 DEF Stands

\* A name put where no word is before it and no link is open stands by itself.
LEMMA StandsNew ==
  ASSUME NEW t, NEW o, NEW name \in Nicks, Joined(t, o, Spell(name)),
         o # <<>> => Sep(o[Len(o)]), ~LinkOpen(o, Len(o))
  PROVE  Stands(t, Len(o) + 1, name) /\ Len(t) = Len(o) + Len(name)
<1>1. PICK n \in Nat : n = Len(o) BY DEF Joined
<1>2. PICK l \in Nat \ {0} : l = Len(name) BY NickFact
<1>3. PICK x : x = Spell(name) OBVIOUS
<1>4. Len(x) = l /\ \A i \in 1..l : x[i] = Sign(name[i]) /\ name[i] \in Letters
  BY <1>2, <1>3, NickSpelled
<1>5. Len(t) = n + l /\ (\A i \in 1..n : t[i] = o[i]) /\ \A i \in 1..l : t[n + i] = x[i]
  BY <1>1, <1>3, <1>4 DEF Joined
<1>6. n + 1 \in 1..Len(t) /\ n + 1 + l - 1 <= Len(t) BY <1>5
<1>7. \A i \in 1..l : t[n + 1 + i - 1] = Sign(name[i])
  <2>1. \A i \in 1..l : n + 1 + i - 1 = n + i OBVIOUS
  <2> QED BY <1>4, <1>5, <2>1
<1>8. n + 1 > 1 => Sep(t[n + 1 - 1])
  <2>1. ASSUME n + 1 > 1 PROVE Sep(t[n])
    <3>1. n \in 1..n /\ o # <<>> BY <1>1, <2>1, EmptySeq
    <3> QED BY <1>1, <1>5, <3>1
  <2>2. n + 1 - 1 = n OBVIOUS
  <2> QED BY <2>1, <2>2
<1>9. ~(n + 1 + l <= Len(t)) BY <1>5
<1>10. ~LinkOpen(t, n + 1)
  <2>1. SUFFICES ASSUME NEW j \in 1..(n + 1), t[j] = Web, \A i \in j..(n + 1) : t[i] # Blank
                 PROVE  FALSE
    BY DEF LinkOpen
  <2>2. t[n + 1] # Web
    <3>1. 1 \in 1..l BY <1>2
    <3>2. t[n + 1] = Sign(name[1]) /\ name[1] \in Letters BY <1>4, <1>5, <3>1
    <3> QED BY <3>2, SepFact
  <2>3. j \in 1..n BY <2>1, <2>2
  <2>4. o[j] = Web /\ \A i \in j..n : o[i] # Blank
    <3>1. \A i \in j..n : i \in 1..n /\ i \in j..(n + 1) BY <2>3
    <3> QED BY <1>5, <2>1, <2>3, <3>1
  <2> QED BY <1>1, <2>3, <2>4 DEF LinkOpen
<1> QED BY <1>1, <1>2, <1>5, <1>6, <1>7, <1>8, <1>9, <1>10 DEF Stands

-----------------------------------------------------------------------------
(* The sender's scan *)

\* The text so far o, after the atoms before p: mentions set apart stand by
\* themselves in it, and no link is open in it that is not open in the text.
Faithful(o, p) ==
  /\ p = 1 => o = <<>>
  /\ p > 1 /\ content[p - 1].mark = "none" => o # <<>> /\ o[Len(o)] = content[p - 1]
  /\ LinkOpen(o, Len(o)) => LinkOpen(content, p - 1)
  /\ \A k \in 1..(p - 1) : k <= Len(content) /\ Apart(k) =>
       \E s \in 1..Len(o) :
         /\ Stands(o, s, NickFor(users, content[k]))
         /\ s + Len(NickFor(users, content[k])) > Len(o) => k = p - 1

ScanTypes ==
  /\ content \in Seq(Atoms)
  /\ \A u \in users : u.nick \in Nicks

\* A marker that is known has a nick to its name.
LEMMA NickForType ==
  ASSUME ScanTypes, NEW tok, Resolves(users, tok)
  PROVE  NickFor(users, tok) \in Nicks /\ tok.mark = "user"
<1>1. PICK u \in users : u.id = tok.id BY DEF Resolves
<1>2. PICK v : v = CHOOSE w \in users : w.id = tok.id OBVIOUS
<1>3. v \in users BY <1>1, <1>2
<1>4. NickFor(users, tok) = v.nick BY <1>2 DEF NickFor
<1> QED BY <1>3, <1>4 DEF ScanTypes, Resolves

\* What is before a mention that is set apart, and behind it, is no word.
LEMMA ApartFact ==
  ASSUME NEW k \in Nat \ {0}, Apart(k)
  PROVE  /\ Resolves(users, content[k])
         /\ k > 1 => Sep(content[k - 1])
         /\ k < Len(content) => Sep(content[k + 1])
         /\ ~LinkOpen(content, k)
<1>1. Web = Sign("www.") /\ Blank = Sign(" ") BY DEF Web, Blank
<1>2. /\ Resolves(users, content[k])
      /\ k > 1 => content[k - 1] \in {Sign(" "), Sign("@"), Sign("<")}
      /\ k < Len(content) => content[k + 1] \in {Sign(" "), Sign("@"), Sign("<")}
      /\ \A j \in 1..k : content[j] = Sign("www.") => \E i \in j..k : content[i] = Sign(" ")
  BY Zenon DEF Apart
<1>3. \A j \in 1..k : content[j] = Web => \E i \in j..k : content[i] = Blank
  BY <1>1, <1>2, Zenon
<1>4. ~LinkOpen(content, k) BY <1>3 DEF LinkOpen
<1> QED BY <1>2, <1>4, Zenon DEF Sep

\* Nothing behind a text that is not open opens a link but a link.
LEMMA LinkStays ==
  ASSUME NEW t, NEW o, NEW x, Joined(t, o, x), LinkOpen(t, Len(t)),
         \A i \in 1..Len(x) : x[i] # Web
  PROVE  LinkOpen(o, Len(o)) /\ \A i \in 1..Len(x) : x[i] # Blank
<1>1. PICK n \in Nat : n = Len(o) BY DEF Joined
<1>2. PICK m \in Nat : m = Len(x) BY DEF Joined
<1>3. Len(t) = n + m /\ (\A i \in 1..n : t[i] = o[i]) /\ \A i \in 1..m : t[n + i] = x[i]
  BY <1>1, <1>2 DEF Joined
<1>4. PICK j \in 1..(n + m) : t[j] = Web /\ \A i \in j..(n + m) : t[i] # Blank
  BY <1>3 DEF LinkOpen
<1>5. j \in 1..n
  <2>1. SUFFICES ASSUME j > n PROVE FALSE BY <1>4
  <2>2. j - n \in 1..m /\ n + (j - n) = j BY <1>4, <2>1
  <2>3. t[j] = x[j - n] BY <1>3, <2>2
  <2> QED BY <1>2, <1>4, <2>2, <2>3
<1>6. o[j] = Web /\ \A i \in j..n : o[i] # Blank
  <2>1. \A i \in j..n : i \in 1..n /\ i \in j..(n + m) BY <1>5
  <2> QED BY <1>3, <1>4, <1>5, <2>1
<1>7. \A i \in 1..m : x[i] # Blank
  <2>1. \A i \in 1..m : n + i \in j..(n + m) BY <1>5
  <2> QED BY <1>3, <1>4, <2>1
<1> QED BY <1>1, <1>2, <1>5, <1>6, <1>7 DEF LinkOpen

\* A link stays open behind what is no blank.
LEMMA LinkGoesOn ==
  ASSUME NEW p \in Nat \ {0}, LinkOpen(content, p - 1), content[p] # Blank
  PROVE  LinkOpen(content, p)
<1>1. PICK j \in 1..(p - 1) : content[j] = Web /\ \A i \in j..(p - 1) : content[i] # Blank
  BY DEF LinkOpen
<1>2. j \in 1..p BY <1>1
<1>3. \A i \in j..p : i = p \/ i \in j..(p - 1) BY <1>1
<1> QED BY <1>1, <1>2, <1>3 DEF LinkOpen

\* Where the atom at p is no mention set apart, those before it go on standing,
\* whatever is put behind them.
LEMMA StandLater ==
  ASSUME ScanTypes, NEW p \in 1..Len(content), NEW o, NEW t, NEW x, Joined(t, o, x), Faithful(o, p),
         Len(x) > 0, Sep(content[p]) => x[1] = content[p]
  PROVE  \A k \in 1..(p - 1) : Apart(k) =>
           \E s \in 1..Len(t) :
             /\ Stands(t, s, NickFor(users, content[k]))
             /\ s + Len(NickFor(users, content[k])) <= Len(t)
<1> SUFFICES ASSUME NEW k \in 1..(p - 1), Apart(k)
             PROVE  \E s \in 1..Len(t) :
                      /\ Stands(t, s, NickFor(users, content[k]))
                      /\ s + Len(NickFor(users, content[k])) <= Len(t)
  OBVIOUS
<1>1. PICK name \in Nicks : name = NickFor(users, content[k])
  <2>1. Resolves(users, content[k]) BY Zenon DEF Apart
  <2> QED BY <2>1, NickForType
<1>2. Len(content) \in Nat /\ k \in Nat \ {0} /\ k <= Len(content) BY LenProperties DEF ScanTypes
<1>3. PICK s \in 1..Len(o) : Stands(o, s, name) /\ (s + Len(name) > Len(o) => k = p - 1)
  BY <1>1, <1>2 DEF Faithful
<1>4. ASSUME s + Len(name) > Len(o) PROVE Sep(x[1])
  <2>1. k = p - 1 BY <1>3, <1>4
  <2>2. k < Len(content) /\ k + 1 = p BY <1>2, <2>1
  <2>3. Sep(content[p]) BY <1>2, <2>2, ApartFact
  <2> QED BY <2>3
<1>5. Stands(t, s, name) BY <1>3, <1>4, StandsOn
<1>6. Len(o) \in Nat /\ Len(x) \in Nat /\ Len(t) = Len(o) + Len(x) BY DEF Joined
<1>7. s \in 1..Len(t) BY <1>3, <1>6
<1>8. s + Len(name) <= Len(t)
  <2>1. s + Len(name) - 1 <= Len(o) /\ Len(name) \in Nat BY <1>3, NickFact DEF Stands
  <2> QED BY <1>3, <1>6, <2>1
<1> QED BY <1>1, <1>5, <1>7, <1>8

\* What may be put in the place of the atom at p.
Replaces(x, p) ==
  /\ Len(x) > 0
  /\ Sep(content[p]) => x[1] = content[p]
  /\ content[p].mark = "none" => x[Len(x)] = content[p]
  /\ content[p] = Web \/ \A i \in 1..Len(x) : x[i] # Web
  /\ content[p] = Blank => \E i \in 1..Len(x) : x[i] = Blank

LEMMA FaithfulStep ==
  ASSUME ScanTypes, NEW p \in 1..Len(content), NEW o, NEW t, NEW x, Joined(t, o, x), Faithful(o, p),
         Replaces(x, p),
         Apart(p) => \E s \in 1..Len(t) : Stands(t, s, NickFor(users, content[p]))
  PROVE  Faithful(t, p + 1)
<1>1. Len(content) \in Nat /\ p \in Nat \ {0} /\ p + 1 # 1 /\ p + 1 - 1 = p
  BY LenProperties DEF ScanTypes
<1>2. /\ Len(o) \in Nat /\ Len(x) \in Nat \ {0} /\ Len(t) = Len(o) + Len(x) /\ t \in Seq(Glyphs)
      /\ \A i \in 1..Len(x) : t[Len(o) + i] = x[i]
  BY DEF Joined, Replaces
<1>3. content[p].mark = "none" => t # <<>> /\ t[Len(t)] = content[p]
  <2>1. Len(x) \in 1..Len(x) BY <1>2
  <2>2. t[Len(o) + Len(x)] = x[Len(x)] BY <1>2, <2>1
  <2>3. t # <<>> BY <1>2, EmptySeq
  <2> QED BY <1>2, <2>2, <2>3 DEF Replaces
<1>4. ASSUME LinkOpen(t, Len(t)) PROVE LinkOpen(content, p)
  <2>1. CASE content[p] = Web
    <3>1. p \in 1..p /\ \A i \in p..p : i = p BY <1>1
    <3> QED BY <2>1, <3>1, SepFact DEF LinkOpen
  <2>2. CASE content[p] # Web
    <3>1. \A i \in 1..Len(x) : x[i] # Web BY <2>2 DEF Replaces
    <3>2. LinkOpen(o, Len(o)) /\ \A i \in 1..Len(x) : x[i] # Blank BY <1>4, <3>1, LinkStays
    <3>3. content[p] # Blank BY <3>2 DEF Replaces
    <3>4. LinkOpen(content, p - 1) BY <3>2 DEF Faithful
    <3> QED BY <1>1, <3>3, <3>4, LinkGoesOn
  <2> QED BY <2>1, <2>2
<1>5. ASSUME NEW k \in 1..p, Apart(k)
      PROVE  \E s \in 1..Len(t) :
               /\ Stands(t, s, NickFor(users, content[k]))
               /\ s + Len(NickFor(users, content[k])) > Len(t) => k = p
  <2>1. CASE k = p BY <1>5, <2>1
  <2>2. CASE k # p
    <3>1. k \in 1..(p - 1) BY <2>2
    <3>2. Len(x) > 0 /\ (Sep(content[p]) => x[1] = content[p]) BY DEF Replaces
    <3>3. PICK s \in 1..Len(t) : /\ Stands(t, s, NickFor(users, content[k]))
                                 /\ s + Len(NickFor(users, content[k])) <= Len(t)
      BY <1>5, <3>1, <3>2, StandLater
    <3>4. Len(NickFor(users, content[k])) \in Nat
      <4>1. Resolves(users, content[k]) BY <1>5, Zenon DEF Apart
      <4> QED BY <4>1, NickForType, NickFact
    <3>5. ~(s + Len(NickFor(users, content[k])) > Len(t)) BY <1>2, <3>3, <3>4
    <3> QED BY <3>3, <3>5
  <2> QED BY <2>1, <2>2
<1> QED BY <1>1, <1>3, <1>4, <1>5 DEF Faithful

\* A user marker becomes the nick.
LEMMA FaithfulUser ==
  ASSUME ScanTypes, NEW p \in 1..Len(content), NEW o, NEW t, Faithful(o, p),
         Resolves(users, content[p]), Joined(t, o, Spell(NickFor(users, content[p])))
  PROVE  Faithful(t, p + 1)
<1>1. PICK name \in Nicks : name = NickFor(users, content[p]) BY NickForType
<1>2. PICK x : x = Spell(name) OBVIOUS
<1>3. Joined(t, o, x) BY <1>1, <1>2
<1>4. content[p].mark = "user" BY NickForType
<1>5. ~Sep(content[p]) /\ content[p] # Web /\ content[p] # Blank /\ content[p].mark # "none"
  BY <1>4, SepFact
<1>6. Replaces(x, p)
  <2>1. Len(x) \in Nat \ {0} /\ \A i \in 1..Len(x) : x[i] = Sign(name[i]) /\ name[i] \in Letters
    BY <1>2, NickSpelled
  <2>2. \A i \in 1..Len(x) : x[i] # Web BY <2>1, SepFact
  <2> QED BY <1>5, <2>1, <2>2 DEF Replaces
<1>7. ASSUME Apart(p) PROVE \E s \in 1..Len(t) : Stands(t, s, name)
  <2>1. p \in Nat \ {0} OBVIOUS
  <2>2. (p > 1 => Sep(content[p - 1])) /\ ~LinkOpen(content, p) BY <1>7, <2>1, ApartFact
  <2>3. o # <<>> => Sep(o[Len(o)])
    <3>1. SUFFICES ASSUME o # <<>> PROVE Sep(o[Len(o)]) OBVIOUS
    <3>2. p > 1 BY <2>1, <3>1 DEF Faithful
    <3>3. Sep(content[p - 1]) /\ content[p - 1].mark = "none" BY <2>2, <3>2, SepFact
    <3>4. o[Len(o)] = content[p - 1] BY <3>2, <3>3 DEF Faithful
    <3> QED BY <3>3, <3>4
  <2>4. ~LinkOpen(o, Len(o))
    <3>1. SUFFICES ASSUME LinkOpen(o, Len(o)) PROVE FALSE OBVIOUS
    <3>2. LinkOpen(content, p - 1) BY <3>1 DEF Faithful
    <3>3. LinkOpen(content, p) BY <1>5, <2>1, <3>2, LinkGoesOn
    <3> QED BY <2>2, <3>3
  <2>5. Joined(t, o, Spell(name)) BY <1>1
  <2>6. Stands(t, Len(o) + 1, name) BY <2>3, <2>4, <2>5, StandsNew
  <2> QED BY <2>6 DEF Stands
<1> QED BY <1>1, <1>3, <1>6, <1>7, FaithfulStep

\* A channel marker becomes the name.
LEMMA FaithfulChannel ==
  ASSUME ScanTypes, NEW p \in 1..Len(content), NEW o, NEW t, Faithful(o, p),
         KnownChannel(content[p]), Joined(t, o, Spell(ChannelName[content[p].id[1]]))
  PROVE  Faithful(t, p + 1)
<1>1. PICK name : name = ChannelName[content[p].id[1]] OBVIOUS
<1>2. PICK x : x = Spell(name) OBVIOUS
<1>3. Joined(t, o, x) BY <1>1, <1>2
<1>4. content[p].mark = "chan" /\ name \in Seq({"#", "a", "b"}) /\ Len(name) \in Nat \ {0}
  BY <1>1, SentChannel, ChannelFact
<1>5. ~Sep(content[p]) /\ content[p] # Web /\ content[p] # Blank /\ content[p].mark # "none"
  BY <1>4, SepFact
<1>6. Replaces(x, p)
  <2>1. Len(x) = Len(name) /\ \A i \in 1..Len(name) : x[i] = Sign(name[i]) /\ name[i] \in {"#", "a", "b"}
    BY <1>2, <1>4, SpellFact
  <2>2. \A c \in {"#", "a", "b"} : c = "#" \/ c \in Letters BY DEF Letters
  <2>3. \A i \in 1..Len(x) : x[i] # Web BY <2>1, <2>2, SepFact
  <2> QED BY <1>4, <1>5, <2>1, <2>3 DEF Replaces
<1>7. ~Apart(p)
  <2>1. ~Resolves(users, content[p]) BY <1>4 DEF Resolves
  <2> QED BY <2>1, Zenon DEF Apart
<1> QED BY <1>3, <1>6, <1>7, FaithfulStep

\* Anything else is copied.
LEMMA FaithfulCopy ==
  ASSUME ScanTypes, NEW p \in 1..Len(content), NEW o, NEW t, Faithful(o, p),
         ~Apart(p), Joined(t, o, <<content[p]>>)
  PROVE  Faithful(t, p + 1)
<1>1. PICK x : x = <<content[p]>> OBVIOUS
<1>2. Len(x) = 1 /\ x[1] = content[p] BY <1>1
<1>3. 1 \in 1..1 /\ \A i \in 1..1 : i = 1 OBVIOUS
<1>4. Replaces(x, p) BY <1>2, <1>3 DEF Replaces
<1> QED BY <1>1, <1>4, FaithfulStep

-----------------------------------------------------------------------------
(* What goes on the wire *)

\* g spells the text out, atom by atom.
Images(g) ==
  g[0] = << >> /\ \A n \in 1..Len(content) : g[n] = g[n - 1] \o Image(content[n])

\* No channel marker ends the text or touches the marker after it.
Clean ==
  \A k \in 1..Len(content) :
    KnownChannel(content[k]) => k < Len(content) /\ content[k + 1].mark = "none"

\* The text so far o is the atoms before p, spelled out.
Spelled(o, p) == \A g : Images(g) /\ Clean => o = g[p - 1]

\* What an atom becomes is a text.
LEMMA ImageType ==
  ASSUME ScanTypes, NEW tok \in Atoms
  PROVE  Image(tok) \in Seq(Glyphs)
<1>1. CASE Resolves(users, tok)
  <2>1. PICK n \in Nicks : n = NickFor(users, tok) BY <1>1, NickForType
  <2>2. Spell(n) \in Seq(Glyphs) BY NickSpelled
  <2> QED BY <1>1, <2>1, <2>2 DEF Image
<1>2. CASE ~Resolves(users, tok) /\ KnownChannel(tok)
  <2>1. PICK n : n = ChannelName[tok.id[1]] OBVIOUS
  <2>2. n \in Seq({"#", "a", "b"}) BY <1>2, <2>1, SentChannel, ChannelFact
  <2>3. Spell(n) \in Seq(Glyphs) BY <2>2, SpellFact
  <2> QED BY <1>2, <2>1, <2>3 DEF Image
<1>3. CASE ~Resolves(users, tok) /\ ~KnownChannel(tok)
  <2>1. tok \in Glyphs BY DEF Glyphs
  <2>2. <<tok>> \in Seq(Glyphs) BY <2>1
  <2> QED BY <1>3, <2>2 DEF Image
<1> QED BY <1>1, <1>2, <1>3

\* Rewritten spells the whole text out.
LEMMA RewrittenFact ==
  ASSUME ScanTypes
  PROVE  \E g : Images(g) /\ Rewritten = g[Len(content)]
<1> DEFINE V == Seq(Glyphs)
           step == [n \in 1..Len(content) |-> [v \in V |-> v \o Image(content[n])]]
           Sol(g) == g = [n \in 0..Len(content) |->
                            IF n = 0 THEN << >> ELSE g[n - 1] \o Image(content[n])]
<1>1. Len(content) \in Nat /\ << >> \in V BY LenProperties, EmptySeq DEF ScanTypes
<1>2. ASSUME NEW n \in 1..Len(content), NEW v \in V
      PROVE  step[n][v] = v \o Image(content[n]) /\ step[n][v] \in V
  <2>1. content[n] \in Atoms BY ElementOfSeq DEF ScanTypes
  <2>2. v \o Image(content[n]) \in V BY <2>1, ImageType, ConcatProperties
  <2> QED BY <2>2
<1>3. PICK g \in [0..Len(content) -> V] : Recursion(g, Len(content), << >>, step)
  <2>1. StaysIn(V, Len(content), step) BY <1>2 DEF StaysIn
  <2> HIDE DEF step, V
  <2> QED BY <1>1, <2>1, FoldFact
<1>4. Sol(g)
  <2>1. ASSUME NEW n \in 0..Len(content), n # 0
        PROVE  step[n][g[n - 1]] = g[n - 1] \o Image(content[n])
    <3>1. n \in 1..Len(content) /\ n - 1 \in 0..Len(content) BY <1>1, <2>1
    <3>2. g[n - 1] \in V BY <3>1
    <3> HIDE DEF step, V
    <3> QED BY <1>2, <3>1, <3>2
  <2> HIDE DEF step
  <2> QED BY <1>3, <2>1 DEF Recursion
<1>5. PICK h : Sol(h) /\ Rewritten = h[Len(content)] BY <1>4 DEF Rewritten
<1>6. h[0] = << >> BY <1>1, <1>5
<1>7. ASSUME NEW n \in 1..Len(content) PROVE h[n] = h[n - 1] \o Image(content[n])
  <2>1. n \in 0..Len(content) /\ n # 0 BY <1>1
  <2> QED BY <1>5, <2>1
<1> QED BY <1>5, <1>6, <1>7 DEF Images

\* One more atom spelled out.
LEMMA SpelledStep ==
  ASSUME ScanTypes, NEW p \in 1..Len(content), NEW o, NEW t, Spelled(o, p),
         Clean => t = o \o Image(content[p])
  PROVE  Spelled(t, p + 1)
<1> SUFFICES ASSUME NEW g, Images(g), Clean PROVE t = g[p + 1 - 1] BY DEF Spelled
<1>1. o = g[p - 1] BY DEF Spelled
<1>2. g[p] = g[p - 1] \o Image(content[p]) BY DEF Images
<1>3. p + 1 - 1 = p BY LenProperties DEF ScanTypes
<1> QED BY <1>1, <1>2, <1>3

\* When the scan is through, all of it is.
LEMMA SpelledEnd ==
  ASSUME ScanTypes, NEW o, Spelled(o, Len(content) + 1), Clean
  PROVE  o = Rewritten
<1>1. PICK g : Images(g) /\ Rewritten = g[Len(content)] BY RewrittenFact
<1>2. Len(content) + 1 - 1 = Len(content) BY LenProperties DEF ScanTypes
<1> QED BY <1>1, <1>2 DEF Spelled

-----------------------------------------------------------------------------
(* The invariant *)

Ids == {a.id : a \in Atoms}

MentionTypes ==
  /\ ScanTypes
  /\ nicks \in [Spoken -> Nicks] /\ \A p, q \in Spoken : nicks[p] = nicks[q] => p = q
  /\ out \in Seq(Glyphs) /\ wire \in Seq(Glyphs) /\ mentions \in Seq(Ids) /\ pos \in Nat \ {0}
  /\ stage \in {"ircize", "panic", "payloads", "answered"}

\* The first scan, before anybody hears of it.
ScanInv ==
  /\ stage = "ircize" => pos <= Len(content) + 1 /\ Faithful(out, pos) /\ Spelled(out, pos)
  /\ stage \in {"ircize", "panic"} => heard = {}
  /\ stage = "ircize" => at = 1

\* The second one collects every marker that is known.
PayloadInv ==
  stage \in {"payloads", "answered"} =>
    \A k \in 1..Len(content) :
      (stage = "answered" \/ k < pos) /\ Resolves(users, content[k])
        => Contains(mentions, content[k].id)

\* A mention set apart stands by itself on the wire, in front of the receiver's
\* scan or among what it found.
HeardInv ==
  ~moved =>
    /\ users = mentionUsers /\ heard \in {{}, mentionUsers}
    /\ stage \in {"payloads", "answered"} =>
         /\ at \in Nat \ {0}
         /\ \A k \in 1..Len(content) : Apart(k) =>
              \E s \in 1..Len(wire) :
                /\ Stands(wire, s, NickFor(users, content[k]))
                /\ at <= s \/ content[k].id \in markers

MentionInv == MentionTypes /\ ScanInv /\ PayloadInv /\ HeardInv

\* Where text and universe stay, so does what is said of them.
LEMMA TextSame ==
  ASSUME content' = content, users' = users
  PROVE  /\ \A k : Apart(k)' <=> Apart(k)
         /\ Clean' <=> Clean
         /\ \A g : Images(g)' <=> Images(g)
         /\ ScanTypes' <=> ScanTypes
<1>1. \A k : Apart(k)' <=> Apart(k) BY Zenon DEF Apart
<1>2. Clean' <=> Clean BY DEF Clean
<1>3. \A tok : Image(tok)' = Image(tok) BY DEF Image
<1>4. \A g : Images(g)' <=> Images(g) BY <1>3 DEF Images
<1>5. ScanTypes' <=> ScanTypes BY DEF ScanTypes
<1> QED BY <1>1, <1>2, <1>4, <1>5

LEMMA ScanSame ==
  ASSUME content' = content, users' = users, Faithful(out', pos'), Spelled(out', pos')
  PROVE  Faithful(out, pos)' /\ Spelled(out, pos)'
<1>1. Faithful(out, pos)' BY TextSame DEF Faithful, LinkOpen
<1>2. Spelled(out, pos)' BY TextSame DEF Spelled
<1> QED BY <1>1, <1>2

LEMMA MentionStart == MentionInit => MentionInv
<1> SUFFICES ASSUME MentionInit PROVE MentionInv OBVIOUS
<1>1. /\ content \in Text /\ users = mentionUsers /\ stage = "ircize" /\ pos = 1 /\ out = << >>
      /\ mentions = << >> /\ heard = {} /\ at = 1 /\ markers = {} /\ wire = << >> /\ moved = FALSE
      /\ nicks \in [Spoken -> Nicks] /\ \A p, q \in Spoken : nicks[p] = nicks[q] => p = q
  BY DEF MentionInit
<1>2. content \in Seq(Atoms)
  <2>1. PICK A : A = Atoms OBVIOUS
  <2>2. PICK n \in 1..MaxAtoms : content \in [1..n -> A] BY <1>1, <2>1 DEF Text
  <2>3. n \in Nat BY MentionAssumption
  <2> QED BY <2>1, <2>2, <2>3
<1>3. \A u \in users : u.nick \in Nicks BY <1>1 DEF mentionUsers
<1>4. MentionTypes BY <1>1, <1>2, <1>3, EmptySeq DEF MentionTypes, ScanTypes
<1>5. ScanInv
  <2>1. Len(content) \in Nat /\ Len(<< >>) = 0 BY <1>2, LenProperties
  <2>2. Faithful(<< >>, 1)
    <3>1. ~LinkOpen(<< >>, Len(<< >>)) BY <2>1 DEF LinkOpen
    <3>2. ~(1 > 1) /\ 1..(1 - 1) = {} OBVIOUS
    <3> QED BY <3>1, <3>2 DEF Faithful
  <2>3. Spelled(<< >>, 1) BY DEF Spelled, Images
  <2> QED BY <1>1, <2>1, <2>2, <2>3 DEF ScanInv
<1>6. PayloadInv BY <1>1 DEF PayloadInv
<1>7. HeardInv BY <1>1 DEF HeardInv
<1> QED BY <1>4, <1>5, <1>6, <1>7 DEF MentionInv

\* A step of the first scan.
LEMMA ScanStep ==
  ASSUME MentionInv, stage = "ircize",
         UNCHANGED <<content, nicks, users, stage, mentions, receiver, wire, moved>>,
         out' \in Seq(Glyphs), pos' \in Nat \ {0}, pos' <= Len(content) + 1,
         Faithful(out', pos'), Spelled(out', pos')
  PROVE  MentionInv'
<1>1. /\ content' = content /\ nicks' = nicks /\ users' = users /\ stage' = stage
      /\ mentions' = mentions /\ wire' = wire /\ moved' = moved
      /\ heard' = heard /\ at' = at /\ markers' = markers
  BY DEF receiver
<1>2. MentionTypes' BY <1>1, TextSame DEF MentionInv, MentionTypes
<1>3. ScanInv' BY <1>1, ScanSame DEF MentionInv, ScanInv
<1>4. PayloadInv' BY <1>1 DEF PayloadInv
<1>5. HeardInv'
  <2>1. mentionUsers' = mentionUsers BY <1>1 DEF mentionUsers, IdOf
  <2>2. ~moved => users = mentionUsers /\ heard \in {{}, mentionUsers} BY DEF MentionInv, HeardInv
  <2> QED BY <1>1, <2>1, <2>2 DEF HeardInv
<1> QED BY <1>2, <1>3, <1>4, <1>5 DEF MentionInv

\* What a step of the first scan starts from.
LEMMA ScanFact ==
  ASSUME MentionInv, Scanning("ircize")
  PROVE  /\ ScanTypes /\ stage = "ircize" /\ pos \in 1..Len(content) /\ Len(content) \in Nat
         /\ content[pos] \in Atoms /\ content[pos] \in Glyphs /\ out \in Seq(Glyphs)
         /\ Faithful(out, pos) /\ Spelled(out, pos)
<1>1. content \in Seq(Atoms) /\ pos \in Nat \ {0} BY DEF MentionInv, MentionTypes, ScanTypes
<1>2. Len(content) \in Nat BY <1>1, LenProperties
<1>3. pos \in 1..Len(content) /\ stage = "ircize" BY <1>1, <1>2 DEF Scanning
<1>4. content[pos] \in Atoms BY <1>1, <1>3, ElementOfSeq
<1>5. content[pos] \in Glyphs BY <1>4 DEF Glyphs
<1> QED BY <1>2, <1>3, <1>4, <1>5 DEF MentionInv, MentionTypes, ScanInv

LEMMA IrcizeUserStep ==
  ASSUME MentionInv, IrcizeUser
  PROVE  MentionInv'
<1>1. Scanning("ircize") /\ Resolves(users, content[pos]) BY DEF IrcizeUser
<1> USE <1>1, ScanFact
<1>2. PICK n \in Nicks : n = NickFor(users, content[pos]) BY NickForType
<1>3. out' = out \o Spell(n) /\ pos' = pos + 1 BY <1>2 DEF IrcizeUser
<1>4. Spell(n) \in Seq(Glyphs) BY NickSpelled
<1>5. Joined(out', out, Spell(n)) BY <1>3, <1>4, JoinFact
<1>6. Faithful(out', pos + 1) BY <1>2, <1>5, FaithfulUser
<1>7. Spelled(out', pos + 1)
  <2>1. Image(content[pos]) = Spell(n) BY <1>2 DEF Image
  <2> QED BY <1>3, <2>1, SpelledStep
<1>8. out' \in Seq(Glyphs) /\ pos' \in Nat \ {0} /\ pos' <= Len(content) + 1
  BY <1>3, <1>5 DEF Joined
<1>9. UNCHANGED <<content, nicks, users, stage, mentions, receiver, wire, moved>> BY DEF IrcizeUser
<1> QED BY <1>3, <1>6, <1>7, <1>8, <1>9, ScanStep

LEMMA IrcizeCopyStep ==
  ASSUME MentionInv, IrcizeCopy
  PROVE  MentionInv'
<1>1. Scanning("ircize") /\ ~Resolves(users, content[pos]) /\ ~KnownChannel(content[pos])
  BY DEF IrcizeCopy
<1> USE <1>1, ScanFact
<1>2. PICK g \in Glyphs : g = content[pos] OBVIOUS
<1>3. out' = Append(out, g) /\ pos' = pos + 1 BY <1>2 DEF IrcizeCopy
<1>4. Joined(out', out, <<g>>) BY <1>3, OneMore
<1>5. Faithful(out', pos + 1)
  <2>1. ~Apart(pos) BY <1>1, Zenon DEF Apart
  <2> QED BY <1>2, <1>4, <2>1, FaithfulCopy
<1>6. Spelled(out', pos + 1)
  <2>1. Image(content[pos]) = <<g>> BY <1>2 DEF Image
  <2>2. out' = out \o <<g>> BY <1>3, AppendIsConcat
  <2> QED BY <2>1, <2>2, SpelledStep
<1>7. out' \in Seq(Glyphs) /\ pos' \in Nat \ {0} /\ pos' <= Len(content) + 1
  BY <1>3, <1>4 DEF Joined
<1>8. UNCHANGED <<content, nicks, users, stage, mentions, receiver, wire, moved>> BY DEF IrcizeCopy
<1> QED BY <1>3, <1>5, <1>6, <1>7, <1>8, ScanStep

LEMMA IrcizeChannelStep ==
  ASSUME MentionInv, IrcizeChannel
  PROVE  MentionInv'
<1>1. Scanning("ircize") /\ KnownChannel(content[pos]) BY DEF IrcizeChannel
<1> USE <1>1, ScanFact
<1>2. UNCHANGED <<content, nicks, users, mentions, receiver, wire, moved>> BY DEF IrcizeChannel
<1>3. CASE pos = Len(content)
  <2>1. stage' = "panic" /\ out' = out /\ pos' = pos BY <1>3 DEF IrcizeChannel
  <2>2. /\ content' = content /\ nicks' = nicks /\ users' = users
        /\ mentions' = mentions /\ wire' = wire /\ moved' = moved
        /\ heard' = heard /\ at' = at /\ markers' = markers
    BY <1>2 DEF receiver
  <2>3. MentionTypes' BY <2>1, <2>2, TextSame DEF MentionInv, MentionTypes
  <2>4. ScanInv' BY <2>1, <2>2 DEF MentionInv, ScanInv
  <2>5. PayloadInv' BY <2>1 DEF PayloadInv
  <2>6. HeardInv'
    <3>1. mentionUsers' = mentionUsers BY <2>2 DEF mentionUsers, IdOf
    <3>2. ~moved => users = mentionUsers /\ heard \in {{}, mentionUsers} BY DEF MentionInv, HeardInv
    <3> QED BY <2>1, <2>2, <3>1, <3>2 DEF HeardInv
  <2> QED BY <2>3, <2>4, <2>5, <2>6 DEF MentionInv
<1>4. CASE pos # Len(content)
  <2>1. pos + 1 \in 1..Len(content) BY <1>4
  <2>2. PICK g \in Glyphs : g = content[pos + 1]
    <3>1. content[pos + 1] \in Atoms BY <2>1, ElementOfSeq DEF ScanTypes
    <3> QED BY <3>1 DEF Glyphs
  <2>3. PICK name \in Seq({"#", "a", "b"}) : name = ChannelName[content[pos].id[1]]
    BY SentChannel, ChannelFact
  <2>4. PICK t : t = out \o Spell(name) OBVIOUS
  <2>5. Joined(t, out, Spell(name)) BY <2>4, JoinFact, SpellFact
  <2>6. t \in Seq(Glyphs) BY <2>5 DEF Joined
  <2>7. stage' = stage /\ pos' = pos + 2 /\ out' = Append(t, g)
    BY <1>4, <2>2, <2>3, <2>4 DEF IrcizeChannel
  <2>8. Joined(out', t, <<g>>) BY <2>6, <2>7, OneMore
  <2>9. Faithful(t, pos + 1) BY <2>3, <2>5, FaithfulChannel
  <2>10. content[pos].mark = "chan" BY SentChannel
  <2>11. Faithful(out', pos + 2)
    <3>1. ~Apart(pos + 1)
      <4>1. SUFFICES ASSUME Apart(pos + 1) PROVE FALSE OBVIOUS
      <4>2. pos + 1 \in Nat \ {0} /\ pos + 1 > 1 /\ pos + 1 - 1 = pos OBVIOUS
      <4>3. Sep(content[pos + 1 - 1]) BY <4>1, <4>2, ApartFact
      <4>4. content[pos + 1 - 1] = content[pos] BY <4>2
      <4> QED BY <2>10, <4>3, <4>4, SepFact
    <3>2. Faithful(out', pos + 1 + 1) BY <2>1, <2>2, <2>8, <2>9, <3>1, FaithfulCopy
    <3>3. pos + 1 + 1 = pos + 2 OBVIOUS
    <3> QED BY <3>2, <3>3
  <2>12. Spelled(out', pos + 2)
    <3>1. Image(content[pos]) = Spell(name)
      <4>1. ~Resolves(users, content[pos]) BY <2>10 DEF Resolves
      <4> QED BY <2>3, <4>1 DEF Image
    <3>2. Spelled(t, pos + 1) BY <2>4, <3>1, SpelledStep
    <3>3. ASSUME Clean PROVE out' = t \o Image(content[pos + 1])
      <4>1. content[pos + 1].mark = "none" BY <3>3 DEF Clean
      <4>2. Image(content[pos + 1]) = <<g>>
        <5>1. ~Resolves(users, content[pos + 1]) /\ ~KnownChannel(content[pos + 1])
          BY <4>1 DEF Resolves, KnownChannel
        <5> QED BY <2>2, <5>1 DEF Image
      <4> QED BY <2>6, <2>7, <4>2, AppendIsConcat
    <3>4. Spelled(out', pos + 1 + 1) BY <2>1, <3>2, <3>3, SpelledStep
    <3>5. pos + 1 + 1 = pos + 2 OBVIOUS
    <3> QED BY <3>4, <3>5
  <2>13. out' \in Seq(Glyphs) /\ pos' \in Nat \ {0} /\ pos' <= Len(content) + 1
    BY <2>1, <2>7, <2>8 DEF Joined
  <2>14. UNCHANGED <<content, nicks, users, stage, mentions, receiver, wire, moved>>
    BY <1>2, <2>7
  <2> QED BY <2>7, <2>11, <2>12, <2>13, <2>14, ScanStep
<1> QED BY <1>3, <1>4

LEMMA SendChannelStep ==
  ASSUME MentionInv, SendChannel
  PROVE  MentionInv'
<1>1. /\ stage = "ircize" /\ wire' = out /\ stage' = "payloads" /\ pos' = 1
      /\ users' = mentionUsers /\ content' = content /\ nicks' = nicks /\ out' = out
      /\ mentions' = mentions /\ moved' = moved /\ heard' = heard /\ at' = at /\ markers' = markers
  BY DEF SendChannel, receiver
<1>2. \A u \in mentionUsers : u.nick \in Nicks BY DEF mentionUsers, MentionInv, MentionTypes
<1>3. MentionTypes' BY <1>1, <1>2 DEF MentionInv, MentionTypes, ScanTypes
<1>4. ScanInv' BY <1>1 DEF ScanInv
<1>5. PayloadInv' BY <1>1 DEF PayloadInv, MentionInv, MentionTypes
<1>6. HeardInv'
  <2>1. SUFFICES ASSUME ~moved PROVE HeardInv' BY <1>1 DEF HeardInv
  <2>2. users = mentionUsers /\ heard = {} /\ at = 1
    BY <1>1, <2>1 DEF MentionInv, HeardInv, ScanInv
  <2>3. mentionUsers' = mentionUsers BY <1>1 DEF mentionUsers, IdOf
  <2>4. \A k : Apart(k)' <=> Apart(k) BY <1>1, <2>2, TextSame
  <2>5. ASSUME NEW k \in 1..Len(content), Apart(k)
        PROVE  \E s \in 1..Len(out) : Stands(out, s, NickFor(users, content[k])) /\ 1 <= s
    <3>1. Len(content) \in Nat BY LenProperties DEF MentionInv, MentionTypes, ScanTypes
    <3>2. pos = Len(content) + 1
      <4>1. pos > Len(content) /\ pos <= Len(content) + 1 /\ pos \in Nat
        BY <1>1 DEF SendChannel, MentionInv, MentionTypes, ScanInv
      <4> QED BY <3>1, <4>1
    <3>3. Faithful(out, pos) BY <1>1 DEF MentionInv, ScanInv
    <3>4. k \in 1..(pos - 1) /\ k <= Len(content) BY <3>1, <3>2
    <3>5. PICK s \in 1..Len(out) : Stands(out, s, NickFor(users, content[k]))
      BY <2>5, <3>3, <3>4 DEF Faithful
    <3> QED BY <3>5
  <2> QED BY <1>1, <2>2, <2>3, <2>4, <2>5 DEF HeardInv
<1> QED BY <1>3, <1>4, <1>5, <1>6 DEF MentionInv

LEMMA PayloadStepStep ==
  ASSUME MentionInv, PayloadStep
  PROVE  MentionInv'
<1>1. PICK tok : tok = content[pos] OBVIOUS
<1>2. /\ stage = "payloads" /\ stage' = stage /\ pos <= Len(content)
      /\ pos' = (IF tok = Sign("<") THEN pos ELSE pos + 1)
      /\ mentions' = (IF Resolves(users, tok) /\ ~Contains(mentions, tok.id)
                      THEN Append(mentions, tok.id) ELSE mentions)
      /\ content' = content /\ nicks' = nicks /\ users' = users /\ out' = out
      /\ wire' = wire /\ moved' = moved /\ heard' = heard /\ at' = at /\ markers' = markers
  BY <1>1 DEF PayloadStep, Scanning, receiver
<1>3. content \in Seq(Atoms) /\ Len(content) \in Nat /\ pos \in 1..Len(content)
      /\ mentions \in Seq(Ids)
  <2>1. content \in Seq(Atoms) /\ pos \in Nat \ {0} /\ mentions \in Seq(Ids)
    BY DEF MentionInv, MentionTypes, ScanTypes
  <2>2. Len(content) \in Nat BY <2>1, LenProperties
  <2> QED BY <1>2, <2>1, <2>2
<1>4. tok \in Atoms /\ tok.id \in Ids
  <2>1. tok \in Atoms BY <1>1, <1>3, ElementOfSeq
  <2> QED BY <2>1 DEF Ids
<1>5. PICK m : m = mentions' OBVIOUS
<1>6. /\ m \in Seq(Ids) /\ \A e : Contains(mentions, e) => Contains(m, e)
      /\ Resolves(users, tok) => Contains(m, tok.id)
  <2>1. CASE Resolves(users, tok) /\ ~Contains(mentions, tok.id)
    <3>1. PICK e \in Ids : e = tok.id BY <1>4
    <3>2. m = Append(mentions, e) BY <1>2, <1>5, <2>1, <3>1
    <3>3. PICK n \in Nat : n = Len(mentions) BY <1>3, LenProperties
    <3>4. m \in Seq(Ids) /\ Len(m) = n + 1 /\ m[n + 1] = e /\ \A i \in 1..n : m[i] = mentions[i]
      BY <1>3, <3>2, <3>3, AppendProperties
    <3>5. n + 1 \in 1..(n + 1) /\ \A i \in 1..n : i \in 1..(n + 1) OBVIOUS
    <3>6. Contains(m, e) BY <3>4, <3>5 DEF Contains
    <3>7. \A f : Contains(mentions, f) => Contains(m, f) BY <3>3, <3>4, <3>5 DEF Contains
    <3> QED BY <3>1, <3>4, <3>6, <3>7
  <2>2. CASE ~(Resolves(users, tok) /\ ~Contains(mentions, tok.id))
    <3>1. m = mentions BY <1>2, <1>5, <2>2
    <3> QED BY <1>3, <2>2, <3>1
  <2> QED BY <2>1, <2>2
<1>7. pos' \in Nat \ {0} BY <1>2, <1>3
<1>8. MentionTypes' BY <1>2, <1>5, <1>6, <1>7, TextSame DEF MentionInv, MentionTypes
<1>9. ScanInv' BY <1>2 DEF ScanInv
<1>10. PayloadInv'
  <2>1. SUFFICES ASSUME NEW k \in 1..Len(content), k < pos', Resolves(users, content[k])
                 PROVE  Contains(m, content[k].id)
    BY <1>2, <1>5 DEF PayloadInv
  <2>2. CASE k < pos
    <3>1. Contains(mentions, content[k].id) BY <1>2, <2>1, <2>2 DEF MentionInv, PayloadInv
    <3> QED BY <1>6, <3>1
  <2>3. CASE ~(k < pos)
    <3>1. k = pos BY <1>2, <1>3, <2>1, <2>3
    <3> QED BY <1>1, <1>6, <2>1, <3>1
  <2> QED BY <2>2, <2>3
<1>11. HeardInv'
  <2>1. mentionUsers' = mentionUsers BY <1>2 DEF mentionUsers, IdOf
  <2>2. \A k : Apart(k)' <=> Apart(k) BY <1>2, TextSame
  <2> QED BY <1>2, <2>1, <2>2 DEF MentionInv, HeardInv
<1> QED BY <1>8, <1>9, <1>10, <1>11 DEF MentionInv

LEMMA RespondStep ==
  ASSUME MentionInv, Respond
  PROVE  MentionInv'
<1>1. /\ stage = "payloads" /\ pos > Len(content) /\ stage' = "answered" /\ pos' = pos
      /\ mentions' = mentions /\ content' = content /\ nicks' = nicks /\ users' = users
      /\ out' = out /\ wire' = wire /\ moved' = moved
      /\ heard' = heard /\ at' = at /\ markers' = markers
  BY DEF Respond, receiver
<1>2. MentionTypes' BY <1>1, TextSame DEF MentionInv, MentionTypes
<1>3. ScanInv' BY <1>1 DEF ScanInv
<1>4. PayloadInv'
  <2>1. Len(content) \in Nat /\ pos \in Nat
    BY LenProperties DEF MentionInv, MentionTypes, ScanTypes
  <2>2. \A k \in 1..Len(content) : k < pos BY <1>1, <2>1
  <2> QED BY <1>1, <2>2 DEF MentionInv, PayloadInv
<1>5. HeardInv'
  <2>1. mentionUsers' = mentionUsers BY <1>1 DEF mentionUsers, IdOf
  <2>2. \A k : Apart(k)' <=> Apart(k) BY <1>1, TextSame
  <2> QED BY <1>1, <2>1, <2>2 DEF MentionInv, HeardInv
<1> QED BY <1>2, <1>3, <1>4, <1>5 DEF MentionInv

LEMMA HearStep ==
  ASSUME MentionInv, Hear
  PROVE  MentionInv'
<1>1. /\ stage \in {"payloads", "answered"} /\ heard' = mentionUsers /\ stage' = stage /\ pos' = pos
      /\ mentions' = mentions /\ content' = content /\ nicks' = nicks /\ users' = users
      /\ out' = out /\ wire' = wire /\ moved' = moved /\ at' = at /\ markers' = markers
  BY DEF Hear
<1>2. MentionTypes' BY <1>1, TextSame DEF MentionInv, MentionTypes
<1>3. ScanInv' BY <1>1 DEF ScanInv
<1>4. PayloadInv' BY <1>1 DEF MentionInv, PayloadInv
<1>5. HeardInv'
  <2>1. mentionUsers' = mentionUsers BY <1>1 DEF mentionUsers, IdOf
  <2>2. \A k : Apart(k)' <=> Apart(k) BY <1>1, TextSame
  <2> QED BY <1>1, <2>1, <2>2 DEF MentionInv, HeardInv
<1> QED BY <1>2, <1>3, <1>4, <1>5 DEF MentionInv

-----------------------------------------------------------------------------
(* The receiver's scan *)

\* The operators of the scan, with Web and Blank by name.
LEMMA RuneFact ==
  \A text, i : ircNickRune(text, i) <=> i \in 1..Len(text) /\ (IsLetter(text[i]) \/ text[i] = Web)
BY Zenon DEF ircNickRune, Web

LEMMA MaskFact ==
  \A text, i : urlMask(text, i) => LinkOpen(text, i)
BY Zenon DEF urlMask, LinkOpen, Web, Blank

LEMMA MatchFact ==
  \A text, i, us, u : u \in matchNickAt(text, i, us) <=>
    /\ u \in us /\ i <= Len(text) /\ Reads(text, i, u.nick)
    /\ ~ircNickRune(text, i + Len(u.nick))
    /\ i > 1 => ~IsLetter(text[i - 1])
BY Zenon DEF matchNickAt

\* Where a nick stands by itself, no other nick is matched.
LEMMA OneNick ==
  ASSUME NEW text \in Seq(Glyphs), NEW s, NEW name \in Nicks, Stands(text, s, name),
         NEW nick \in Nicks, Reads(text, s, nick), ~ircNickRune(text, s + Len(nick))
  PROVE  nick = name
<1>1. PICK l \in Nat \ {0} : l = Len(name) BY NickFact
<1>2. PICK m \in Nat \ {0} : m = Len(nick) BY NickFact
<1>3. PICK n \in Nat : n = Len(text) BY LenProperties
<1>4. /\ s \in 1..n /\ s + l - 1 <= n /\ \A i \in 1..l : text[s + i - 1] = Sign(name[i])
      /\ s + l <= n => Sep(text[s + l])
  BY <1>1, <1>3 DEF Stands
<1>5. s + m - 1 <= n /\ \A i \in 1..m : text[s + i - 1] = Sign(nick[i])
  <2>1. s \in Nat \ {0} BY <1>4
  <2> QED BY <1>2, <1>3, <2>1, ReadsFact
<1>6. (\A i \in 1..l : name[i] \in Letters) /\ \A i \in 1..m : nick[i] \in Letters
  BY <1>1, <1>2, NickSpelled
<1>7. ~(m < l)
  <2>1. SUFFICES ASSUME m < l PROVE FALSE OBVIOUS
  <2>2. m + 1 \in 1..l /\ s + (m + 1) - 1 = s + m /\ s + m \in 1..n BY <1>4, <2>1
  <2>3. text[s + m] = Sign(name[m + 1]) /\ name[m + 1] \in Letters BY <1>4, <1>6, <2>2
  <2>4. IsLetter(text[s + m]) BY <2>3, SepFact
  <2> QED BY <1>2, <1>3, <2>2, <2>4, RuneFact
<1>8. ~(l < m)
  <2>1. SUFFICES ASSUME l < m PROVE FALSE OBVIOUS
  <2>2. l + 1 \in 1..m /\ s + (l + 1) - 1 = s + l /\ s + l <= n BY <1>4, <1>5, <2>1
  <2>3. text[s + l] = Sign(nick[l + 1]) /\ nick[l + 1] \in Letters BY <1>5, <1>6, <2>2
  <2>4. Sep(text[s + l]) BY <1>4, <2>2
  <2> QED BY <2>3, <2>4, SepFact
<1>9. l = m BY <1>7, <1>8
<1>10. ASSUME NEW i \in 1..l PROVE nick[i] = name[i]
  <2>1. Sign(nick[i]) = Sign(name[i]) BY <1>4, <1>5, <1>9
  <2> QED BY <2>1, SignFact
<1>11. nick \in Seq(Letters) /\ name \in Seq(Letters) BY NickFact
<1> QED BY <1>1, <1>2, <1>9, <1>10, <1>11, SeqEqual

\* A nick that stands by itself is matched.
LEMMA NickMatched ==
  ASSUME NEW text \in Seq(Glyphs), NEW s, NEW us, NEW u \in us, u.nick \in Nicks,
         Stands(text, s, u.nick)
  PROVE  u \in matchNickAt(text, s, us) /\ ~urlMask(text, s) /\ text[s] # Sign("@")
<1>1. PICK name \in Nicks : name = u.nick OBVIOUS
<1>2. PICK l \in Nat \ {0} : l = Len(name) BY NickFact
<1>3. PICK n \in Nat : n = Len(text) BY LenProperties
<1>4. /\ s \in 1..n /\ s + l - 1 <= n /\ \A i \in 1..l : text[s + i - 1] = Sign(name[i])
      /\ (s + l <= n => Sep(text[s + l])) /\ (s > 1 => Sep(text[s - 1])) /\ ~LinkOpen(text, s)
  BY <1>1, <1>2, <1>3 DEF Stands
<1>5. Reads(text, s, name)
  <2>1. s \in Nat \ {0} BY <1>4
  <2> QED BY <1>2, <1>3, <1>4, <2>1, ReadsFact
<1>6. ~ircNickRune(text, s + l)
  <2>1. SUFFICES ASSUME s + l \in 1..n, IsLetter(text[s + l]) \/ text[s + l] = Web PROVE FALSE
    BY <1>3, RuneFact
  <2>2. Sep(text[s + l]) BY <1>4, <2>1
  <2> QED BY <2>1, <2>2, SepFact
<1>7. s > 1 => ~IsLetter(text[s - 1]) BY <1>4, SepFact
<1>8. s <= Len(text) BY <1>3, <1>4
<1>9. u \in matchNickAt(text, s, us) BY <1>1, <1>2, <1>5, <1>6, <1>7, <1>8, MatchFact
<1>10. text[s] # Sign("@")
  <2>1. 1 \in 1..l /\ s + 1 - 1 = s BY <1>4
  <2>2. text[s] = Sign(name[1]) /\ name[1] \in Letters BY <1>2, <1>4, <2>1, NickSpelled
  <2> QED BY <2>2, SepFact
<1> QED BY <1>4, <1>9, <1>10, MaskFact

\* No name reaches over what is no word.
LEMMA NoCrossing ==
  ASSUME NEW text, NEW s \in Nat \ {0}, NEW q \in Nat \ {0}, NEW l \in Nat \ {0}, q < s,
         Sep(text[s - 1]), \A i \in 1..l : ~Sep(text[q + i - 1])
  PROVE  q + l <= s
<1>1. SUFFICES ASSUME q + l > s PROVE FALSE OBVIOUS
<1>2. s - q \in 1..l /\ q + (s - q) - 1 = s - 1 BY <1>1
<1> QED BY <1>2

\* Names hold nothing that ends a word.
LEMMA NameRead ==
  ASSUME NEW text \in Seq(Glyphs), NEW q \in Nat \ {0}, NEW name,
         name \in Seq({"#", "a", "b"}), Len(name) \in Nat \ {0}, Reads(text, q, name)
  PROVE  \A i \in 1..Len(name) : ~Sep(text[q + i - 1])
<1>1. \A i \in 1..Len(name) : text[q + i - 1] = Sign(name[i]) BY ReadsFact
<1>2. \A i \in 1..Len(name) : name[i] \in {"#", "a", "b"} BY ElementOfSeq
<1>3. \A c \in {"#", "a", "b"} : c = "#" \/ c \in Letters BY DEF Letters
<1>4. \A c \in {"#", "a", "b"} : ~Sep(Sign(c)) BY <1>3, SepFact
<1> QED BY <1>1, <1>2, <1>4

\* A nick is a name.
LEMMA NickIsName == \A n \in Nicks : n \in Seq({"#", "a", "b"}) /\ Len(n) \in Nat \ {0}
<1>1. ASSUME NEW n \in Nicks PROVE n \in Seq({"#", "a", "b"})
  <2>1. n \in Seq(Letters) BY NickFact
  <2>2. Letters \subseteq {"#", "a", "b"} BY DEF Letters
  <2> QED BY <2>1, <2>2, SeqMonotonic
<1> QED BY <1>1, NickFact

\* Where the scan begins to look for a nick.
LEMMA StartFact ==
  /\ NickStart = at \/ (NickStart = at + 1 /\ wire[at] = Sign("@"))
  /\ wire[at] # Sign("@") => NickStart = at
BY Zenon DEF NickStart

\* What a step of the scan does: it steps over a nick, over a channel's name, or
\* over one atom.
LEMMA DiscordizeFact ==
  ASSUME DiscordizeStep
  PROVE  \/ \E u \in matchNickAt(wire, NickStart, heard) :
              at' = NickStart + Len(u.nick) /\ markers' = markers \cup {u.id}
         \/ /\ markers' = markers
            /\ \A u \in matchNickAt(wire, NickStart, heard) : urlMask(wire, NickStart)
            /\ \/ at' = at + 1
               \/ \E c \in HeardIn : Reads(wire, at, ChannelName[c]) /\ at' = at + Len(ChannelName[c])
<1>1. CASE FoundNick # {}
  <2>1. PICK u \in FoundNick : at' = NickStart + Len(u.nick) /\ markers' = markers \cup {u.id}
    BY <1>1 DEF DiscordizeStep
  <2>2. u \in matchNickAt(wire, NickStart, heard) BY <2>1 DEF FoundNick
  <2> QED BY <2>1, <2>2
<1>2. CASE FoundNick = {}
  <2>1. markers' = markers
        /\ ((\E c \in FoundChannel : at' = at + Len(ChannelName[c])) \/ at' = at + 1)
    BY <1>2 DEF DiscordizeStep
  <2>2. \A c \in FoundChannel : c \in HeardIn /\ Reads(wire, at, ChannelName[c])
    BY Zenon DEF FoundChannel, matchChannelAt
  <2>3. \A u \in matchNickAt(wire, NickStart, heard) : urlMask(wire, NickStart)
    BY <1>2 DEF FoundNick
  <2> QED BY <2>1, <2>2, <2>3
<1> QED BY <1>1, <1>2

\* Where nobody renamed, people with the same nick are one.
LEMMA SamePerson ==
  ASSUME MentionTypes, NEW u \in mentionUsers, NEW v \in mentionUsers, u.nick = v.nick
  PROVE  u = v
<1>1. PICK p \in Spoken : u = [nick |-> nicks[p], id |-> IdOf(p)] BY DEF mentionUsers
<1>2. PICK q \in Spoken : v = [nick |-> nicks[q], id |-> IdOf(q)] BY DEF mentionUsers
<1>3. nicks[p] = nicks[q] BY <1>1, <1>2
<1>4. p = q BY <1>3 DEF MentionTypes
<1> QED BY <1>1, <1>2, <1>4

\* The scan does not step over a mention set apart without finding it.
LEMMA HeardOn ==
  ASSUME MentionTypes, heard = mentionUsers, users = mentionUsers, at \in Nat \ {0}, DiscordizeStep,
         NEW k, Resolves(users, content[k]),
         NEW s \in 1..Len(wire), Stands(wire, s, NickFor(users, content[k])), at <= s
  PROVE  at' <= s \/ content[k].id \in markers'
<1>1. wire \in Seq(Glyphs) /\ Len(wire) \in Nat /\ s \in Nat \ {0}
  <2>1. wire \in Seq(Glyphs) BY DEF MentionTypes
  <2> QED BY <2>1, LenProperties
<1>2. PICK v \in mentionUsers : v.id = content[k].id /\ v.nick = NickFor(users, content[k])
  <2>1. \E u \in users : u.id = content[k].id BY DEF Resolves
  <2> QED BY <2>1 DEF NickFor
<1>3. \A u \in mentionUsers : u.nick \in Nicks BY DEF mentionUsers, MentionTypes
<1>4. Stands(wire, s, v.nick) BY <1>2
<1>5. v \in matchNickAt(wire, s, heard) /\ ~urlMask(wire, s) /\ wire[s] # Sign("@")
  BY <1>1, <1>3, <1>4, NickMatched
<1>6. s > 1 => Sep(wire[s - 1]) BY <1>4 DEF Stands
<1>7. PICK q : q = NickStart OBVIOUS
<1>8. q \in Nat \ {0} /\ q <= s
  <2>1. CASE q = at BY <2>1
  <2>2. CASE q = at + 1 /\ wire[at] = Sign("@")
    <3>1. at # s BY <1>5, <2>2
    <3> QED BY <1>1, <2>2, <3>1
  <2> QED BY <1>7, <2>1, <2>2, StartFact
<1>9. CASE \E u \in matchNickAt(wire, q, heard) :
             at' = q + Len(u.nick) /\ markers' = markers \cup {u.id}
  <2>1. PICK u \in matchNickAt(wire, q, heard) :
          at' = q + Len(u.nick) /\ markers' = markers \cup {u.id}
    BY <1>9
  <2>2. u \in mentionUsers /\ Reads(wire, q, u.nick) /\ ~ircNickRune(wire, q + Len(u.nick))
    BY MatchFact
  <2>3. PICK nick \in Nicks : nick = u.nick BY <1>3, <2>2
  <2>4. CASE q = s
    <3>1. PICK name \in Nicks : name = v.nick BY <1>3
    <3>2. nick = name BY <1>1, <1>4, <2>2, <2>3, <2>4, <3>1, OneNick
    <3>3. u = v BY <2>2, <2>3, <3>1, <3>2, SamePerson
    <3> QED BY <1>2, <2>1, <3>3
  <2>5. CASE q < s
    <3>1. PICK l \in Nat \ {0} : l = Len(nick) BY NickFact
    <3>2. nick \in Seq({"#", "a", "b"}) /\ Len(nick) \in Nat \ {0} BY NickIsName
    <3>3. \A i \in 1..l : ~Sep(wire[q + i - 1]) BY <1>1, <1>8, <2>2, <2>3, <3>1, <3>2, NameRead
    <3>4. Sep(wire[s - 1]) BY <1>1, <1>6, <1>8, <2>5
    <3>5. q + l <= s BY <1>1, <1>8, <2>5, <3>3, <3>4, NoCrossing
    <3> QED BY <2>1, <2>3, <3>1, <3>5
  <2> QED BY <1>1, <1>8, <2>4, <2>5
<1>10. CASE /\ \A u \in matchNickAt(wire, q, heard) : urlMask(wire, q)
            /\ \/ at' = at + 1
               \/ \E c \in HeardIn : Reads(wire, at, ChannelName[c]) /\ at' = at + Len(ChannelName[c])
  <2>1. at < s
    <3>1. SUFFICES ASSUME at = s PROVE FALSE BY <1>1
    <3>2. q = s BY <1>5, <1>7, <3>1, StartFact
    <3> QED BY <1>5, <1>10, <3>2
  <2>2. CASE at' = at + 1 BY <1>1, <2>1, <2>2
  <2>3. CASE \E c \in HeardIn : Reads(wire, at, ChannelName[c]) /\ at' = at + Len(ChannelName[c])
    <3>1. PICK c \in HeardIn : Reads(wire, at, ChannelName[c]) /\ at' = at + Len(ChannelName[c])
      BY <2>3
    <3>2. c \in DOMAIN ChannelName BY DEF HeardIn, ChannelName
    <3>3. PICK name : name = ChannelName[c] OBVIOUS
    <3>4. name \in Seq({"#", "a", "b"}) /\ Len(name) \in Nat \ {0} BY <3>2, <3>3, ChannelFact
    <3>5. PICK l \in Nat \ {0} : l = Len(name) BY <3>4
    <3>6. \A i \in 1..l : ~Sep(wire[at + i - 1]) BY <1>1, <3>1, <3>3, <3>4, <3>5, NameRead
    <3>7. Sep(wire[s - 1]) BY <1>1, <1>6, <2>1
    <3>8. at + l <= s BY <1>1, <2>1, <3>6, <3>7, NoCrossing
    <3> QED BY <3>1, <3>3, <3>5, <3>8
  <2> QED BY <1>10, <2>2, <2>3
<1> QED BY <1>7, <1>9, <1>10, DiscordizeFact

LEMMA DiscordizeStepStep ==
  ASSUME MentionInv, DiscordizeStep
  PROVE  MentionInv'
<1>1. /\ heard # {} /\ content' = content /\ nicks' = nicks /\ users' = users /\ stage' = stage
      /\ pos' = pos /\ out' = out /\ mentions' = mentions /\ heard' = heard /\ wire' = wire
      /\ moved' = moved
  BY DEF DiscordizeStep
<1>2. MentionTypes' BY <1>1, TextSame DEF MentionInv, MentionTypes
<1>3. ScanInv' BY <1>1 DEF MentionInv, ScanInv
<1>4. PayloadInv' BY <1>1 DEF MentionInv, PayloadInv
<1>5. HeardInv'
  <2>1. SUFFICES ASSUME ~moved PROVE HeardInv' BY <1>1 DEF HeardInv
  <2>2. MentionTypes /\ users = mentionUsers /\ heard = mentionUsers
        /\ stage \in {"payloads", "answered"} /\ at \in Nat \ {0}
    BY <1>1, <2>1 DEF MentionInv, MentionTypes, ScanInv, HeardInv
  <2>3. mentionUsers' = mentionUsers BY <1>1 DEF mentionUsers, IdOf
  <2>4. \A k : Apart(k)' <=> Apart(k) BY <1>1, TextSame
  <2>5. at' \in Nat \ {0}
    <3>1. NickStart \in Nat \ {0} BY <2>2, StartFact
    <3>2. \A u \in heard : Len(u.nick) \in Nat \ {0}
      <4>1. \A u \in mentionUsers : u.nick \in Nicks BY <2>2 DEF mentionUsers, MentionTypes
      <4> QED BY <2>2, <4>1, NickFact
    <3>3. \A c \in HeardIn : Len(ChannelName[c]) \in Nat \ {0}
      <4>1. \A c \in HeardIn : c \in DOMAIN ChannelName BY DEF HeardIn, ChannelName
      <4> QED BY <4>1, ChannelFact
    <3>4. \A u \in matchNickAt(wire, NickStart, heard) : u \in heard BY MatchFact
    <3> QED BY <2>2, <3>1, <3>2, <3>3, <3>4, DiscordizeFact
  <2>6. markers \subseteq markers'
    <3>1. markers' = markers \/ \E u \in matchNickAt(wire, NickStart, heard) : markers' = markers \cup {u.id}
      BY DiscordizeFact
    <3> QED BY <3>1
  <2>7. ASSUME NEW k \in 1..Len(content), Apart(k)
        PROVE  \E s \in 1..Len(wire) : /\ Stands(wire, s, NickFor(users, content[k]))
                                       /\ at' <= s \/ content[k].id \in markers'
    <3>1. PICK s \in 1..Len(wire) : /\ Stands(wire, s, NickFor(users, content[k]))
                                    /\ at <= s \/ content[k].id \in markers
      BY <2>1, <2>2, <2>7 DEF MentionInv, HeardInv
    <3>2. Resolves(users, content[k]) BY <2>7, Zenon DEF Apart
    <3>3. at <= s => at' <= s \/ content[k].id \in markers' BY <2>2, <3>1, <3>2, HeardOn
    <3> QED BY <2>6, <3>1, <3>3
  <2> QED BY <1>1, <2>2, <2>3, <2>4, <2>5, <2>7 DEF HeardInv
<1> QED BY <1>2, <1>3, <1>4, <1>5 DEF MentionInv

LEMMA RenameStep ==
  ASSUME MentionInv, NEW p \in Spoken, NEW n \in Nicks, Rename(p, n)
  PROVE  MentionInv'
<1>1. /\ content' = content /\ users' = users /\ stage' = stage /\ pos' = pos /\ out' = out
      /\ mentions' = mentions /\ heard' = heard /\ at' = at /\ wire' = wire /\ moved' = TRUE
      /\ nicks' = [nicks EXCEPT ![p] = n] /\ \A q \in Spoken : nicks[q] # n
  BY DEF Rename, receiver
<1>2. nicks' \in [Spoken -> Nicks] /\ \A q, r \in Spoken : nicks'[q] = nicks'[r] => q = r
  BY <1>1 DEF MentionInv, MentionTypes
<1>3. MentionTypes' BY <1>1, <1>2, TextSame DEF MentionInv, MentionTypes
<1>4. ScanInv' BY <1>1, ScanSame DEF MentionInv, ScanInv
<1>5. PayloadInv' BY <1>1 DEF MentionInv, PayloadInv
<1>6. HeardInv' BY <1>1 DEF HeardInv
<1> QED BY <1>3, <1>4, <1>5, <1>6 DEF MentionInv

LEMMA MentionStep == MentionInv /\ [MentionNext]_mentionVars => MentionInv'
<1> SUFFICES ASSUME MentionInv, [MentionNext]_mentionVars PROVE MentionInv' OBVIOUS
<1>1. CASE IrcizeUser BY <1>1, IrcizeUserStep
<1>2. CASE IrcizeChannel BY <1>2, IrcizeChannelStep
<1>3. CASE IrcizeCopy BY <1>3, IrcizeCopyStep
<1>4. CASE SendChannel BY <1>4, SendChannelStep
<1>5. CASE PayloadStep BY <1>5, PayloadStepStep
<1>6. CASE Respond BY <1>6, RespondStep
<1>7. CASE Hear BY <1>7, HearStep
<1>8. CASE DiscordizeStep BY <1>8, DiscordizeStepStep
<1>9. CASE \E p \in Spoken, n \in Nicks : Rename(p, n) BY <1>9, RenameStep
<1>10. CASE UNCHANGED mentionVars
  <2>1. /\ content' = content /\ nicks' = nicks /\ users' = users /\ stage' = stage /\ pos' = pos
        /\ out' = out /\ mentions' = mentions /\ heard' = heard /\ at' = at /\ markers' = markers
        /\ wire' = wire /\ moved' = moved
    BY <1>10 DEF mentionVars
  <2>2. MentionTypes' BY <2>1, TextSame DEF MentionInv, MentionTypes
  <2>3. ScanInv' BY <2>1, ScanSame DEF MentionInv, ScanInv
  <2>4. PayloadInv' BY <2>1 DEF MentionInv, PayloadInv
  <2>5. HeardInv'
    <3>1. mentionUsers' = mentionUsers BY <2>1 DEF mentionUsers, IdOf
    <3>2. \A k : Apart(k)' <=> Apart(k) BY <2>1, TextSame
    <3> QED BY <2>1, <3>1, <3>2 DEF MentionInv, HeardInv
  <2> QED BY <2>2, <2>3, <2>4, <2>5 DEF MentionInv
<1> QED BY <1>1, <1>2, <1>3, <1>4, <1>5, <1>6, <1>7, <1>8, <1>9, <1>10 DEF MentionNext, SenderNext

LEMMA MentionInvMeans == MentionInv => MentionsSurvive
<1> SUFFICES ASSUME MentionInv PROVE MentionsSurvive OBVIOUS
<1>1. ScanTypes /\ Len(content) \in Nat /\ pos \in Nat
  BY LenProperties DEF MentionInv, MentionTypes, ScanTypes
<1>2. WireRight
  <2>1. SUFFICES ASSUME Ircized, Clean PROVE out = Rewritten BY DEF WireRight, Clean
  <2>2. stage = "ircize" /\ pos > Len(content) BY <2>1 DEF Ircized
  <2>3. pos <= Len(content) + 1 /\ Spelled(out, pos) BY <2>2 DEF MentionInv, ScanInv
  <2>4. pos = Len(content) + 1 BY <1>1, <2>2, <2>3
  <2> QED BY <1>1, <2>1, <2>3, <2>4, SpelledEnd
<1>3. RoundTrip
  <2>1. SUFFICES ASSUME ~moved, NEW k \in 1..Len(content), Apart(k)
                 PROVE  /\ stage = "answered" => Contains(mentions, content[k].id)
                        /\ heard # {} /\ at > Len(wire) => content[k].id \in markers
    BY DEF RoundTrip
  <2>2. Resolves(users, content[k]) BY <2>1, Zenon DEF Apart
  <2>3. stage = "answered" => Contains(mentions, content[k].id)
    BY <2>2 DEF MentionInv, PayloadInv
  <2>4. ASSUME heard # {}, at > Len(wire) PROVE content[k].id \in markers
    <3>1. stage \in {"payloads", "answered"} BY <2>4 DEF MentionInv, MentionTypes, ScanInv
    <3>2. at \in Nat BY <2>1, <3>1 DEF MentionInv, HeardInv
    <3>3. PICK s \in 1..Len(wire) : at <= s \/ content[k].id \in markers
      BY <2>1, <3>1 DEF MentionInv, HeardInv
    <3>4. Len(wire) \in Nat BY LenProperties DEF MentionInv, MentionTypes
    <3> QED BY <2>4, <3>2, <3>3, <3>4
  <2> QED BY <2>3, <2>4
<1> QED BY <1>2, <1>3 DEF MentionsSurvive

\* Mentions survive the rewriting, the wire and the scan on the other side
\* (IRCize, MentionPayloadsFromMarkers, Discordize): for texts of any length and
\* any people.
THEOREM MentionsStaySound == MentionSpec => []MentionsSurvive
<1>1. MentionSpec => []MentionInv BY MentionStart, MentionStep, PTL DEF MentionSpec
<1> QED BY <1>1, MentionInvMeans, PTL

=============================================================================
