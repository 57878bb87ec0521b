-------------------------- MODULE DotReportProofs --------------------------
(***************************************************************************)
(* What is proved about the reports, for any numbers of coins: a digit is  *)
(* split off for each digit that was measured, since both loops divide the *)
(* same number by 10 until nothing is left, and so what is stored fits     *)
(* what was allocated.  What is divided goes down the quotients by the     *)
(* powers of ten, so that the digits stored are those of the number and    *)
(* the report reads as it should.  The steps of a report are as many as    *)
(* its digits and columns ask for.                                         *)
(***************************************************************************)
EXTENDS DotReport, SequenceTheorems, WellFoundedInduction, TLAPS

----------------------------------------------------------------------------
(* Induction over the natural numbers, for a set in place of a predicate.  *)

\* A set of natural numbers has a smallest one ...
LEMMA SmallestOf ==
  ASSUME NEW T \in SUBSET Nat, T # {}
  PROVE  \E x \in T : \A y \in T : x <= y
<1> DEFINE R == {ss \in Nat \X Nat : ss[1] < ss[2]}
<1>1. IsWellFoundedOn(R, Nat)
  BY NatLessThanWellFounded DEF OpToRel
<1>2. PICK x \in T : \A y \in T : <<y, x>> \notin R
  <2> HIDE DEF R
  <2> QED
    BY <1>1, WFMin
<1>3. \A y \in T : ~(y < x)
  BY <1>2
<1> QED
  BY <1>3

\* ... and so one that holds 0 and the successors of its elements holds them all.
LEMMA SetInduction ==
  ASSUME NEW T, 0 \in T, \A k \in Nat : k \in T => k + 1 \in T
  PROVE  Nat \subseteq T
<1> SUFFICES ASSUME Nat \ T # {} PROVE FALSE
  OBVIOUS
<1>1. PICK x \in Nat \ T : \A y \in Nat \ T : x <= y
  BY SmallestOf
<1>2. x - 1 \in T
  BY <1>1
<1> QED
  BY <1>1, <1>2

----------------------------------------------------------------------------
(* The powers of ten, and quotients by them.                               *)

\* g grows as PowerOfTen does, as far as m.
IsPowers(g, m) == g[0] = 1 /\ \A k \in 0 .. m - 1 : g[k + 1] = 10 * g[k]

\* There is such a function for each m, ...
LEMMA PowersExist == \A m \in Nat : \E g \in [0 .. m -> Nat] : IsPowers(g, m)
<1> DEFINE T == {m \in Nat : \E g \in [0 .. m -> Nat] : IsPowers(g, m)}
<1>1. 0 \in T
  <2>1. [k \in 0 .. 0 |-> 1] \in [0 .. 0 -> Nat] /\ IsPowers([k \in 0 .. 0 |-> 1], 0)
    BY DEF IsPowers
  <2> QED
    BY <2>1
<1>2. ASSUME NEW m \in Nat, m \in T PROVE m + 1 \in T
  <2>1. PICK g \in [0 .. m -> Nat] : IsPowers(g, m)
    BY <1>2
  <2> DEFINE h == [k \in 0 .. m + 1 |-> IF k = m + 1 THEN 10 * g[m] ELSE g[k]]
  <2>2. h \in [0 .. m + 1 -> Nat] /\ IsPowers(h, m + 1)
    BY <2>1 DEF IsPowers
  <2> HIDE DEF h
  <2> QED
    BY <2>2
<1>3. Nat \subseteq T
  <2> HIDE DEF T
  <2> QED
    BY <1>1, <1>2, SetInduction
<1> QED
  BY <1>3

\* ... only one, ...
LEMMA PowersAgree ==
  ASSUME NEW m \in Nat, NEW g, NEW h, IsPowers(g, m), IsPowers(h, m)
  PROVE  \A k \in 0 .. m : g[k] = h[k]
<1> DEFINE S == {k \in Nat : k <= m => g[k] = h[k]}
<1>1. 0 \in S /\ \A k \in Nat : k \in S => k + 1 \in S
  BY DEF IsPowers
<1>2. Nat \subseteq S
  <2> HIDE DEF S
  <2> QED
    BY <1>1, SetInduction
<1> QED
  BY <1>2

\* ... so that the recursive definition defines one.
LEMMA PowersDefined == PowerOfTen = [k \in Nat |-> IF k = 0 THEN 1 ELSE 10 * PowerOfTen[k - 1]]
<1> DEFINE G(m) == CHOOSE g \in [0 .. m -> Nat] : IsPowers(g, m)
<1>1. \A m \in Nat : G(m) \in [0 .. m -> Nat] /\ IsPowers(G(m), m)
  BY PowersExist
<1> HIDE DEF G
<1> DEFINE f == [k \in Nat |-> G(k)[k]]
<1>2. f[0] = 1
  BY <1>1 DEF IsPowers
<1>3. ASSUME NEW k \in Nat \ {0} PROVE f[k] = 10 * f[k - 1]
  <2>1. k - 1 \in Nat /\ k - 1 \in 0 .. k - 1 /\ k - 1 + 1 = k
    OBVIOUS
  <2>2. IsPowers(G(k), k) /\ IsPowers(G(k - 1), k - 1)
    BY <1>1, <2>1
  <2>3. IsPowers(G(k), k - 1)
    BY <2>2 DEF IsPowers
  <2>4. G(k)[k] = 10 * G(k)[k - 1]
    BY <2>1, <2>2 DEF IsPowers
  <2>5. G(k)[k - 1] = G(k - 1)[k - 1]
    BY <2>1, <2>2, <2>3, PowersAgree
  <2> QED
    BY <2>1, <2>4, <2>5
<1>4. f = [k \in Nat |-> IF k = 0 THEN 1 ELSE 10 * f[k - 1]]
  BY <1>2, <1>3
<1> HIDE DEF f
<1>5. \E g : g = [k \in Nat |-> IF k = 0 THEN 1 ELSE 10 * g[k - 1]]
  BY <1>4
<1> QED
  BY <1>5 DEF PowerOfTen

\* One power of ten after the other.
LEMMA PowersNext == PowerOfTen[0] = 1 /\ \A k \in Nat : PowerOfTen[k + 1] = 10 * PowerOfTen[k]
<1>1. ASSUME NEW k \in Nat PROVE PowerOfTen[k + 1] = 10 * PowerOfTen[k]
  <2>1. k + 1 \in Nat /\ k + 1 # 0 /\ (k + 1) - 1 = k
    OBVIOUS
  <2> QED
    BY <2>1, PowersDefined
<1> QED
  BY <1>1, PowersDefined

\* They are positive, grow, and are larger than their exponents.
LEMMA PowersGrow ==
  /\ \A k \in Nat : PowerOfTen[k] \in Nat /\ PowerOfTen[k] > k
  /\ \A j, k \in Nat : j <= k => PowerOfTen[j] <= PowerOfTen[k]
<1> DEFINE T == {k \in Nat : PowerOfTen[k] \in Nat /\ PowerOfTen[k] > k}
<1>1. 0 \in T /\ \A k \in Nat : k \in T => k + 1 \in T
  BY PowersNext
<1>2. Nat \subseteq T
  <2> HIDE DEF T
  <2> QED
    BY <1>1, SetInduction
<1>3. ASSUME NEW j \in Nat PROVE \A k \in Nat : j <= k => PowerOfTen[j] <= PowerOfTen[k]
  <2> DEFINE S == {k \in Nat : j <= k => PowerOfTen[j] <= PowerOfTen[k]}
  <2>1. 0 \in S
    BY <1>2
  <2>2. ASSUME NEW k \in Nat, k \in S PROVE k + 1 \in S
    BY <1>2, <2>2, PowersNext
  <2>3. Nat \subseteq S
    <3> HIDE DEF S
    <3> QED
      BY <2>1, <2>2, SetInduction
  <2> QED
    BY <2>3
<1> QED
  BY <1>2, <1>3

\* A quotient, by its bounds.
LEMMA QuotientBounds ==
  ASSUME NEW x \in Nat, NEW a \in Nat, a > 0
  PROVE  /\ x \div a \in Nat
         /\ a * (x \div a) <= x /\ x < a * (x \div a) + a
  OBVIOUS

\* Only one number is within the bounds of a quotient.
LEMMA QuotientIs ==
  ASSUME NEW x \in Nat, NEW a \in Nat, a > 0, NEW q \in Nat, a * q <= x, x < a * q + a
  PROVE  x \div a = q
<1>1. PICK p \in Nat : p = x \div a /\ a * p <= x /\ x < a * p + a
  BY QuotientBounds
<1>2. CASE p < q
  <2>1. a * (p + 1) <= a * q
    BY <1>2
  <2> QED
    BY <1>1, <2>1
<1>3. CASE q < p
  <2>1. a * (q + 1) <= a * p
    BY <1>3
  <2> QED
    BY <1>1, <2>1
<1> QED
  BY <1>1, <1>2, <1>3

\* A tenth of a quotient is the quotient by ten times as much.
LEMMA QuotientTenth ==
  ASSUME NEW x \in Nat, NEW a \in Nat, a > 0
  PROVE  (x \div a) \div 10 = x \div (10 * a)
<1>1. PICK q \in Nat : q = x \div a /\ a * q <= x /\ x < a * q + a
  BY QuotientBounds
<1>2. PICK p \in Nat, r \in 0 .. 9 : p = q \div 10 /\ q = 10 * p + r
  <2>1. q \div 10 \in Nat /\ q - 10 * (q \div 10) \in 0 .. 9
    OBVIOUS
  <2> QED
    BY <2>1
<1>3. a * q = (10 * a) * p + a * r
  BY <1>2
<1>4. a * r >= 0 /\ a * r + a <= 10 * a
  BY <1>2
<1>5. PICK b \in Nat, c \in Nat : b = (10 * a) * p /\ c = a * r
  BY <1>2
<1>6. (10 * a) * p <= x /\ x < (10 * a) * p + 10 * a
  BY <1>1, <1>3, <1>4, <1>5
<1>7. 10 * a \in Nat /\ 10 * a > 0
  OBVIOUS
<1>8. x \div (10 * a) = p
  BY <1>6, <1>7, <1>2, QuotientIs
<1> QED
  BY <1>1, <1>2, <1>8

----------------------------------------------------------------------------
(* Dividing by ten until nothing is left.                                  *)

\* w is what dividing x by 10 makes of it, d - 1 times and as long as two digits are
\* left.
IsChain(w, x, d) ==
  /\ w \in [1 .. d -> Nat]
  /\ d # 0 => w[1] = x
  /\ \A k \in 1 .. d - 1 : w[k] >= 10 /\ w[k + 1] = w[k] \div 10

\* left is what d divisions of x leave, each of a number of two digits or more.
Divided(x, d, left) == \E w : IsChain(w, x, d + 1) /\ left = w[d + 1]

\* x has d digits: so often it is divided until one is left.
HasDigits(x, d) == \E w : d >= 1 /\ IsChain(w, x, d) /\ w[d] < 10

\* The same, with d divisions of those that m digits take.
LeftAfter(x, d, m, left) ==
  \E w : m >= 1 /\ IsChain(w, x, m) /\ w[m] < 10 /\ d \in 0 .. m - 1 /\ left = w[d + 1]

\* The next division: of a number of two digits it leaves something, ...
LEMMA MeasureChain ==
  ASSUME NEW x, NEW d \in Nat, NEW left, Divided(x, d, left)
  PROVE  /\ left \in Nat
         /\ left \div 10 > 0 => Divided(x, d + 1, left \div 10)
         /\ left \div 10 = 0 => HasDigits(x, d + 1)
<1>0. PICK w : IsChain(w, x, d + 1) /\ left = w[d + 1]
  BY DEF Divided
<1>1. left \in Nat /\ left \div 10 \in Nat /\ (left \div 10 > 0 => left >= 10)
      /\ (left \div 10 = 0 => left < 10)
  BY <1>0 DEF IsChain
<1>2. ASSUME left \div 10 > 0 PROVE Divided(x, d + 1, left \div 10)
  <2> DEFINE v == [k \in 1 .. (d + 1) + 1 |-> IF k = d + 2 THEN left \div 10 ELSE w[k]]
  <2>1. v \in [1 .. (d + 1) + 1 -> Nat] /\ v[1] = x
    BY <1>0, <1>1 DEF IsChain
  <2>2. ASSUME NEW k \in 1 .. ((d + 1) + 1) - 1 PROVE v[k] >= 10 /\ v[k + 1] = v[k] \div 10
    <3>1. CASE k = d + 1
      BY <1>0, <1>1, <1>2, <3>1
    <3>2. CASE k # d + 1
      BY <1>0, <3>2 DEF IsChain
    <3>3. QED
      BY <3>1, <3>2
  <2>3. v[(d + 1) + 1] = left \div 10
    OBVIOUS
  <2> HIDE DEF v
  <2>4. IsChain(v, x, (d + 1) + 1)
    BY <2>1, <2>2 DEF IsChain
  <2>5. QED
    BY <2>3, <2>4 DEF Divided
<1>3. ASSUME left \div 10 = 0 PROVE HasDigits(x, d + 1)
  BY <1>0, <1>1, <1>3 DEF HasDigits
<1>4. QED
  BY <1>1, <1>2, <1>3

\* ... and it is so both when the digits are counted and when they are split off: as
\* long as something is left there are digits measured that are not split off yet.
LEMMA SplitChain ==
  ASSUME NEW x, NEW d, NEW m \in Nat, NEW left, LeftAfter(x, d, m, left)
  PROVE  /\ left \in Nat /\ d \in 0 .. m - 1
         /\ left \div 10 # 0 => LeftAfter(x, d + 1, m, left \div 10)
         /\ left \div 10 = 0 => d + 1 = m
<1>1. PICK w : m >= 1 /\ IsChain(w, x, m) /\ w[m] < 10 /\ d \in 0 .. m - 1 /\ left = w[d + 1]
  BY DEF LeftAfter
<1>2. left \in Nat
  BY <1>1 DEF IsChain
<1>3. ASSUME left \div 10 # 0 PROVE LeftAfter(x, d + 1, m, left \div 10)
  <2>1. left >= 10
    BY <1>2, <1>3
  <2>2. d + 1 # m
    <3> SUFFICES ASSUME d + 1 = m PROVE FALSE
      OBVIOUS
    <3>1. left = w[m]
      BY <1>1
    <3>2. QED
      BY <1>1, <1>2, <2>1, <3>1
  <2>3. d + 1 \in 1 .. m - 1 /\ d + 1 \in 0 .. m - 1
    BY <1>1, <2>2
  <2>4. w[(d + 1) + 1] = left \div 10
    BY <1>1, <2>3 DEF IsChain
  <2>5. QED
    BY <1>1, <2>3, <2>4 DEF LeftAfter
<1>4. ASSUME left \div 10 = 0 PROVE d + 1 = m
  <2>1. left < 10
    BY <1>2, <1>4
  <2>2. CASE d + 1 \in 1 .. m - 1
    <3>1. w[d + 1] >= 10
      BY <1>1, <2>2 DEF IsChain
    <3>2. QED
      BY <1>1, <1>2, <2>1, <3>1
  <2>3. QED
    BY <1>1, <2>2
<1>5. QED
  BY <1>1, <1>2, <1>3, <1>4

\* A number that was measured is split from the beginning.
LEMMA SplitBegins ==
  ASSUME NEW x, NEW m \in Nat, HasDigits(x, m)
  PROVE  LeftAfter(x, 0, m, x) /\ m >= 1
<1>1. PICK w : m >= 1 /\ IsChain(w, x, m) /\ w[m] < 10
  BY DEF HasDigits
<1>2. w[0 + 1] = x /\ 0 \in 0 .. m - 1
  BY <1>1 DEF IsChain
<1>3. QED
  BY <1>1, <1>2 DEF LeftAfter

----------------------------------------------------------------------------
(* The states of a report.                                                 *)

\* The glyphs of all reports.
Digit == {"0", "1", "2", "3", "4", "5", "6", "7", "8", "9"}
Glyph == Digit \cup {"T", "C", ":", "W", " "}

\* The glyphs of part p that are not digits, those of the part, and those of the
\* parts before it; and the glyphs of the report.
FixedOf(part_) == Len(part_.pre) + Len(part_.post)
Fixed(p) == FixedOf(parts[p])
Glyphs(p) == Fixed(p) + size[p]
Before(p) == CASE p = 1 -> 0 [] p = 2 -> Glyphs(1) [] p = 3 -> Glyphs(1) + Glyphs(2)
AllGlyphs == IF Len(parts) = 1 THEN Glyphs(1) ELSE Glyphs(1) + Glyphs(2) + Glyphs(3)

\* What malloc adds to the digits are the glyphs of the report that are not digits.
PartsOK ==
  /\ kind \in {"total", "each", "count"}
  /\ parts \in Seq([pre : Seq(Glyph), number : Nat, post : Seq(Glyph)])
  /\ Len(parts) \in {1, 3}
  /\ FixedGlyphs[kind] = IF Len(parts) = 1 THEN Fixed(1) ELSE Fixed(1) + Fixed(2) + Fixed(3)

\* The types, with the text that is appended to.
TypeInv ==
  /\ PartsOK
  /\ TypeOK
  /\ text \in Seq(Glyph)

\* The parts before this one are measured, this one as far as it was divided.
MeasureInv ==
  pc = "measure" =>
    /\ \A p \in 1 .. part - 1 : HasDigits(parts[p].number, size[p])
    /\ Divided(parts[part].number, size[part], len)
    /\ \A p \in DOMAIN parts : p > part => size[p] = 0
    /\ n = 0

\* All parts are measured, and so many glyphs are allocated.
AllocInv ==
  /\ pc # "measure" => \A p \in DOMAIN parts : HasDigits(parts[p].number, size[p])
  /\ pc = "alloc" => part = 1 /\ n = 0
  /\ pc \in {"measure", "alloc"} => arr = <<>> /\ text = <<>> /\ capacity = 0
  /\ pc \notin {"measure", "alloc"} => capacity = AllGlyphs

\* A digit is split off for each that was measured, at the index that is the number of
\* digits split off before it; the digits are stored from the last index down.
SplitInv ==
  /\ pc = "split" => /\ LeftAfter(parts[part].number, n, size[part], number)
                     /\ DOMAIN arr = 0 .. n - 1
  /\ pc = "store" => DOMAIN arr = 0 .. size[part] - 1 /\ n = size[part] - 1
  /\ pc = "digits" => DOMAIN arr = 0 .. size[part] - 1 /\ n <= size[part] - 1
  /\ pc \in {"scroll", "done"} => part = Len(parts) /\ arr = <<>>

\* So many glyphs are stored.
StoreInv ==
  /\ pc \in {"split", "store"} => Len(text) = Before(part)
  /\ pc = "digits" =>
       Len(text) + (n + 1) = Before(part) + Len(parts[part].pre) + size[part]
  /\ pc \in {"scroll", "done"} => Len(text) = AllGlyphs

\* All of it together, which is inductive.
ReportInv == TypeInv /\ MeasureInv /\ AllocInv /\ SplitInv /\ StoreInv

\* A number is measured from the beginning.
LEMMA MeasureBegins ==
  ASSUME NEW x \in Nat
  PROVE  Divided(x, 0, x)
<1> DEFINE w == [k \in 1 .. 0 + 1 |-> x]
<1>1. IsChain(w, x, 0 + 1) /\ x = w[0 + 1]
  BY DEF IsChain
<1>2. QED
  BY <1>1, Zenon DEF Divided

\* A part is of its type.
LEMMA PartType ==
  ASSUME NEW pre \in Seq(Glyph), NEW x \in Nat, NEW post \in Seq(Glyph)
  PROVE  /\ Part(pre, x, post) \in [pre : Seq(Glyph), number : Nat, post : Seq(Glyph)]
         /\ FixedOf(Part(pre, x, post)) = Len(pre) + Len(post)
  BY DEF Part, FixedOf

\* The parts of a report, if it has one ...
LEMMA OnePart ==
  ASSUME NEW P, NEW a \in P, parts = <<a>>
  PROVE  parts \in Seq(P) /\ Len(parts) = 1 /\ Fixed(1) = FixedOf(a)
<1>1. parts[1] = a
  OBVIOUS
<1>2. QED
  BY <1>1 DEF Fixed

\* ... and if it has three.
LEMMA ThreeParts ==
  ASSUME NEW P, NEW a \in P, NEW b \in P, NEW c \in P, parts = <<a, b, c>>
  PROVE  /\ parts \in Seq(P) /\ Len(parts) = 3
         /\ Fixed(1) = FixedOf(a) /\ Fixed(2) = FixedOf(b) /\ Fixed(3) = FixedOf(c)
<1>1. parts[1] = a /\ parts[2] = b /\ parts[3] = c
  OBVIOUS
<1>2. QED
  BY <1>1 DEF Fixed

\* A text is as long as it is written down.
LEMMA TextType ==
  \A S :
    /\ \A a \in S : <<a>> \in Seq(S) /\ Len(<<a>>) = 1
    /\ \A a, b \in S : <<a, b>> \in Seq(S) /\ Len(<<a, b>>) = 2
    /\ \A a, b, c \in S : <<a, b, c>> \in Seq(S) /\ Len(<<a, b, c>>) = 3
    /\ \A a, b, c, d \in S : <<a, b, c, d>> \in Seq(S) /\ Len(<<a, b, c, d>>) = 4
    /\ \A a, b, c, d, e, f \in S :
         <<a, b, c, d, e, f>> \in Seq(S) /\ Len(<<a, b, c, d, e, f>>) = 6
  OBVIOUS

\* The fixed glyphs, and how many they are.
LEMMA Texts ==
  /\ <<"T", ":">> \in Seq(Glyph) /\ Len(<<"T", ":">>) = 2
  /\ <<"W">> \in Seq(Glyph) /\ Len(<<"W">>) = 1
  /\ <<" ">> \in Seq(Glyph) /\ Len(<<" ">>) = 1
  /\ <<"C", ":", "5", "0", "0", ":">> \in Seq(Glyph)
  /\ Len(<<"C", ":", "5", "0", "0", ":">>) = 6
  /\ <<"1", "0", "0", ":">> \in Seq(Glyph) /\ Len(<<"1", "0", "0", ":">>) = 4
  /\ <<"5", "0", ":">> \in Seq(Glyph) /\ Len(<<"5", "0", ":">>) = 3
  /\ <<"T", "C", ":">> \in Seq(Glyph) /\ Len(<<"T", "C", ":">>) = 3
<1>1. /\ "T" \in Glyph /\ "C" \in Glyph /\ ":" \in Glyph /\ "W" \in Glyph /\ " " \in Glyph
      /\ "0" \in Glyph /\ "1" \in Glyph /\ "5" \in Glyph
  BY DEF Glyph, Digit
<1>2. <<"T", ":">> \in Seq(Glyph) /\ Len(<<"T", ":">>) = 2
  BY <1>1, TextType, Zenon
<1>3. <<"W">> \in Seq(Glyph) /\ Len(<<"W">>) = 1
  BY <1>1, TextType, Zenon
<1>4. <<" ">> \in Seq(Glyph) /\ Len(<<" ">>) = 1
  BY <1>1, TextType, Zenon
<1>5. <<"C", ":", "5", "0", "0", ":">> \in Seq(Glyph) /\ Len(<<"C", ":", "5", "0", "0", ":">>) = 6
  BY <1>1, TextType, Zenon
<1>6. <<"1", "0", "0", ":">> \in Seq(Glyph) /\ Len(<<"1", "0", "0", ":">>) = 4
  BY <1>1, TextType, Zenon
<1>7. <<"5", "0", ":">> \in Seq(Glyph) /\ Len(<<"5", "0", ":">>) = 3
  BY <1>1, TextType, Zenon
<1>8. <<"T", "C", ":">> \in Seq(Glyph) /\ Len(<<"T", "C", ":">>) = 3
  BY <1>1, TextType, Zenon
<1>9. QED
  BY <1>2, <1>3, <1>4, <1>5, <1>6, <1>7, <1>8

\* Every report has one part or three, and what malloc adds is what they need.
LEMMA ReportParts ==
  ASSUME NEW e500 \in Nat, NEW e100 \in Nat, NEW e50 \in Nat,
         kind \in {"total", "each", "count"}, parts = Report(kind, e500, e100, e50)
  PROVE  PartsOK
<1>1. FixedGlyphs["total"] = 3 /\ FixedGlyphs["each"] = 16 /\ FixedGlyphs["count"] = 4
  BY DEF FixedGlyphs
<1>2. 500 * e500 + 100 * e100 + 50 * e50 \in Nat /\ e500 + e100 + e50 \in Nat
  OBVIOUS
<1> DEFINE P == [pre : Seq(Glyph), number : Nat, post : Seq(Glyph)]
<1> HIDE DEF P
<1>0. \A pre \in Seq(Glyph), x \in Nat, post \in Seq(Glyph) :
        Part(pre, x, post) \in P /\ FixedOf(Part(pre, x, post)) = Len(pre) + Len(post)
  BY PartType DEF P
<1>3. CASE kind = "total"
  <2>0. PICK x \in Nat : x = 500 * e500 + 100 * e100 + 50 * e50
    BY <1>2
  <2>1. PICK pre \in Seq(Glyph), post \in Seq(Glyph) :
          Len(pre) = 2 /\ Len(post) = 1 /\ parts = <<Part(pre, x, post)>>
    BY <1>3, <2>0, Texts, ZenonT(40) DEF Report, TotalReport
  <2>2. PICK a : a = Part(pre, x, post)
    OBVIOUS
  <2>3. a \in P /\ FixedOf(a) = Len(pre) + Len(post)
    BY <1>0, <2>2, Zenon
  <2>4. parts \in Seq(P) /\ Len(parts) = 1 /\ Fixed(1) = FixedOf(a)
    BY <2>1, <2>2, <2>3, OnePart, Zenon
  <2>5. Fixed(1) = 3
    BY <2>1, <2>3, <2>4
  <2>6. FixedGlyphs[kind] = 3
    BY <1>1, <1>3, Zenon
  <2>7. QED
    BY <2>4, <2>5, <2>6 DEF PartsOK, P
<1>4. CASE kind = "each"
  <2>1. PICK pre1 \in Seq(Glyph), pre2 \in Seq(Glyph), pre3 \in Seq(Glyph), post \in Seq(Glyph) :
          /\ Len(pre1) = 6 /\ Len(pre2) = 4 /\ Len(pre3) = 3 /\ Len(post) = 1
          /\ parts = <<Part(pre1, e500, post), Part(pre2, e100, post), Part(pre3, e50, post)>>
    BY <1>4, Texts, Zenon DEF Report, EachReport
  <2>2. PICK a, b, c : /\ a = Part(pre1, e500, post) /\ b = Part(pre2, e100, post)
                       /\ c = Part(pre3, e50, post)
    OBVIOUS
  <2>3. /\ a \in P /\ FixedOf(a) = Len(pre1) + Len(post)
        /\ b \in P /\ FixedOf(b) = Len(pre2) + Len(post)
        /\ c \in P /\ FixedOf(c) = Len(pre3) + Len(post)
    BY <1>0, <2>2, Zenon
  <2>4. parts = <<a, b, c>>
    BY <2>1, <2>2, Zenon
  <2>5. /\ parts \in Seq(P) /\ Len(parts) = 3
        /\ Fixed(1) = FixedOf(a) /\ Fixed(2) = FixedOf(b) /\ Fixed(3) = FixedOf(c)
    BY <2>3, <2>4, ThreeParts
  <2>6. Fixed(1) = 7 /\ Fixed(2) = 5 /\ Fixed(3) = 4
    BY <2>1, <2>3, <2>5
  <2>7. FixedGlyphs[kind] = 16
    BY <1>1, <1>4, Zenon
  <2>8. QED
    BY <2>5, <2>6, <2>7 DEF PartsOK, P
<1>5. CASE kind = "count"
  <2>1. PICK pre \in Seq(Glyph), post \in Seq(Glyph) :
          Len(pre) = 3 /\ Len(post) = 1 /\ parts = <<Part(pre, e500 + e100 + e50, post)>>
    BY <1>5, Texts, Zenon DEF Report, CountReport
  <2>2. PICK a : a = Part(pre, e500 + e100 + e50, post)
    OBVIOUS
  <2>3. a \in P /\ FixedOf(a) = Len(pre) + Len(post)
    BY <1>0, <1>2, <2>2, ZenonT(40)
  <2>4. parts \in Seq(P) /\ Len(parts) = 1 /\ Fixed(1) = FixedOf(a)
    BY <2>1, <2>2, <2>3, OnePart, Zenon
  <2>5. Fixed(1) = 4
    BY <2>1, <2>3, <2>4
  <2>6. FixedGlyphs[kind] = 4
    BY <1>1, <1>5, Zenon
  <2>7. QED
    BY <2>4, <2>5, <2>6 DEF PartsOK, P
<1>6. QED
  BY <1>3, <1>4, <1>5

\* The glyphs of a report by its parts.
LEMMA GlyphTypes ==
  ASSUME PartsOK, size \in [DOMAIN parts -> Nat]
  PROVE  /\ DOMAIN parts \in {{1}, {1, 2, 3}} /\ Len(parts) = (IF 2 \in DOMAIN parts THEN 3 ELSE 1)
         /\ \A p \in DOMAIN parts :
              /\ parts[p].pre \in Seq(Glyph) /\ parts[p].post \in Seq(Glyph)
              /\ parts[p].number \in Nat
              /\ Fixed(p) \in Nat /\ Fixed(p) = Len(parts[p].pre) + Len(parts[p].post)
              /\ Glyphs(p) \in Nat /\ Glyphs(p) = Fixed(p) + size[p]
              /\ Before(p) \in Nat
              /\ p < Len(parts) => p + 1 \in DOMAIN parts /\ Before(p + 1) = Before(p) + Glyphs(p)
              /\ p = Len(parts) => AllGlyphs = Before(p) + Glyphs(p)
              /\ Before(p) + Glyphs(p) <= AllGlyphs
<1>1. /\ parts \in Seq([pre : Seq(Glyph), number : Nat, post : Seq(Glyph)])
      /\ Len(parts) \in {1, 3}
  BY DEF PartsOK
<1>2. /\ DOMAIN parts \in {{1}, {1, 2, 3}} /\ Len(parts) = (IF 2 \in DOMAIN parts THEN 3 ELSE 1)
      /\ DOMAIN parts = 1 .. Len(parts)
  BY <1>1
<1>3. ASSUME NEW p \in DOMAIN parts
      PROVE  /\ parts[p].pre \in Seq(Glyph) /\ parts[p].post \in Seq(Glyph)
             /\ parts[p].number \in Nat
             /\ Fixed(p) \in Nat /\ Fixed(p) = Len(parts[p].pre) + Len(parts[p].post)
             /\ Glyphs(p) \in Nat /\ Glyphs(p) = Fixed(p) + size[p]
  <2>1. /\ parts[p].pre \in Seq(Glyph) /\ parts[p].post \in Seq(Glyph)
        /\ parts[p].number \in Nat
    <3> DEFINE P == [pre : Seq(Glyph), number : Nat, post : Seq(Glyph)]
    <3>1. \A a \in P : a.pre \in Seq(Glyph) /\ a.post \in Seq(Glyph) /\ a.number \in Nat
      OBVIOUS
    <3> HIDE DEF P
    <3>2. parts \in Seq(P)
      BY <1>1, Zenon DEF P
    <3>3. parts[p] \in P
      BY <3>2
    <3>4. QED
      BY <3>1, <3>3, Zenon
  <2>a. size[p] \in Nat
    OBVIOUS
  <2>2. Fixed(p) \in Nat /\ Fixed(p) = Len(parts[p].pre) + Len(parts[p].post)
    <3>1. \A pre, post \in Seq(Glyph) : Len(pre) + Len(post) \in Nat
      OBVIOUS
    <3>2. QED
      BY <2>1, <3>1, Zenon DEF Fixed, FixedOf
  <2>3. Glyphs(p) = Fixed(p) + size[p]
    BY Zenon DEF Glyphs
  <2>4. Glyphs(p) \in Nat
    <3>1. \A f, t \in Nat : f + t \in Nat
      OBVIOUS
    <3>2. QED
      BY <2>a, <2>2, <2>3, <3>1, Zenon
  <2>5. QED
    BY <2>1, <2>2, <2>3, <2>4, Zenon
<1>4. ASSUME NEW p \in DOMAIN parts
      PROVE  /\ Before(p) \in Nat
             /\ p < Len(parts) => p + 1 \in DOMAIN parts /\ Before(p + 1) = Before(p) + Glyphs(p)
             /\ p = Len(parts) => AllGlyphs = Before(p) + Glyphs(p)
             /\ Before(p) + Glyphs(p) <= AllGlyphs
  <2>1. Before(1) = 0 /\ Before(2) = Glyphs(1) /\ Before(3) = Glyphs(1) + Glyphs(2)
    BY DEF Before
  <2>2. AllGlyphs = IF Len(parts) = 1 THEN Glyphs(1) ELSE Glyphs(1) + Glyphs(2) + Glyphs(3)
    BY DEF AllGlyphs
  <2>3. CASE DOMAIN parts = {1}
    <3>1. p = 1 /\ Len(parts) = 1 /\ Glyphs(1) \in Nat
      BY <1>2, <1>3, <2>3
    <3>2. QED
      BY <2>1, <2>2, <3>1
  <2>4. CASE DOMAIN parts = {1, 2, 3}
    <3>1. p \in {1, 2, 3} /\ Len(parts) = 3
          /\ Glyphs(1) \in Nat /\ Glyphs(2) \in Nat /\ Glyphs(3) \in Nat
      BY <1>2, <1>3, <2>4
    <3>2. QED
      BY <2>1, <2>2, <2>4, <3>1
  <2>5. QED
    BY <1>2, <2>3, <2>4
<1>5. QED
  BY <1>2, <1>3, <1>4

\* A report begins with the measuring of its first part.
LEMMA InitReport == Init => ReportInv
<1> SUFFICES ASSUME Init PROVE ReportInv
  OBVIOUS
<1>1. PICK e500, e100, e50 \in Counts : parts = Report(kind, e500, e100, e50)
  BY DEF Init
<1>2. PartsOK
  BY <1>1, CountsAssumption, ReportParts DEF Init
<1>3. /\ pc = "measure" /\ part = 1 /\ len = parts[1].number /\ size = [p \in DOMAIN parts |-> 0]
      /\ number = 0 /\ arr = <<>> /\ n = 0 /\ capacity = 0 /\ text = <<>> /\ i = 0
  BY DEF Init
<1>4. size \in [DOMAIN parts -> Nat]
  BY <1>3
<1>5. 1 \in DOMAIN parts /\ parts[1].number \in Nat
  BY <1>2, <1>4, GlyphTypes
<1>6. TypeInv
  <2>1. text \in Seq(Glyph) /\ DOMAIN arr = {}
    BY <1>3, EmptySeq
  <2>2. QED
    BY <1>2, <1>3, <1>4, <1>5, <2>1 DEF TypeInv, TypeOK, PartsOK
<1>7. MeasureInv
  <2>1. Divided(parts[part].number, size[part], len)
    BY <1>3, <1>5, MeasureBegins
  <2>2. QED
    BY <1>3, <2>1 DEF MeasureInv
<1>8. AllocInv /\ SplitInv /\ StoreInv
  BY <1>3 DEF AllocInv, SplitInv, StoreInv
<1>9. QED
  BY <1>6, <1>7, <1>8 DEF ReportInv

\* The parts of a report do not change, nor do the glyphs once they are measured.
LEMMA PartsKept ==
  ASSUME PartsOK, kind' = kind, parts' = parts
  PROVE  /\ PartsOK'
         /\ size' = size => AllGlyphs' = AllGlyphs /\ \A p : Before(p)' = Before(p)
  BY Zenon DEF PartsOK, Fixed, FixedOf, AllGlyphs, Before, Glyphs

\* What is known of the number that is being measured.
LEMMA MeasureState ==
  ASSUME ReportInv, pc = "measure"
  PROVE  /\ part \in DOMAIN parts /\ size \in [DOMAIN parts -> Nat]
         /\ DOMAIN parts = 1 .. Len(parts) /\ Len(parts) \in {1, 3}
         /\ len \in Nat /\ len \div 10 \in Nat
         /\ len \div 10 > 0 => Divided(parts[part].number, size[part] + 1, len \div 10)
         /\ len \div 10 = 0 => HasDigits(parts[part].number, size[part] + 1)
<1>1. /\ part \in DOMAIN parts /\ size \in [DOMAIN parts -> Nat]
      /\ DOMAIN parts = 1 .. Len(parts) /\ Len(parts) \in {1, 3} /\ len \in Nat
  BY DEF ReportInv, TypeInv, TypeOK, PartsOK
<1>2. size[part] \in Nat
  BY <1>1
<1>3. Divided(parts[part].number, size[part], len)
  BY Zenon DEF ReportInv, MeasureInv
<1>4. /\ len \div 10 > 0 => Divided(parts[part].number, size[part] + 1, len \div 10)
      /\ len \div 10 = 0 => HasDigits(parts[part].number, size[part] + 1)
  BY <1>2, <1>3, MeasureChain, Zenon
<1>5. len \div 10 \in Nat
  BY <1>1
<1>6. QED
  BY <1>1, <1>4, <1>5, Zenon

\* The measuring: of the same number, ...
LEMMA MeasureGoesOn ==
  ASSUME ReportInv, Measure, len \div 10 > 0
  PROVE  ReportInv'
<1>1. /\ pc = "measure" /\ pc' = pc /\ part' = part /\ len' = len \div 10
      /\ size' = [size EXCEPT ![part] = size[part] + 1]
      /\ kind' = kind /\ parts' = parts /\ number' = number /\ arr' = arr /\ n' = n
      /\ capacity' = capacity /\ text' = text /\ i' = i
  BY DEF Measure
<1>2. /\ part \in DOMAIN parts /\ size \in [DOMAIN parts -> Nat]
      /\ DOMAIN parts = 1 .. Len(parts) /\ Len(parts) \in {1, 3}
      /\ len \in Nat /\ len \div 10 \in Nat
  BY <1>1, MeasureState
<1>3. Divided(parts[part].number, size[part] + 1, len \div 10)
  BY <1>1, MeasureState
<1>4. TypeInv /\ MeasureInv /\ AllocInv /\ PartsOK
  BY DEF ReportInv, TypeInv
<1>5. size' \in [DOMAIN parts' -> Nat]
  BY <1>1, <1>2
<1>6. TypeInv'
  BY <1>1, <1>2, <1>4, <1>5, PartsKept DEF TypeInv, TypeOK
<1>7. MeasureInv'
  <2>2. size'[part'] = size[part] + 1
    BY <1>1, <1>2
  <2>3. Divided(parts'[part'].number, size'[part'], len')
    BY <1>1, <1>3, <2>2, Zenon
  <2>4. \A p \in DOMAIN parts : p # part => size'[p] = size[p]
    BY <1>1, <1>2
  <2>5. \A p \in 1 .. part' - 1 : HasDigits(parts'[p].number, size'[p])
    BY <1>1, <1>2, <1>4, <2>4 DEF MeasureInv
  <2>6. \A p \in DOMAIN parts' : p > part' => size'[p] = 0
    BY <1>1, <1>2, <1>4, <2>4 DEF MeasureInv
  <2>7. n' = 0
    BY <1>1, <1>4 DEF MeasureInv
  <2>8. QED
    BY <2>3, <2>5, <2>6, <2>7 DEF MeasureInv
<1>8. AllocInv'
  BY <1>1, <1>4 DEF AllocInv
<1>9. SplitInv' /\ StoreInv'
  BY <1>1 DEF SplitInv, StoreInv
<1>10. QED
  BY <1>6, <1>7, <1>8, <1>9 DEF ReportInv

\* ... of the next one, ...
LEMMA MeasureNext ==
  ASSUME ReportInv, Measure, len \div 10 = 0, ~IsLast
  PROVE  ReportInv'
<1>1. /\ pc = "measure" /\ pc' = pc /\ part' = part + 1 /\ len' = parts[part + 1].number
      /\ size' = [size EXCEPT ![part] = size[part] + 1]
      /\ kind' = kind /\ parts' = parts /\ number' = number /\ arr' = arr /\ n' = n
      /\ capacity' = capacity /\ text' = text /\ i' = i
  BY DEF Measure
<1>2. /\ part \in DOMAIN parts /\ size \in [DOMAIN parts -> Nat]
      /\ DOMAIN parts = 1 .. Len(parts) /\ Len(parts) \in {1, 3}
      /\ HasDigits(parts[part].number, size[part] + 1)
  BY <1>1, MeasureState
<1>3. TypeInv /\ MeasureInv /\ AllocInv /\ PartsOK
  BY DEF ReportInv, TypeInv
<1>4. part + 1 \in DOMAIN parts /\ parts[part + 1].number \in Nat
  <2>1. part + 1 \in DOMAIN parts
    BY <1>2 DEF IsLast
  <2>2. QED
    BY <1>2, <1>3, <2>1, GlyphTypes
<1>5. size' \in [DOMAIN parts' -> Nat]
  BY <1>1, <1>2
<1>6. TypeInv'
  BY <1>1, <1>2, <1>3, <1>4, <1>5, PartsKept DEF TypeInv, TypeOK
<1>7. MeasureInv'
  <2>1. PICK q \in DOMAIN parts : q = part + 1 /\ part' = q /\ q # part /\ q > part
    BY <1>1, <1>2, <1>4
  <2>2. /\ size'[part] = size[part] + 1
        /\ \A p \in DOMAIN parts : p # part => size'[p] = size[p]
    BY <1>1, <1>2
  <2>3. size'[q] = 0
    BY <1>1, <1>3, <2>1, <2>2 DEF MeasureInv
  <2>4. Divided(parts'[part'].number, size'[part'], len')
    <3>1. Divided(parts[q].number, 0, parts[q].number)
      BY <1>4, <2>1, MeasureBegins
    <3>2. QED
      BY <1>1, <2>1, <2>3, <3>1, Zenon
  <2>5. \A p \in 1 .. part' - 1 : HasDigits(parts'[p].number, size'[p])
    <3>1. \A p \in 1 .. part - 1 : HasDigits(parts[p].number, size'[p])
      BY <1>1, <1>2, <1>3, <2>2 DEF MeasureInv
    <3>2. HasDigits(parts[part].number, size'[part])
      BY <1>2, <2>2
    <3>3. \A p \in 1 .. q - 1 : p = part \/ p \in 1 .. part - 1
      BY <1>2, <2>1
    <3>4. QED
      BY <1>1, <2>1, <3>1, <3>2, <3>3
  <2>6. \A p \in DOMAIN parts' : p > part' => size'[p] = 0
    <3>1. \A p \in DOMAIN parts : p > q => p # part /\ p > part
      BY <1>2, <2>1
    <3>2. QED
      BY <1>1, <1>3, <2>1, <2>2, <3>1 DEF MeasureInv
  <2>7. n' = 0
    BY <1>1, <1>3 DEF MeasureInv
  <2>8. QED
    BY <2>4, <2>5, <2>6, <2>7 DEF MeasureInv
<1>8. AllocInv'
  BY <1>1, <1>3 DEF AllocInv
<1>9. SplitInv' /\ StoreInv'
  BY <1>1 DEF SplitInv, StoreInv
<1>10. QED
  BY <1>6, <1>7, <1>8, <1>9 DEF ReportInv

\* ... or of the last.
LEMMA MeasureEnds ==
  ASSUME ReportInv, Measure, len \div 10 = 0, IsLast
  PROVE  ReportInv'
<1>1. /\ pc = "measure" /\ pc' = "alloc" /\ part' = 1 /\ len' = 0
      /\ size' = [size EXCEPT ![part] = size[part] + 1]
      /\ kind' = kind /\ parts' = parts /\ number' = number /\ arr' = arr /\ n' = n
      /\ capacity' = capacity /\ text' = text /\ i' = i
  BY DEF Measure
<1>2. /\ part \in DOMAIN parts /\ size \in [DOMAIN parts -> Nat]
      /\ DOMAIN parts = 1 .. Len(parts) /\ Len(parts) \in {1, 3}
      /\ HasDigits(parts[part].number, size[part] + 1)
  BY <1>1, MeasureState
<1>3. TypeInv /\ MeasureInv /\ AllocInv /\ PartsOK
  BY DEF ReportInv, TypeInv
<1>5. size' \in [DOMAIN parts' -> Nat] /\ 1 \in DOMAIN parts
  BY <1>1, <1>2
<1>6. TypeInv'
  BY <1>1, <1>2, <1>3, <1>5, PartsKept DEF TypeInv, TypeOK
<1>7. MeasureInv' /\ SplitInv' /\ StoreInv'
  BY <1>1 DEF MeasureInv, SplitInv, StoreInv
<1>8. \A p \in DOMAIN parts' : HasDigits(parts'[p].number, size'[p])
  <2>1. /\ size'[part] = size[part] + 1
        /\ \A p \in DOMAIN parts : p # part => size'[p] = size[p]
    BY <1>1, <1>2
  <2>2. \A p \in DOMAIN parts : p = part \/ p \in 1 .. part - 1
    BY <1>2 DEF IsLast
  <2>3. \A p \in 1 .. part - 1 : p # part /\ p \in DOMAIN parts
    BY <1>2
  <2>4. \A p \in 1 .. part - 1 : HasDigits(parts[p].number, size[p])
    BY <1>1, <1>3 DEF MeasureInv
  <2>5. QED
    BY <1>1, <1>2, <2>1, <2>2, <2>3, <2>4
<1>9. AllocInv'
  BY <1>1, <1>3, <1>8 DEF AllocInv, MeasureInv
<1>10. QED
  BY <1>6, <1>7, <1>9 DEF ReportInv

\* What is known of the part that is split or stored.
LEMMA PartState ==
  ASSUME ReportInv
  PROVE  /\ TypeInv /\ PartsOK /\ AllocInv /\ SplitInv /\ StoreInv
         /\ part \in DOMAIN parts /\ size[part] \in Nat /\ parts[part].number \in Nat
         /\ 1 \in DOMAIN parts /\ parts[1].number \in Nat
         /\ n \in Nat \cup {-1} /\ n \in Int /\ n + 1 \in Nat
         /\ capacity \in Nat /\ i \in Nat /\ number \in Nat /\ Len(text) \in Nat
         /\ text \in Seq(Glyph) /\ \A d \in DOMAIN arr : arr[d] \in 0 .. 9
         /\ parts[part].pre \in Seq(Glyph) /\ parts[part].post \in Seq(Glyph)
         /\ Before(part) \in Nat /\ AllGlyphs \in Nat
         /\ Before(part) + Len(parts[part].pre) + size[part] + Len(parts[part].post)
              <= AllGlyphs
         /\ IsLast => Before(part) + Len(parts[part].pre) + size[part] + Len(parts[part].post)
                        = AllGlyphs
         /\ ~IsLast => /\ part + 1 \in DOMAIN parts /\ parts[part + 1].number \in Nat
                       /\ Before(part) + Len(parts[part].pre) + size[part] + Len(parts[part].post)
                            = Before(part + 1)
<1>1. TypeInv /\ PartsOK /\ AllocInv /\ SplitInv /\ StoreInv
  BY DEF ReportInv, TypeInv
<1>2. /\ part \in DOMAIN parts /\ size \in [DOMAIN parts -> Nat]
      /\ n \in Nat \cup {-1} /\ n \in Int /\ n + 1 \in Nat
      /\ capacity \in Nat /\ i \in Nat /\ number \in Nat
      /\ text \in Seq(Glyph) /\ \A d \in DOMAIN arr : arr[d] \in 0 .. 9
  BY <1>1 DEF TypeInv, TypeOK
<1>3. /\ DOMAIN parts \in {{1}, {1, 2, 3}} /\ Len(parts) = (IF 2 \in DOMAIN parts THEN 3 ELSE 1)
      /\ \A p \in DOMAIN parts :
           /\ parts[p].pre \in Seq(Glyph) /\ parts[p].post \in Seq(Glyph)
           /\ parts[p].number \in Nat
  BY <1>1, <1>2, GlyphTypes
<1>4. /\ Fixed(part) \in Nat /\ Fixed(part) = Len(parts[part].pre) + Len(parts[part].post)
      /\ Glyphs(part) \in Nat /\ Glyphs(part) = Fixed(part) + size[part]
      /\ Before(part) \in Nat
      /\ part < Len(parts) => part + 1 \in DOMAIN parts /\ Before(part + 1) = Before(part) + Glyphs(part)
      /\ part = Len(parts) => AllGlyphs = Before(part) + Glyphs(part)
      /\ Before(part) + Glyphs(part) <= AllGlyphs
  BY <1>1, <1>2, GlyphTypes
<1>5. part = Len(parts) \/ part < Len(parts)
  BY <1>2, <1>3
<1>6. AllGlyphs \in Nat
  <2>1. AllGlyphs = IF Len(parts) = 1 THEN Glyphs(1) ELSE Glyphs(1) + Glyphs(2) + Glyphs(3)
    BY DEF AllGlyphs
  <2>2. \A p \in DOMAIN parts : Glyphs(p) \in Nat
    BY <1>1, <1>2, GlyphTypes
  <2>3. QED
    BY <1>3, <2>1, <2>2
<1>7. /\ Before(part) + Glyphs(part)
            = Before(part) + Len(parts[part].pre) + size[part] + Len(parts[part].post)
      /\ Len(text) \in Nat /\ size[part] \in Nat
  <2>1. /\ Len(parts[part].pre) \in Nat /\ Len(parts[part].post) \in Nat
        /\ Len(text) \in Nat /\ size[part] \in Nat
    BY <1>2, <1>3
  <2>2. PICK before \in Nat : before = Before(part)
    BY <1>4, Zenon
  <2>3. PICK pre \in Nat, post \in Nat : pre = Len(parts[part].pre) /\ post = Len(parts[part].post)
    BY <2>1, Zenon
  <2>4. PICK digits \in Nat : digits = size[part]
    BY <2>1, Zenon
  <2>5. PICK glyphs : glyphs = Glyphs(part)
    OBVIOUS
  <2>6. glyphs = (pre + post) + digits
    BY <1>4, <2>3, <2>4, <2>5, Zenon
  <2>7. before + glyphs = before + pre + digits + post
    BY <2>6
  <2>8. QED
    BY <2>1, <2>2, <2>3, <2>4, <2>5, <2>7, Zenon
<1>8. /\ Before(part) + Len(parts[part].pre) + size[part] + Len(parts[part].post) <= AllGlyphs
      /\ part = Len(parts) =>
           Before(part) + Len(parts[part].pre) + size[part] + Len(parts[part].post) = AllGlyphs
      /\ part < Len(parts) =>
           /\ part + 1 \in DOMAIN parts
           /\ Before(part) + Len(parts[part].pre) + size[part] + Len(parts[part].post)
                = Before(part + 1)
  BY <1>4, <1>7, Zenon
<1>9. part + 1 \in DOMAIN parts => parts[part + 1].number \in Nat
  BY <1>3, Zenon
<1>10. 1 \in DOMAIN parts /\ parts[1].number \in Nat
  BY <1>3
<1>11. IsLast <=> part = Len(parts)
  BY DEF IsLast
<1>12. QED
  BY <1>1, <1>2, <1>3, <1>4, <1>5, <1>6, <1>7, <1>8, <1>9, <1>10, <1>11, Zenon

\* The allocation, for what was measured.
LEMMA AllocKeeps ==
  ASSUME ReportInv, Alloc
  PROVE  ReportInv'
<1>1. /\ pc = "alloc" /\ pc' = "split" /\ number' = parts[1].number
      /\ capacity' = SumOfSizes + FixedGlyphs[kind]
      /\ kind' = kind /\ parts' = parts /\ part' = part /\ len' = len /\ size' = size
      /\ arr' = arr /\ n' = n /\ text' = text /\ i' = i
  BY DEF Alloc
<1>2. TypeInv /\ PartsOK /\ AllocInv /\ 1 \in DOMAIN parts /\ parts[1].number \in Nat
      /\ AllGlyphs \in Nat
  BY PartState
<1>3. part = 1 /\ n = 0 /\ arr = <<>> /\ text = <<>>
      /\ \A p \in DOMAIN parts : HasDigits(parts[p].number, size[p])
  BY <1>1, <1>2 DEF AllocInv
<1>4. SumOfSizes + FixedGlyphs[kind] = AllGlyphs
  <2>1. size \in [DOMAIN parts -> Nat]
    BY <1>2 DEF TypeInv, TypeOK
  <2>2. /\ DOMAIN parts \in {{1}, {1, 2, 3}}
        /\ Len(parts) = (IF 2 \in DOMAIN parts THEN 3 ELSE 1)
        /\ \A p \in DOMAIN parts : Fixed(p) \in Nat /\ Glyphs(p) = Fixed(p) + size[p]
    BY <1>2, <2>1, GlyphTypes
  <2>3. CASE DOMAIN parts = {1}
    <3>1. PICK f1, s1 \in Nat : f1 = Fixed(1) /\ s1 = size[1]
      BY <2>1, <2>2, <2>3
    <3>2. Len(parts) = 1 /\ Glyphs(1) = f1 + s1 /\ FixedGlyphs[kind] = f1
      BY <1>2, <2>2, <2>3, <3>1 DEF PartsOK
    <3>3. QED
      BY <3>1, <3>2 DEF SumOfSizes, AllGlyphs
  <2>4. CASE DOMAIN parts = {1, 2, 3}
    <3>1. PICK f1, f2, f3, s1, s2, s3 \in Nat :
            /\ f1 = Fixed(1) /\ f2 = Fixed(2) /\ f3 = Fixed(3)
            /\ s1 = size[1] /\ s2 = size[2] /\ s3 = size[3]
      BY <2>1, <2>2, <2>4
    <3>2. /\ Len(parts) = 3 /\ Glyphs(1) = f1 + s1 /\ Glyphs(2) = f2 + s2
          /\ Glyphs(3) = f3 + s3 /\ FixedGlyphs[kind] = f1 + f2 + f3
      BY <1>2, <2>2, <2>4, <3>1 DEF PartsOK
    <3>3. SumOfSizes = s1 + s2 + s3 /\ AllGlyphs = (f1 + s1) + (f2 + s2) + (f3 + s3)
      <4>1. ~(Len(parts) = 1)
        BY <3>2
      <4>2. SumOfSizes = size[1] + size[2] + size[3]
        BY <4>1, Zenon DEF SumOfSizes
      <4>3. AllGlyphs = Glyphs(1) + Glyphs(2) + Glyphs(3)
        BY <4>1, Zenon DEF AllGlyphs
      <4>4. QED
        BY <3>1, <3>2, <4>2, <4>3, Zenon
    <3>4. QED
      BY <3>1, <3>2, <3>3
  <2>5. QED
    BY <2>2, <2>3, <2>4
<1>5. PartsOK' /\ AllGlyphs' = AllGlyphs /\ \A p : Before(p)' = Before(p)
  BY <1>1, <1>2, PartsKept
<1>6. TypeInv'
  BY <1>1, <1>2, <1>4, <1>5 DEF TypeInv, TypeOK
<1>7. MeasureInv'
  BY <1>1 DEF MeasureInv
<1>8. AllocInv'
  BY <1>1, <1>3, <1>4, <1>5 DEF AllocInv
<1>9. SplitInv'
  <2>1. size[1] \in Nat
    BY <1>2 DEF TypeInv, TypeOK
  <2>2. LeftAfter(parts[1].number, 0, size[1], parts[1].number)
    BY <1>2, <1>3, <2>1, SplitBegins
  <2>3. DOMAIN arr = {} /\ 0 .. n - 1 = {}
    BY <1>3
  <2>4. LeftAfter(parts'[part'].number, n', size'[part'], number')
    BY <1>1, <1>3, <2>2
  <2>5. QED
    BY <1>1, <1>3, <2>3, <2>4 DEF SplitInv
<1>10. StoreInv'
  <2>1. Before(1)' = 0
    BY DEF Before
  <2>2. Len(text') = 0
    BY <1>1, <1>3
  <2>3. Before(part)' = 0
    BY <1>1, <1>3, <2>1
  <2>4. QED
    BY <1>1, <2>2, <2>3 DEF StoreInv
<1>11. QED
  BY <1>6, <1>7, <1>8, <1>9, <1>10 DEF ReportInv

\* The splitting: there is a digit measured for each that is split off.
LEMMA SplitKeeps ==
  ASSUME ReportInv, Split
  PROVE  ReportInv'
<1>1. /\ pc = "split" /\ arr' = StoreAt(number % 10) /\ number' = number \div 10
      /\ IF number' # 0 THEN pc' = "split" /\ n' = n + 1 ELSE pc' = "store" /\ n' = n
      /\ kind' = kind /\ parts' = parts /\ part' = part /\ len' = len /\ size' = size
      /\ capacity' = capacity /\ text' = text /\ i' = i
  BY DEF Split
<1>2. /\ TypeInv /\ PartsOK /\ AllocInv /\ SplitInv /\ StoreInv
      /\ part \in DOMAIN parts /\ size[part] \in Nat /\ parts[part].number \in Nat
      /\ number \in Nat /\ \A d \in DOMAIN arr : arr[d] \in 0 .. 9
  BY PartState
<1>3. PICK x \in Nat, m \in Nat : x = parts[part].number /\ m = size[part]
  BY <1>2
<1>4. LeftAfter(x, n, m, number) /\ DOMAIN arr = 0 .. n - 1
  BY <1>1, <1>2, <1>3 DEF SplitInv
<1>5. /\ n \in 0 .. m - 1
      /\ number \div 10 # 0 => LeftAfter(x, n + 1, m, number \div 10)
      /\ number \div 10 = 0 => n + 1 = m
  BY <1>4, SplitChain
<1>6. number % 10 \in 0 .. 9 /\ number \div 10 \in Nat
  BY <1>2
<1>7. DOMAIN arr' = 0 .. n /\ \A d \in DOMAIN arr' : arr'[d] \in 0 .. 9
  <2>1. DOMAIN arr' = DOMAIN arr \cup {n}
    BY <1>1 DEF StoreAt
  <2>2. DOMAIN arr \cup {n} = 0 .. n
    BY <1>4, <1>5
  <2>3. \A d \in DOMAIN arr' : arr'[d] = IF d = n THEN number % 10 ELSE arr[d]
    BY <1>1 DEF StoreAt
  <2>4. QED
    BY <1>2, <1>6, <2>1, <2>2, <2>3
<1>8. PartsOK' /\ AllGlyphs' = AllGlyphs /\ \A p : Before(p)' = Before(p)
  BY <1>1, <1>2, PartsKept
<1>9. TypeInv'
  <2>1. n' \in Nat /\ number' \in Nat /\ pc' \in {"split", "store"}
    BY <1>1, <1>5, <1>6
  <2>2. QED
    BY <1>1, <1>2, <1>7, <1>8, <2>1 DEF TypeInv, TypeOK
<1>10. MeasureInv'
  BY <1>1 DEF MeasureInv
<1>11. AllocInv'
  BY <1>1, <1>2, <1>8 DEF AllocInv
<1>12. SplitInv'
  <2>1. CASE number \div 10 # 0
    <3>1. pc' = "split" /\ n' = n + 1 /\ 0 .. n' - 1 = 0 .. n
      BY <1>1, <1>5, <2>1
    <3>2. LeftAfter(parts'[part'].number, n', size'[part'], number')
      BY <1>1, <1>3, <1>5, <2>1, <3>1, Zenon
    <3>3. QED
      BY <1>7, <3>1, <3>2 DEF SplitInv
  <2>2. CASE number \div 10 = 0
    <3>1. pc' = "store" /\ n' = n /\ n = size[part] - 1 /\ size'[part'] = size[part]
      BY <1>1, <1>3, <1>5, <2>2
    <3>2. QED
      BY <1>7, <3>1 DEF SplitInv
  <2>3. QED
    BY <2>1, <2>2
<1>13. StoreInv'
  <2>1. Len(text') = Before(part)'
    BY <1>1, <1>2, <1>8 DEF StoreInv
  <2>2. QED
    BY <1>1, <2>1 DEF StoreInv
<1>14. QED
  BY <1>9, <1>10, <1>11, <1>12, <1>13 DEF ReportInv

\* The fixed glyphs before a number.
LEMMA StoreFixedKeeps ==
  ASSUME ReportInv, StoreFixed
  PROVE  ReportInv'
<1>1. /\ pc = "store" /\ pc' = "digits" /\ text' = text \o parts[part].pre
      /\ kind' = kind /\ parts' = parts /\ part' = part /\ len' = len /\ size' = size
      /\ number' = number /\ arr' = arr /\ n' = n /\ capacity' = capacity /\ i' = i
  BY DEF StoreFixed
<1>2. /\ TypeInv /\ PartsOK /\ AllocInv /\ SplitInv /\ StoreInv
      /\ size[part] \in Nat /\ n \in Int /\ text \in Seq(Glyph)
      /\ parts[part].pre \in Seq(Glyph) /\ Before(part) \in Nat
  BY PartState
<1>3. text' \in Seq(Glyph) /\ Len(text') = Len(text) + Len(parts[part].pre)
  BY <1>1, <1>2, ConcatProperties
<1>4. PartsOK' /\ AllGlyphs' = AllGlyphs /\ \A p : Before(p)' = Before(p)
  BY <1>1, <1>2, PartsKept
<1>5. /\ Len(text) = Before(part) /\ DOMAIN arr = 0 .. size[part] - 1
      /\ n = size[part] - 1 /\ n + 1 = size[part] /\ n <= size[part] - 1
  BY <1>1, <1>2 DEF SplitInv, StoreInv
<1>6. TypeInv'
  BY <1>1, <1>2, <1>3, <1>4 DEF TypeInv, TypeOK
<1>7. MeasureInv' /\ AllocInv'
  BY <1>1, <1>2, <1>4 DEF MeasureInv, AllocInv
<1>8. SplitInv'
  BY <1>1, <1>2, <1>5 DEF SplitInv
<1>9. StoreInv'
  <2>1. Len(text') + (n' + 1) = Before(part) + Len(parts[part].pre) + size[part]
    BY <1>1, <1>3, <1>5, Zenon
  <2>2. /\ Before(part)' = Before(part) /\ size'[part'] = size[part]
        /\ parts'[part'].pre = parts[part].pre
    BY <1>1, <1>4, Zenon
  <2>3. Len(text') + (n' + 1) = Before(part)' + Len(parts'[part'].pre) + size'[part']
    BY <2>1, <2>2, Zenon
  <2>4. QED
    BY <1>1, <2>3 DEF StoreInv
<1>10. QED
  BY <1>6, <1>7, <1>8, <1>9 DEF ReportInv

\* A digit has a glyph.
LEMMA DigitGlyphs == \A d \in 0 .. 9 : DigitGlyph[d + 1] \in Glyph
<1>1. \A a1, a2, a3, a4, a5, a6, a7, a8, a9, a10 : \A d \in 0 .. 9 :
        <<a1, a2, a3, a4, a5, a6, a7, a8, a9, a10>>[d + 1]
          \in {a1, a2, a3, a4, a5, a6, a7, a8, a9, a10}
  OBVIOUS
<1>2. \A d \in 0 .. 9 : DigitGlyph[d + 1] \in Digit
  BY <1>1, ZenonT(40) DEF DigitGlyph, Digit
<1>3. QED
  BY <1>2, Zenon DEF Glyph

\* The digits of the number, which are as many as were split off.
LEMMA StoreDigitKeeps ==
  ASSUME ReportInv, StoreDigit
  PROVE  ReportInv'
<1>1. /\ pc = "digits" /\ n >= 0 /\ text' = Append(text, DigitGlyph[arr[n] + 1]) /\ n' = n - 1
      /\ kind' = kind /\ parts' = parts /\ pc' = pc /\ part' = part /\ len' = len
      /\ size' = size /\ number' = number /\ arr' = arr /\ capacity' = capacity /\ i' = i
  BY DEF StoreDigit
<1>2. /\ TypeInv /\ PartsOK /\ AllocInv /\ SplitInv /\ StoreInv
      /\ size[part] \in Nat /\ n \in Int /\ text \in Seq(Glyph)
      /\ Before(part) \in Nat /\ Len(text) \in Nat /\ parts[part].pre \in Seq(Glyph)
      /\ \A d \in DOMAIN arr : arr[d] \in 0 .. 9
  BY PartState
<1>3. DOMAIN arr = 0 .. size[part] - 1 /\ n <= size[part] - 1
  BY <1>1, <1>2, Zenon DEF SplitInv
<1>4. DigitGlyph[arr[n] + 1] \in Glyph
  <2>1. n \in DOMAIN arr
    BY <1>1, <1>2, <1>3
  <2>2. arr[n] \in 0 .. 9
    BY <1>2, <2>1
  <2>3. QED
    BY <2>2, DigitGlyphs, Zenon
<1>5. text' \in Seq(Glyph) /\ Len(text') = Len(text) + 1
  BY <1>1, <1>2, <1>4, AppendProperties
<1>6. n' \in Nat \cup {-1} /\ n' <= size[part] - 1
  BY <1>1, <1>2, <1>3
<1>7. PartsOK' /\ AllGlyphs' = AllGlyphs /\ \A p : Before(p)' = Before(p)
  BY <1>1, <1>2, PartsKept
<1>8. TypeInv'
  BY <1>1, <1>2, <1>5, <1>6, <1>7 DEF TypeInv, TypeOK
<1>9. MeasureInv' /\ AllocInv'
  BY <1>1, <1>2, <1>7 DEF MeasureInv, AllocInv
<1>10. SplitInv'
  BY <1>1, <1>3, <1>6 DEF SplitInv
<1>11. StoreInv'
  <2>1. PICK t \in Nat, k \in Int : t = Len(text) /\ k = n
    BY <1>2, Zenon
  <2>2. (t + 1) + ((k - 1) + 1) = t + (k + 1)
    OBVIOUS
  <2>3. Len(text') + (n' + 1) = Len(text) + (n + 1)
    BY <1>1, <1>5, <2>1, <2>2, Zenon
  <2>4. Len(text) + (n + 1) = Before(part) + Len(parts[part].pre) + size[part]
    BY <1>1, <1>2, Zenon DEF StoreInv
  <2>5. /\ Before(part)' = Before(part) /\ size'[part'] = size[part]
        /\ parts'[part'].pre = parts[part].pre
    BY <1>1, <1>7, Zenon
  <2>6. Len(text') + (n' + 1) = Before(part)' + Len(parts'[part'].pre) + size'[part']
    BY <2>3, <2>4, <2>5, Zenon
  <2>7. QED
    BY <1>1, <2>6 DEF StoreInv
<1>12. QED
  BY <1>8, <1>9, <1>10, <1>11 DEF ReportInv

\* The glyph after a number: all glyphs of the part are stored, ...
LEMMA FinishState ==
  ASSUME ReportInv, FinishPart
  PROVE  /\ pc = "digits" /\ n = -1 /\ text' \in Seq(Glyph) /\ Len(text') \in Nat
         /\ Len(text') = Before(part) + Len(parts[part].pre) + size[part] + Len(parts[part].post)
         /\ arr' = <<>> /\ kind' = kind /\ parts' = parts /\ len' = len /\ size' = size
         /\ capacity' = capacity /\ i' = i
<1>1. /\ pc = "digits" /\ n < 0 /\ text' = text \o parts[part].post
      /\ arr' = <<>> /\ kind' = kind /\ parts' = parts /\ len' = len /\ size' = size
      /\ capacity' = capacity /\ i' = i
  BY DEF FinishPart
<1>2. /\ StoreInv /\ Len(text) \in Nat /\ text \in Seq(Glyph) /\ n \in Nat \cup {-1}
      /\ parts[part].post \in Seq(Glyph)
  BY PartState
<1>3. text' \in Seq(Glyph) /\ Len(text') = Len(text) + Len(parts[part].post)
  BY <1>1, <1>2, ConcatProperties
<1>4. Len(text) + (n + 1) = Before(part) + Len(parts[part].pre) + size[part]
  BY <1>1, <1>2, Zenon DEF StoreInv
<1>5. n = -1 /\ Len(text) + (n + 1) = Len(text)
  BY <1>1, <1>2
<1>6. Len(text') = Before(part) + Len(parts[part].pre) + size[part] + Len(parts[part].post)
  BY <1>3, <1>4, <1>5, Zenon
<1>7. Len(text') \in Nat
  BY <1>3, LenProperties
<1>8. QED
  BY <1>1, <1>3, <1>5, <1>6, <1>7, Zenon

\* ... so that either the report is complete or the next number is split.
LEMMA FinishKeeps ==
  ASSUME ReportInv, FinishPart
  PROVE  ReportInv'
<1>1. /\ pc = "digits" /\ n = -1 /\ text' \in Seq(Glyph) /\ Len(text') \in Nat
      /\ Len(text') = Before(part) + Len(parts[part].pre) + size[part] + Len(parts[part].post)
      /\ arr' = <<>> /\ kind' = kind /\ parts' = parts /\ len' = len /\ size' = size
      /\ capacity' = capacity /\ i' = i
  BY FinishState
<1>2. /\ TypeInv /\ PartsOK /\ AllocInv /\ SplitInv /\ StoreInv
      /\ part \in DOMAIN parts /\ number \in Nat
  BY PartState
<1>3. PartsOK' /\ AllGlyphs' = AllGlyphs /\ \A p : Before(p)' = Before(p)
  BY <1>1, <1>2, PartsKept
<1>4. DOMAIN arr' = {}
  BY <1>1
<1>5. CASE IsLast
  <2>1. pc' = "scroll" /\ part' = part /\ number' = number /\ n' = n
    BY <1>5 DEF FinishPart
  <2>2. Len(text') = AllGlyphs
    BY <1>1, <1>5, PartState, Zenon
  <2>3. TypeInv'
    BY <1>1, <1>2, <1>3, <1>4, <2>1 DEF TypeInv, TypeOK
  <2>4. MeasureInv' /\ AllocInv'
    BY <1>1, <1>2, <1>3, <2>1 DEF MeasureInv, AllocInv
  <2>5. SplitInv'
    BY <1>1, <1>5, <2>1 DEF SplitInv, IsLast
  <2>6. StoreInv'
    BY <1>3, <2>1, <2>2 DEF StoreInv
  <2>7. QED
    BY <2>3, <2>4, <2>5, <2>6 DEF ReportInv
<1>6. CASE ~IsLast
  <2>1. pc' = "split" /\ part' = part + 1 /\ number' = parts[part + 1].number /\ n' = 0
    BY <1>6 DEF FinishPart
  <2>2. /\ part + 1 \in DOMAIN parts /\ parts[part + 1].number \in Nat
        /\ Len(text') = Before(part + 1)
    BY <1>1, <1>6, PartState, Zenon
  <2>3. TypeInv'
    BY <1>1, <1>2, <1>3, <1>4, <2>1, <2>2 DEF TypeInv, TypeOK
  <2>4. MeasureInv' /\ AllocInv'
    BY <1>1, <1>2, <1>3, <2>1 DEF MeasureInv, AllocInv
  <2>5. SplitInv'
    <3>1. HasDigits(parts[part + 1].number, size[part + 1])
      BY <1>1, <1>2, <2>2 DEF AllocInv
    <3>2. size[part + 1] \in Nat
      BY <1>2, <2>2 DEF TypeInv, TypeOK
    <3>3. LeftAfter(parts[part + 1].number, 0, size[part + 1], parts[part + 1].number)
      BY <2>2, <3>1, <3>2, SplitBegins, Zenon
    <3>4. /\ LeftAfter(parts'[part'].number, n', size'[part'], number')
          /\ DOMAIN arr' = 0 .. n' - 1
      BY <1>1, <1>4, <2>1, <3>3
    <3>5. QED
      BY <1>1, <1>4, <2>1, <3>4 DEF SplitInv
  <2>6. StoreInv'
    <3>1. Before(part)' = Before(part + 1)
      BY <1>1, <2>1, Zenon DEF Before, Glyphs, Fixed, FixedOf
    <3>2. Len(text') = Before(part)'
      BY <2>2, <3>1, Zenon
    <3>3. QED
      BY <2>1, <3>2 DEF StoreInv
  <2>7. QED
    BY <2>3, <2>4, <2>5, <2>6 DEF ReportInv
<1>7. QED
  BY <1>5, <1>6

\* The display of a complete text, and what changes nothing.
LEMMA ScrollKeeps ==
  ASSUME ReportInv, Scroll \/ Free \/ UNCHANGED vars
  PROVE  ReportInv'
<1>1. /\ pc' = pc \/ (pc = "scroll" /\ pc' = "done")
      /\ kind' = kind /\ parts' = parts /\ part' = part /\ len' = len /\ size' = size
      /\ number' = number /\ arr' = arr /\ n' = n /\ capacity' = capacity /\ text' = text
  BY DEF Scroll, Free, vars
<1>2. /\ TypeInv /\ PartsOK /\ AllocInv /\ SplitInv /\ StoreInv /\ MeasureInv
      /\ i \in Nat
  BY PartState DEF ReportInv
<1>3. i' = i + 1 \/ i' = i
  BY DEF Scroll, Free, vars
<1>4. i' \in Nat
  BY <1>2, <1>3
<1>5. PartsOK' /\ AllGlyphs' = AllGlyphs /\ \A p : Before(p)' = Before(p)
  BY <1>1, <1>2, PartsKept
<1>6. Before(part)' = Before(part)
  BY <1>1, Zenon DEF Before, Glyphs, Fixed, FixedOf
<1>7. TypeInv'
  BY <1>1, <1>2, <1>4, <1>5 DEF TypeInv, TypeOK
<1>8. MeasureInv' /\ AllocInv'
  BY <1>1, <1>2, <1>5 DEF MeasureInv, AllocInv
<1>9. SplitInv' /\ StoreInv'
  BY <1>1, <1>2, <1>5, <1>6 DEF SplitInv, StoreInv
<1>10. QED
  BY <1>7, <1>8, <1>9 DEF ReportInv

\* Every step keeps the invariant.
LEMMA NextReport == ReportInv /\ [Next]_vars => ReportInv'
<1> SUFFICES ASSUME ReportInv, [Next]_vars PROVE ReportInv'
  OBVIOUS
<1>1. CASE Measure
  <2>1. len \in Nat
    BY DEF ReportInv, TypeInv, TypeOK
  <2>2. len \div 10 > 0 \/ len \div 10 = 0
    BY <2>1
  <2>3. QED
    BY <1>1, <2>2, MeasureGoesOn, MeasureNext, MeasureEnds
<1>2. QED
  BY <1>1, AllocKeeps, SplitKeeps, StoreFixedKeeps, StoreDigitKeeps, FinishKeeps, ScrollKeeps
  DEF Next

\* ReportInv holds in every state a report reaches.
THEOREM ReportStays == Spec => []ReportInv
  BY InitReport, NextReport, PTL DEF Spec

----------------------------------------------------------------------------
(* The digits are those of the number.                                     *)

\* What a chain goes down are the quotients by the powers of ten.
LEMMA ChainPowers ==
  ASSUME NEW x \in Nat, NEW d \in Nat, NEW w, IsChain(w, x, d)
  PROVE  \A k \in 1 .. d : w[k] = x \div PowerOfTen[k - 1]
<1> DEFINE T == {k \in Nat : k + 1 <= d => w[k + 1] = x \div PowerOfTen[k]}
<1>1. 0 \in T
  <2>1. x \div PowerOfTen[0] = x
    BY PowersNext
  <2>2. d >= 1 => w[0 + 1] = x
    BY DEF IsChain
  <2> QED
    BY <2>1, <2>2
<1>2. ASSUME NEW k \in Nat, k \in T PROVE k + 1 \in T
  <2> SUFFICES ASSUME (k + 1) + 1 <= d PROVE w[(k + 1) + 1] = x \div PowerOfTen[k + 1]
    OBVIOUS
  <2>1. w[(k + 1) + 1] = w[k + 1] \div 10
    BY DEF IsChain
  <2>2. w[k + 1] = x \div PowerOfTen[k]
    BY <1>2
  <2>3. PowerOfTen[k] \in Nat /\ PowerOfTen[k] > 0 /\ PowerOfTen[k + 1] = 10 * PowerOfTen[k]
    BY PowersGrow, PowersNext
  <2> QED
    BY <2>1, <2>2, <2>3, QuotientTenth
<1>3. Nat \subseteq T
  <2> HIDE DEF T
  <2> QED
    BY <1>1, <1>2, SetInduction
<1>4. ASSUME NEW k \in 1 .. d PROVE w[k] = x \div PowerOfTen[k - 1]
  <2>1. k - 1 \in T /\ (k - 1) + 1 = k
    BY <1>3
  <2> QED
    BY <2>1
<1> QED
  BY <1>4

\* What is left of a number after d digits is its quotient by that power of ten.
LEMMA LeftIsQuotient ==
  ASSUME NEW x \in Nat, NEW d, NEW m \in Nat, NEW left, LeftAfter(x, d, m, left)
  PROVE  left = x \div PowerOfTen[d]
<1>1. PICK w : IsChain(w, x, m) /\ d \in 0 .. m - 1 /\ left = w[d + 1]
  BY DEF LeftAfter
<1>2. d + 1 \in 1 .. m /\ (d + 1) - 1 = d
  BY <1>1
<1> QED
  BY <1>1, <1>2, ChainPowers

\* The digits that are measured are those the number has by definition, since the
\* chain ends below ten.
LEMMA DigitsAreLength ==
  ASSUME NEW x \in Nat, NEW m \in Nat, HasDigits(x, m)
  PROVE  DecimalLength(x) = m
<1> DEFINE P(k) == x < PowerOfTen[k] /\ (k = 1 \/ x >= PowerOfTen[k - 1])
<1>1. PICK w : m >= 1 /\ IsChain(w, x, m) /\ w[m] < 10
  BY DEF HasDigits
<1>2. \A k \in 1 .. m : w[k] = x \div PowerOfTen[k - 1]
  BY <1>1, ChainPowers
<1>3. /\ \A k \in Nat : PowerOfTen[k] \in Nat /\ PowerOfTen[k] > k
      /\ m - 1 \in Nat /\ PowerOfTen[m] = 10 * PowerOfTen[m - 1]
  <2>1. m - 1 \in Nat /\ (m - 1) + 1 = m
    BY <1>1
  <2> QED
    BY <2>1, PowersGrow, PowersNext
<1>4. x < PowerOfTen[m]
  <2>1. PICK a \in Nat : a = PowerOfTen[m - 1] /\ a > 0
    BY <1>3
  <2>2. PICK q \in Nat : q = x \div a /\ x < a * q + a
    BY <2>1, QuotientBounds
  <2>3. q <= 9
    BY <1>1, <1>2, <2>1, <2>2
  <2>4. a * q + a <= 10 * a
    BY <2>3
  <2> QED
    BY <1>3, <2>1, <2>2, <2>4
<1>5. ASSUME m # 1 PROVE x >= PowerOfTen[m - 1]
  <2>1. m - 2 \in Nat /\ m - 1 \in 1 .. m - 1 /\ m - 1 \in 1 .. m /\ (m - 2) + 1 = m - 1 /\ (m - 1) - 1 = m - 2
    BY <1>1, <1>5
  <2>2. PICK a \in Nat : a = PowerOfTen[m - 2] /\ a > 0
    BY <1>3, <2>1
  <2>3. PICK q \in Nat : q = x \div a /\ a * q <= x
    BY <2>2, QuotientBounds
  <2>4. w[m - 1] >= 10 /\ w[m - 1] = x \div PowerOfTen[m - 2]
    BY <1>1, <1>2, <2>1 DEF IsChain
  <2>5. q >= 10
    BY <2>2, <2>3, <2>4
  <2>6. 10 * a <= a * q
    BY <2>5
  <2>7. PowerOfTen[m - 1] = 10 * a
    BY <2>1, <2>2, PowersNext
  <2> QED
    BY <2>3, <2>6, <2>7
<1>6. m \in 1 .. x + 1
  <2>1. CASE m = 1
    BY <2>1
  <2>2. CASE m # 1
    BY <1>1, <1>3, <1>5, <2>2
  <2> QED
    BY <2>1, <2>2
<1>7. P(m)
  BY <1>4, <1>5
<1>8. ASSUME NEW k \in 1 .. x + 1, P(k) PROVE k = m
  <2>1. k \in Nat /\ k >= 1 /\ k - 1 \in Nat
    OBVIOUS
  <2>2. CASE k < m
    <3>1. k <= m - 1 /\ m # 1
      BY <1>1, <2>1, <2>2
    <3>2. PowerOfTen[k] <= PowerOfTen[m - 1]
      BY <1>3, <2>1, <3>1, PowersGrow
    <3> QED
      BY <1>3, <1>5, <1>8, <2>1, <3>1, <3>2
  <2>3. CASE m < k
    <3>1. m <= k - 1 /\ k # 1
      BY <1>1, <2>1, <2>3
    <3>2. PowerOfTen[m] <= PowerOfTen[k - 1]
      BY <2>1, <3>1, PowersGrow
    <3> QED
      BY <1>3, <1>4, <1>8, <2>1, <3>1, <3>2
  <2> QED
    BY <2>1, <2>2, <2>3
<1> HIDE DEF P
<1>9. (CHOOSE k \in 1 .. x + 1 : P(k)) = m
  BY <1>6, <1>7, <1>8
<1> QED
  BY <1>9 DEF DecimalLength, P

\* The digits of part p's number, first digit first, and the first k of them.
DigitOf(p, d) == DigitGlyph[((parts[p].number \div PowerOfTen[size[p] - d]) % 10) + 1]
Digits(p, k) == [d \in 1 .. k |-> DigitOf(p, d)]

\* What is stored of part p, and of the parts before it.
Stored(p) == parts[p].pre \o Digits(p, size[p]) \o parts[p].post
Preceding(p) == CASE p = 1 -> <<>> [] p = 2 -> Stored(1) [] p = 3 -> Stored(1) \o Stored(2)
AllStored == IF Len(parts) = 1 THEN Stored(1) ELSE Stored(1) \o Stored(2) \o Stored(3)

\* What was split off are the digits of the number, last digit first, and what is
\* stored is the text up to the next glyph.
TextInv ==
  /\ pc \in {"split", "store", "digits"} =>
       \A d \in DOMAIN arr : arr[d] = (parts[part].number \div PowerOfTen[d]) % 10
  /\ pc \in {"split", "store"} => text = Preceding(part)
  /\ pc = "digits" =>
       text = (Preceding(part) \o parts[part].pre) \o Digits(part, size[part] - (n + 1))
  /\ pc \in {"scroll", "done"} => text = AllStored

\* The text is made of glyphs.
LEMMA StoredTypes ==
  ASSUME ReportInv
  PROVE  /\ \A p \in DOMAIN parts :
              /\ \A k \in 0 .. size[p] : Digits(p, k) \in Seq(Glyph)
              /\ Stored(p) \in Seq(Glyph)
              /\ Preceding(p) \in Seq(Glyph)
              /\ parts[p].pre \in Seq(Glyph) /\ parts[p].post \in Seq(Glyph)
         /\ DOMAIN parts \in {{1}, {1, 2, 3}}
         /\ Len(parts) = (IF 2 \in DOMAIN parts THEN 3 ELSE 1)
<1>1. /\ DOMAIN parts \in {{1}, {1, 2, 3}} /\ Len(parts) = (IF 2 \in DOMAIN parts THEN 3 ELSE 1)
      /\ \A p \in DOMAIN parts :
           /\ parts[p].pre \in Seq(Glyph) /\ parts[p].post \in Seq(Glyph)
           /\ parts[p].number \in Nat /\ size[p] \in Nat
  <2>1. PartsOK /\ size \in [DOMAIN parts -> Nat]
    BY DEF ReportInv, TypeInv, TypeOK
  <2> QED
    BY <2>1, GlyphTypes
<1>2. ASSUME NEW p \in DOMAIN parts, NEW k \in 0 .. size[p]
      PROVE  Digits(p, k) \in Seq(Glyph)
  <2>1. ASSUME NEW d \in 1 .. k PROVE DigitOf(p, d) \in Glyph
    <3>1. size[p] - d \in Nat
      BY <1>1, <1>2
    <3>2. PowerOfTen[size[p] - d] \in Nat /\ PowerOfTen[size[p] - d] > 0
      BY <3>1, PowersGrow
    <3>3. parts[p].number \div PowerOfTen[size[p] - d] \in Nat
      BY <1>1, <3>2, QuotientBounds
    <3>4. (parts[p].number \div PowerOfTen[size[p] - d]) % 10 \in 0 .. 9
      BY <3>3
    <3> QED
      BY <3>4, DigitGlyphs, Zenon DEF DigitOf
  <2>2. k \in Nat
    BY <1>1
  <2> QED
    BY <2>1, <2>2 DEF Digits
<1>3. ASSUME NEW p \in DOMAIN parts PROVE Stored(p) \in Seq(Glyph)
  <2>1. Digits(p, size[p]) \in Seq(Glyph)
    BY <1>1, <1>2
  <2> QED
    BY <1>1, <2>1, ConcatProperties, Zenon DEF Stored
<1>4. ASSUME NEW p \in DOMAIN parts PROVE Preceding(p) \in Seq(Glyph)
  <2>1. CASE p = 1
    BY <2>1 DEF Preceding
  <2>2. CASE p = 2
    BY <1>3, <2>2 DEF Preceding
  <2>3. CASE p = 3
    <3>1. 1 \in DOMAIN parts /\ 2 \in DOMAIN parts
      BY <1>1, <2>3
    <3>2. Stored(1) \o Stored(2) \in Seq(Glyph)
      BY <1>3, <3>1, ConcatProperties, Zenon
    <3> QED
      BY <2>3, <3>2 DEF Preceding
  <2> QED
    BY <1>1, <2>1, <2>2, <2>3
<1> QED
  BY <1>1, <1>2, <1>3, <1>4

\* To append to the last part of a text is to append to the text.
LEMMA AppendToText ==
  \A s, t \in Seq(Glyph), e \in Glyph : Append(s \o t, e) = s \o Append(t, e)
<1> TAKE s, t \in Seq(Glyph), e \in Glyph
<1>1. <<e>> \in Seq(Glyph) /\ s \o t \in Seq(Glyph)
  BY ConcatProperties
<1>2. Append(s \o t, e) = (s \o t) \o <<e>> /\ Append(t, e) = t \o <<e>>
  BY <1>1, AppendIsConcat
<1> QED
  BY <1>1, <1>2, ConcatAssociative

\* One more digit.
LEMMA NextDigit ==
  ASSUME NEW p, NEW k \in Nat, Digits(p, k) \in Seq(Glyph), DigitOf(p, k + 1) \in Glyph
  PROVE  Digits(p, k + 1) = Append(Digits(p, k), DigitOf(p, k + 1))
<1>1. Digits(p, k) = [d \in 1 .. k |-> DigitOf(p, d)]
  BY DEF Digits
<1>2. Digits(p, k + 1) = [d \in 1 .. k + 1 |-> DigitOf(p, d)]
  BY DEF Digits
<1>3. Len(Digits(p, k)) = k
  BY <1>1
<1>4. Append(Digits(p, k), DigitOf(p, k + 1))
        = [d \in 1 .. k + 1 |-> IF d <= k THEN Digits(p, k)[d] ELSE DigitOf(p, k + 1)]
  BY <1>3, AppendProperties
<1> QED
  BY <1>1, <1>2, <1>4

\* What is measured does not change any more, and so the text to be stored.
LEMMA TextKept ==
  ASSUME parts' = parts, size' = size
  PROVE  /\ \A p, k : Digits(p, k)' = Digits(p, k)
         /\ \A p : Stored(p)' = Stored(p) /\ Preceding(p)' = Preceding(p)
         /\ AllStored' = AllStored
<1>1. \A p, d : DigitOf(p, d)' = DigitOf(p, d)
  BY DEF DigitOf
<1>2. \A p, k : Digits(p, k)' = Digits(p, k)
  BY <1>1 DEF Digits
<1>3. \A p : Stored(p)' = Stored(p)
  BY <1>2 DEF Stored
<1>4. \A p : Preceding(p)' = Preceding(p)
  BY <1>3 DEF Preceding
<1>5. AllStored' = AllStored
  BY <1>3 DEF AllStored
<1> QED
  BY <1>2, <1>3, <1>4, <1>5

\* As long as the numbers are measured nothing is split off or stored.
LEMMA InitText == Init => TextInv
  BY DEF Init, TextInv

\* Measuring goes on, or ends.
LEMMA MeasureText ==
  ASSUME ReportInv, Measure
  PROVE  TextInv'
  BY DEF Measure, TextInv

\* The first number is split from the beginning, before any glyph.
LEMMA AllocText ==
  ASSUME ReportInv, Alloc
  PROVE  TextInv'
<1>1. pc = "alloc" /\ pc' = "split" /\ part' = part /\ arr' = arr /\ text' = text
  BY DEF Alloc
<1>2. part = 1 /\ arr = <<>> /\ text = <<>>
  BY <1>1 DEF ReportInv, AllocInv
<1> QED
  BY <1>1, <1>2 DEF TextInv, Preceding

\* A digit is split off: the one at its place from the end.
LEMMA SplitText ==
  ASSUME ReportInv, TextInv, Split
  PROVE  TextInv'
<1>1. /\ pc = "split" /\ arr' = StoreAt(number % 10) /\ pc' \in {"split", "store"}
      /\ parts' = parts /\ part' = part /\ size' = size /\ text' = text
  BY DEF Split
<1>2. SplitInv /\ size[part] \in Nat /\ parts[part].number \in Nat
  BY PartState
<1>3. number = parts[part].number \div PowerOfTen[n]
  <2>1. LeftAfter(parts[part].number, n, size[part], number)
    BY <1>1, <1>2 DEF SplitInv
  <2> QED
    BY <1>2, <2>1, LeftIsQuotient
<1>4. \A d \in DOMAIN arr : arr[d] = (parts[part].number \div PowerOfTen[d]) % 10
  BY <1>1 DEF TextInv
<1>5. ASSUME NEW d \in DOMAIN arr'
      PROVE  arr'[d] = (parts[part].number \div PowerOfTen[d]) % 10
  <2>1. d \in DOMAIN arr \cup {n} /\ arr'[d] = IF d = n THEN number % 10 ELSE arr[d]
    BY <1>1, <1>5 DEF StoreAt
  <2>2. CASE d = n
    BY <1>3, <2>1, <2>2
  <2>3. CASE d # n
    BY <1>4, <2>1, <2>3
  <2> QED
    BY <2>2, <2>3
<1>6. text = Preceding(part) /\ Preceding(part)' = Preceding(part)
  <2>1. \A p : Preceding(p)' = Preceding(p)
    BY <1>1, TextKept
  <2> QED
    BY <1>1, <2>1 DEF TextInv, Preceding
<1>7. text' = Preceding(part)'
  BY <1>1, <1>6
<1> QED
  BY <1>1, <1>5, <1>7 DEF TextInv

\* The glyphs before the number are stored, and none of its digits yet.
LEMMA StoreFixedText ==
  ASSUME ReportInv, TextInv, StoreFixed
  PROVE  TextInv'
<1>1. /\ pc = "store" /\ pc' = "digits" /\ text' = text \o parts[part].pre
      /\ parts' = parts /\ part' = part /\ size' = size /\ arr' = arr /\ n' = n
  BY DEF StoreFixed
<1>2. n = size[part] - 1 /\ size[part] \in Nat /\ part \in DOMAIN parts
  BY <1>1, PartState, Zenon DEF SplitInv
<1>3. text = Preceding(part)
  BY <1>1 DEF TextInv
<1>4. \A p, k : Digits(p, k)' = Digits(p, k) /\ Preceding(p)' = Preceding(p)
  BY <1>1, TextKept
<1>5. Digits(part, size[part] - (n + 1)) = <<>>
  <2>1. size[part] - (n + 1) = 0
    BY <1>2
  <2> QED
    BY <2>1 DEF Digits
<1>6. Preceding(part) \o parts[part].pre \in Seq(Glyph)
  BY <1>2, StoredTypes, ConcatProperties, Zenon
<1>7. text' = (Preceding(part) \o parts[part].pre) \o Digits(part, size[part] - (n + 1))
  BY <1>1, <1>3, <1>5, <1>6, ConcatEmptySeq, Zenon
<1>8. ((Preceding(part) \o parts[part].pre) \o Digits(part, size[part] - (n + 1)))'
        = (Preceding(part) \o parts[part].pre) \o Digits(part, size[part] - (n + 1))
  BY <1>1, <1>4
<1> QED
  BY <1>1, <1>7, <1>8 DEF TextInv

\* One more digit is stored, that of the place it has in the number.
LEMMA StoreDigitText ==
  ASSUME ReportInv, TextInv, StoreDigit
  PROVE  TextInv'
<1>1. /\ pc = "digits" /\ n >= 0 /\ text' = Append(text, DigitGlyph[arr[n] + 1]) /\ n' = n - 1
      /\ parts' = parts /\ pc' = pc /\ part' = part /\ size' = size /\ arr' = arr
  BY DEF StoreDigit
<1>2. /\ n \in Int /\ size[part] \in Nat /\ part \in DOMAIN parts
      /\ \A d \in DOMAIN arr : arr[d] \in 0 .. 9
      /\ DOMAIN arr = 0 .. size[part] - 1 /\ n <= size[part] - 1
  BY <1>1, PartState, Zenon DEF SplitInv
<1>3. PICK k \in Nat : /\ k = size[part] - (n + 1) /\ k + 1 = size[part] - (n' + 1)
                       /\ k \in 0 .. size[part] /\ k + 1 \in 0 .. size[part]
                       /\ size[part] - (k + 1) = n
  <2>1. PICK m \in Nat, l \in Nat : m = size[part] /\ l = n /\ l <= m - 1 /\ n' = l - 1
    BY <1>1, <1>2
  <2>2. /\ m - (l + 1) \in Nat /\ (m - (l + 1)) + 1 = m - ((l - 1) + 1)
        /\ m - (l + 1) \in 0 .. m /\ (m - (l + 1)) + 1 \in 0 .. m
        /\ m - ((m - (l + 1)) + 1) = l
    BY <2>1
  <2> QED
    BY <2>1, <2>2
<1>4. text = (Preceding(part) \o parts[part].pre) \o Digits(part, k)
  BY <1>1, <1>3 DEF TextInv
<1>5. n \in DOMAIN arr /\ arr[n] \in 0 .. 9
  BY <1>1, <1>2
<1>6. arr[n] = (parts[part].number \div PowerOfTen[n]) % 10
  BY <1>1, <1>5 DEF TextInv
<1>7. DigitGlyph[arr[n] + 1] = DigitOf(part, k + 1) /\ DigitOf(part, k + 1) \in Glyph
  BY <1>3, <1>5, <1>6, DigitGlyphs, Zenon DEF DigitOf
<1>8. /\ Digits(part, k) \in Seq(Glyph)
      /\ Preceding(part) \in Seq(Glyph) /\ parts[part].pre \in Seq(Glyph)
  BY <1>2, <1>3, StoredTypes, Zenon
<1>9. Digits(part, k + 1) = Append(Digits(part, k), DigitOf(part, k + 1))
  BY <1>7, <1>8, NextDigit, Zenon
<1>10. Preceding(part) \o parts[part].pre \in Seq(Glyph)
  BY <1>8, ConcatProperties, Zenon
<1>11. text' = (Preceding(part) \o parts[part].pre) \o Digits(part, k + 1)
  <2> DEFINE before == Preceding(part) \o parts[part].pre
  <2>1. before \in Seq(Glyph) /\ text = before \o Digits(part, k)
    BY <1>4, <1>10
  <2> HIDE DEF before
  <2>2. Append(before \o Digits(part, k), DigitOf(part, k + 1))
          = before \o Append(Digits(part, k), DigitOf(part, k + 1))
    BY <1>7, <1>8, <2>1, AppendToText, Zenon
  <2>3. text' = before \o Digits(part, k + 1)
    BY <1>1, <1>7, <1>9, <2>1, <2>2, Zenon
  <2> QED
    BY <2>3 DEF before
<1>12. \A p, j : Digits(p, j)' = Digits(p, j) /\ Preceding(p)' = Preceding(p)
  BY <1>1, TextKept
<1>13. ((Preceding(part) \o parts[part].pre) \o Digits(part, size[part] - (n + 1)))'
         = (Preceding(part) \o parts[part].pre) \o Digits(part, size[part] - (n' + 1))
  BY <1>1, <1>12
<1>14. \A d \in DOMAIN arr : arr[d] = (parts[part].number \div PowerOfTen[d]) % 10
  BY <1>1 DEF TextInv
<1> QED
  BY <1>1, <1>3, <1>11, <1>13, <1>14 DEF TextInv

\* All of a part is stored, and what comes next is preceded by it.
LEMMA PrecedingNext ==
  ASSUME ReportInv
  PROVE  /\ ~IsLast => part + 1 \in DOMAIN parts /\ Preceding(part + 1) = Preceding(part) \o Stored(part)
         /\ IsLast => AllStored = Preceding(part) \o Stored(part)
<1>1. /\ DOMAIN parts \in {{1}, {1, 2, 3}} /\ part \in DOMAIN parts
      /\ Len(parts) = (IF 2 \in DOMAIN parts THEN 3 ELSE 1)
      /\ \A p \in DOMAIN parts : Stored(p) \in Seq(Glyph)
  BY PartState, StoredTypes, Zenon
<1>2. CASE part = 1
  <2>1. Preceding(part) \o Stored(part) = Stored(1)
    <3>1. Preceding(part) = <<>>
      BY <1>2 DEF Preceding
    <3> QED
      BY <1>1, <1>2, <3>1, ConcatEmptySeq, Zenon
  <2>2. Preceding(2) = Stored(1)
    BY DEF Preceding
  <2> QED
    BY <1>1, <1>2, <2>1, <2>2 DEF IsLast, AllStored
<1>3. CASE part = 2
  <2>1. Preceding(part) = Stored(1) /\ Preceding(3) = Stored(1) \o Stored(2)
    BY <1>3 DEF Preceding
  <2> QED
    BY <1>1, <1>3, <2>1 DEF IsLast
<1>4. CASE part = 3
  <2>1. Preceding(part) = Stored(1) \o Stored(2)
    BY <1>4 DEF Preceding
  <2> QED
    BY <1>1, <1>4, <2>1 DEF IsLast, AllStored
<1> QED
  BY <1>1, <1>2, <1>3, <1>4

\* The glyphs after the number are stored, and no digit of the next is split off yet.
LEMMA FinishText ==
  ASSUME ReportInv, TextInv, FinishPart
  PROVE  TextInv'
<1>1. /\ pc = "digits" /\ n = -1 /\ text' = text \o parts[part].post /\ arr' = <<>>
      /\ parts' = parts /\ size' = size
  BY FinishState DEF FinishPart
<1>2. /\ size[part] \in Nat /\ part \in DOMAIN parts /\ size[part] \in 0 .. size[part]
      /\ size[part] - (n + 1) = size[part]
  BY <1>1, PartState
<1>3. text = (Preceding(part) \o parts[part].pre) \o Digits(part, size[part])
  BY <1>1, <1>2 DEF TextInv
<1>4. /\ Digits(part, size[part]) \in Seq(Glyph) /\ Preceding(part) \in Seq(Glyph)
      /\ parts[part].pre \in Seq(Glyph) /\ parts[part].post \in Seq(Glyph)
  BY <1>2, StoredTypes, Zenon
<1>5. text' = Preceding(part) \o Stored(part)
  <2>1. Stored(part) = (parts[part].pre \o Digits(part, size[part])) \o parts[part].post
    BY DEF Stored
  <2> QED
    <3>1. PICK p, a, d, z \in Seq(Glyph) :
            /\ p = Preceding(part) /\ a = parts[part].pre /\ d = Digits(part, size[part])
            /\ z = parts[part].post
      BY <1>4
    <3>2. PICK b \in Seq(Glyph) : b = a \o d
      BY ConcatProperties
    <3>3. (p \o a) \o d = p \o b
      BY <3>2, ConcatAssociative
    <3>4. text' = (p \o b) \o z
      BY <1>1, <1>3, <3>1, <3>3
    <3>5. (p \o b) \o z = p \o (b \o z)
      BY ConcatAssociative
    <3>6. Stored(part) = b \o z
      BY <2>1, <3>1, <3>2
    <3> QED
      BY <3>1, <3>4, <3>5, <3>6
<1>6. AllStored' = AllStored /\ \A p : Preceding(p)' = Preceding(p)
  BY <1>1, TextKept
<1>7. CASE IsLast
  <2>1. pc' = "scroll"
    BY <1>7 DEF FinishPart
  <2>2. text' = AllStored'
    BY <1>5, <1>6, <1>7, PrecedingNext
  <2> QED
    BY <1>1, <2>1, <2>2 DEF TextInv
<1>8. CASE ~IsLast
  <2>1. pc' = "split" /\ part' = part + 1
    BY <1>8 DEF FinishPart
  <2>2. text' = Preceding(part + 1)
    BY <1>5, <1>8, PrecedingNext
  <2>3. Preceding(part)' = Preceding(part + 1)
    BY <1>6, <2>1, <1>1 DEF Preceding, Stored, Digits, DigitOf
  <2> QED
    BY <1>1, <2>1, <2>2, <2>3 DEF TextInv
<1> QED
  BY <1>7, <1>8

\* The display.
LEMMA ScrollText ==
  ASSUME ReportInv, TextInv, Scroll \/ Free \/ UNCHANGED vars
  PROVE  TextInv'
<1>1. /\ pc' = pc \/ (pc = "scroll" /\ pc' = "done")
      /\ parts' = parts /\ part' = part /\ size' = size /\ arr' = arr /\ n' = n /\ text' = text
  BY DEF Scroll, Free, vars
<1>2. /\ AllStored' = AllStored
      /\ \A p, k : Digits(p, k)' = Digits(p, k) /\ Preceding(p)' = Preceding(p)
  BY <1>1, TextKept
<1>3. /\ Preceding(part)' = Preceding(part) /\ parts'[part'].pre = parts[part].pre
      /\ Digits(part, size[part] - (n + 1))' = Digits(part, size[part] - (n + 1))
      /\ parts'[part'].number = parts[part].number
  BY <1>1, <1>2
<1>4. CASE pc' = pc
  BY <1>1, <1>2, <1>3, <1>4 DEF TextInv
<1>5. CASE pc = "scroll" /\ pc' = "done"
  BY <1>1, <1>2, <1>5 DEF TextInv
<1> QED
  BY <1>1, <1>4, <1>5

----------------------------------------------------------------------------
(* What follows.                                                           *)

\* TypeOK: what is split off a number and indexes dot_values is a digit, whatever
\* the number (test_mac.c:201, 225-227).
THEOREM ReportTypes == Spec => []TypeOK
<1>1. ReportInv => TypeOK
  BY DEF ReportInv, TypeInv
<1>2. QED
  BY <1>1, ReportStays, PTL

\* What is split off is in bounds of what was measured, and what is stored of what was
\* allocated.
LEMMA InBounds == ReportInv => StoresInBounds
<1> SUFFICES ASSUME ReportInv PROVE StoresInBounds
  OBVIOUS
<1>1. /\ TypeInv /\ PartsOK /\ AllocInv /\ SplitInv /\ StoreInv
      /\ size[part] \in Nat /\ n + 1 \in Nat /\ Len(text) \in Nat
      /\ capacity \in Nat /\ Before(part) \in Nat /\ AllGlyphs \in Nat
      /\ parts[part].pre \in Seq(Glyph) /\ parts[part].post \in Seq(Glyph)
      /\ Before(part) + Len(parts[part].pre) + size[part] + Len(parts[part].post) <= AllGlyphs
  BY PartState
<1>2. pc \in {"measure", "alloc", "split", "store", "digits", "scroll", "done"}
  BY <1>1 DEF TypeInv, TypeOK
<1>3. PICK before \in Nat, pre \in Nat, digits \in Nat, post \in Nat :
        /\ before = Before(part) /\ pre = Len(parts[part].pre)
        /\ digits = size[part] /\ post = Len(parts[part].post)
  BY <1>1, LenProperties
<1>a. PICK all \in Nat, left \in Nat, stored \in Nat :
        all = AllGlyphs /\ left = n + 1 /\ stored = Len(text)
  BY <1>1, Zenon
<1>4. before + pre + digits + post <= all
  BY <1>1, <1>3, <1>a, Zenon
<1>5. CASE pc \in {"measure", "alloc"}
  <2>1. DOMAIN arr = {} /\ Len(text) = 0
    BY <1>1, <1>5 DEF AllocInv
  <2>2. QED
    BY <1>1, <2>1 DEF StoresInBounds
<1>6. CASE pc \in {"split", "store"}
  <2>1. Len(text) = before /\ capacity = AllGlyphs
    BY <1>1, <1>3, <1>6 DEF StoreInv, AllocInv
  <2>2. Len(text) <= capacity
    <3>1. before <= all
      BY <1>4
    <3>2. QED
      BY <1>a, <2>1, <3>1, Zenon
  <2>3. DOMAIN arr \subseteq 0 .. size[part] - 1
    <3>1. CASE pc = "store"
      BY <1>1, <3>1 DEF SplitInv
    <3>2. CASE pc = "split"
      <4>1. LeftAfter(parts[part].number, n, size[part], number) /\ DOMAIN arr = 0 .. n - 1
        BY <1>1, <3>2, Zenon DEF SplitInv
      <4>2. n \in 0 .. size[part] - 1
        BY <1>1, <4>1, SplitChain, Zenon
      <4>3. QED
        BY <1>1, <4>1, <4>2
    <3>3. QED
      BY <1>6, <3>1, <3>2
  <2>4. QED
    BY <2>2, <2>3 DEF StoresInBounds
<1>7. CASE pc = "digits"
  <2>1. Len(text) + (n + 1) = before + pre + digits
    BY <1>1, <1>3, <1>7, Zenon DEF StoreInv
  <2>2. DOMAIN arr = 0 .. size[part] - 1 /\ capacity = AllGlyphs
    BY <1>1, <1>7 DEF SplitInv, AllocInv
  <2>3. Len(text) <= capacity
    <3>1. stored + left = before + pre + digits
      BY <1>a, <2>1, Zenon
    <3>2. stored <= all
      BY <1>4, <3>1
    <3>3. QED
      BY <1>a, <2>2, <3>2, Zenon
  <2>4. QED
    BY <1>1, <2>2, <2>3 DEF StoresInBounds
<1>8. CASE pc \in {"scroll", "done"}
  <2>1. DOMAIN arr = {} /\ Len(text) = AllGlyphs /\ capacity = AllGlyphs
    BY <1>1, <1>8 DEF SplitInv, StoreInv, AllocInv
  <2>2. QED
    BY <1>1, <2>1 DEF StoresInBounds
<1>9. QED
  BY <1>2, <1>5, <1>6, <1>7, <1>8

\* StoresInBounds: no loop of a report stores outside what malloc returned for it, for
\* any numbers of coins (test_mac.c:187-207, 270-304, 347-377, 491-518).
THEOREM ReportStoresInBounds == Spec => []StoresInBounds
  BY InBounds, ReportStays, PTL

\* WindowsAreWritten: every window that dot_write reads lies in the buffer, of which
\* everything is written (test_mac.c:238-246, dot_driver.c:78-80).
THEOREM ReportWindows == Spec => WindowsAreWritten
<1>1. ASSUME ReportInv, Next, i' # i
      PROVE  Len(text) = capacity /\ i + GlyphColumns <= GlyphColumns * capacity
  <2>1. pc = "scroll" /\ i < GlyphColumns * Len(text) - 7
    BY <1>1 DEF Next, Measure, Alloc, Split, StoreFixed, StoreDigit, FinishPart, Scroll, Free
  <2>2. AllocInv /\ StoreInv /\ i \in Nat /\ capacity \in Nat
    BY <1>1, PartState
  <2>3. Len(text) = capacity
    BY <2>1, <2>2 DEF AllocInv, StoreInv
  <2>4. QED
    BY <2>1, <2>2, <2>3 DEF GlyphColumns
<1>2. ReportInv /\ [Next]_vars
        => [i' # i => /\ Len(text) = capacity
                      /\ i + GlyphColumns <= GlyphColumns * capacity]_vars
  BY <1>1 DEF vars
<1>3. QED
  BY <1>2, ReportStays, PTL DEF Spec, WindowsAreWritten

\* ReportIsRight: when a report is shown it reads as the fixed glyphs of its parts around
\* the decimal digits of their numbers, for any numbers of coins (test_mac.c:182-561).
THEOREM ReportReads == Spec => []ReportIsRight
<1>1. ReportInv /\ TextInv /\ [Next]_vars => TextInv'
  BY MeasureText, AllocText, SplitText, StoreFixedText, StoreDigitText, FinishText, ScrollText
  DEF Next
<1>2. ReportInv /\ TextInv => ReportIsRight
  <2> SUFFICES ASSUME ReportInv, TextInv, pc = "scroll"
               PROVE  text = IF Len(parts) = 1 THEN PartText(1)
                             ELSE PartText(1) \o PartText(2) \o PartText(3)
    BY DEF ReportIsRight
  <2>1. ASSUME NEW p \in DOMAIN parts PROVE PartText(p) = Stored(p)
    <3>1. HasDigits(parts[p].number, size[p])
      BY DEF ReportInv, AllocInv
    <3>2. parts[p].number \in Nat /\ size[p] \in Nat
      <4>1. PartsOK /\ size \in [DOMAIN parts -> Nat]
        BY DEF ReportInv, TypeInv, TypeOK
      <4> QED
        BY <4>1, GlyphTypes
    <3>3. DecimalLength(parts[p].number) = size[p]
      BY <3>1, <3>2, DigitsAreLength
    <3> QED
      BY <3>3 DEF PartText, Stored, Decimal, Digits, DigitOf
  <2>2. /\ DOMAIN parts \in {{1}, {1, 2, 3}}
        /\ Len(parts) = (IF 2 \in DOMAIN parts THEN 3 ELSE 1)
    BY StoredTypes
  <2>3. text = AllStored
    BY DEF TextInv
  <2> QED
    BY <2>1, <2>2, <2>3 DEF AllStored
<1>3. Spec => []TextInv
  BY <1>1, InitText, ReportStays, PTL DEF Spec
<1> QED
  BY <1>2, <1>3, ReportStays, PTL

----------------------------------------------------------------------------
(* Every report ends after a number of steps that is known from the start. *)

\* The digits of part p's number, the steps to split and store them with the glyphs
\* around them, and both for all parts after p.
Length(p) == DecimalLength(parts[p].number)
Work(p) == 2 * Length(p) + 2
LengthsAfter(p) ==
  IF p = Len(parts) THEN 0 ELSE IF p = 1 THEN Length(2) + Length(3) ELSE Length(3)
WorkAfter(p) ==
  IF p = Len(parts) THEN 0 ELSE IF p = 1 THEN Work(2) + Work(3) ELSE Work(3)

\* The glyphs of the text, and the columns it scrolls by.
TextLength ==
  IF Len(parts) = 1 THEN Fixed(1) + Length(1)
  ELSE Fixed(1) + Length(1) + Fixed(2) + Length(2) + Fixed(3) + Length(3)
Columns == GlyphColumns * TextLength - 7

\* The steps until the report is done.
StepsLeft ==
  CASE pc = "measure" ->
         DecimalLength(len) + LengthsAfter(part) + 1 + Work(1) + WorkAfter(1) + Columns + 1
    [] pc = "alloc"   -> 1 + Work(1) + WorkAfter(1) + Columns + 1
    [] pc = "split"   ->
         DecimalLength(number) + 1 + Length(part) + 1 + WorkAfter(part) + Columns + 1
    [] pc = "store"   -> 1 + Length(part) + 1 + WorkAfter(part) + Columns + 1
    [] pc = "digits"  -> n + 2 + WorkAfter(part) + Columns + 1
    [] pc = "scroll"  -> Columns - i + 1
    [] pc = "done"    -> 0

\* The window starts at the first column and stops at the last.
ShowInv ==
  /\ pc \notin {"scroll", "done"} => i = 0
  /\ i <= Columns

\* A chain can be continued upwards.
LEMMA ChainOnTop ==
  ASSUME NEW x \in Nat, x >= 10, NEW m \in Nat, HasDigits(x \div 10, m)
  PROVE  HasDigits(x, m + 1)
<1>1. PICK w : m >= 1 /\ IsChain(w, x \div 10, m) /\ w[m] < 10
  BY DEF HasDigits
<1> DEFINE v == [k \in 1 .. m + 1 |-> IF k = 1 THEN x ELSE w[k - 1]]
<1>2. v \in [1 .. m + 1 -> Nat] /\ v[1] = x /\ v[m + 1] < 10
  BY <1>1 DEF IsChain
<1>3. ASSUME NEW k \in 1 .. (m + 1) - 1 PROVE v[k] >= 10 /\ v[k + 1] = v[k] \div 10
  <2>1. CASE k = 1
    BY <1>1, <2>1 DEF IsChain
  <2>2. CASE k # 1
    <3>1. k - 1 \in 1 .. m - 1 /\ (k - 1) + 1 = k /\ (k + 1) - 1 = k
      BY <1>1, <2>2
    <3>2. w[k - 1] >= 10 /\ w[k] = w[k - 1] \div 10
      BY <1>1, <3>1 DEF IsChain
    <3>3. v[k] = w[k - 1] /\ v[k + 1] = w[k]
      BY <2>2, <3>1
    <3> QED
      BY <3>2, <3>3
  <2> QED
    BY <2>1, <2>2
<1> HIDE DEF v
<1>4. IsChain(v, x, m + 1) /\ m + 1 >= 1
  BY <1>1, <1>2, <1>3 DEF IsChain
<1> QED
  BY <1>2, <1>4 DEF HasDigits

\* Every number has digits, ...
LEMMA AllHaveDigits == \A x \in Nat : \E m \in Nat : HasDigits(x, m)
<1> DEFINE S == {b \in Nat : \A x \in 0 .. b : \E m \in Nat : HasDigits(x, m)}
<1>1. ASSUME NEW x \in 0 .. 9 PROVE HasDigits(x, 1)
  <2> DEFINE w == [k \in 1 .. 1 |-> x]
  <2>1. IsChain(w, x, 1) /\ w[1] < 10
    BY DEF IsChain
  <2> HIDE DEF w
  <2> QED
    BY <2>1 DEF HasDigits
<1>2. 0 \in S
  BY <1>1
<1>3. ASSUME NEW b \in Nat, b \in S PROVE b + 1 \in S
  <2> SUFFICES ASSUME NEW x \in 0 .. b + 1 PROVE \E m \in Nat : HasDigits(x, m)
    OBVIOUS
  <2>1. CASE x < 10
    BY <1>1, <2>1
  <2>2. CASE x >= 10
    <3>1. x \div 10 \in 0 .. b
      BY <2>2
    <3>2. PICK m \in Nat : HasDigits(x \div 10, m)
      BY <1>3, <3>1
    <3> QED
      BY <2>2, <3>2, ChainOnTop
  <2> QED
    BY <2>1, <2>2
<1>4. Nat \subseteq S
  <2> HIDE DEF S
  <2> QED
    BY <1>2, <1>3, SetInduction
<1> QED
  BY <1>4

\* ... one less when it is divided by ten, and one if nothing is left then.
LEMMA LengthOfTenth ==
  ASSUME NEW x \in Nat
  PROVE  /\ DecimalLength(x) \in Nat /\ DecimalLength(x) >= 1
         /\ x \div 10 > 0 => DecimalLength(x \div 10) = DecimalLength(x) - 1
         /\ x \div 10 = 0 => DecimalLength(x) = 1
<1>1. PICK m \in Nat : HasDigits(x, m)
  BY AllHaveDigits
<1>2. DecimalLength(x) = m /\ m >= 1
  BY <1>1, DigitsAreLength DEF HasDigits
<1>3. ASSUME x \div 10 > 0 PROVE DecimalLength(x \div 10) = DecimalLength(x) - 1
  <2>1. x >= 10 /\ x \div 10 \in Nat
    BY <1>3
  <2>2. PICK k \in Nat : HasDigits(x \div 10, k)
    BY <2>1, AllHaveDigits
  <2>3. HasDigits(x, k + 1)
    BY <2>1, <2>2, ChainOnTop
  <2> QED
    BY <2>1, <2>2, <2>3, DigitsAreLength
<1>4. ASSUME x \div 10 = 0 PROVE DecimalLength(x) = 1
  <2>1. x < 10
    BY <1>4
  <2> DEFINE w == [k \in 1 .. 1 |-> x]
  <2>2. IsChain(w, x, 1) /\ w[1] < 10
    BY <2>1 DEF IsChain
  <2> HIDE DEF w
  <2>3. HasDigits(x, 1)
    BY <2>2 DEF HasDigits
  <2> QED
    BY <2>3, DigitsAreLength
<1> QED
  BY <1>2, <1>3, <1>4

\* The parts of the sum.
LEMMA WorkTypes ==
  ASSUME ReportInv
  PROVE  /\ \A p \in DOMAIN parts :
              /\ Length(p) \in Nat /\ Length(p) >= 1 /\ Work(p) = 2 * Length(p) + 2
              /\ LengthsAfter(p) \in Nat /\ WorkAfter(p) \in Nat
              /\ p # Len(parts) =>
                   /\ p + 1 \in DOMAIN parts
                   /\ LengthsAfter(p) = Length(p + 1) + LengthsAfter(p + 1)
                   /\ WorkAfter(p) = Work(p + 1) + WorkAfter(p + 1)
              /\ p = Len(parts) => LengthsAfter(p) = 0 /\ WorkAfter(p) = 0
         /\ 1 \in DOMAIN parts /\ part \in DOMAIN parts
         /\ Columns \in Nat
<1>1. /\ DOMAIN parts \in {{1}, {1, 2, 3}} /\ Len(parts) = (IF 2 \in DOMAIN parts THEN 3 ELSE 1)
      /\ \A p \in DOMAIN parts : parts[p].number \in Nat /\ Fixed(p) \in Nat
      /\ part \in DOMAIN parts
  <2>1. PartsOK /\ size \in [DOMAIN parts -> Nat] /\ part \in DOMAIN parts
    BY DEF ReportInv, TypeInv, TypeOK
  <2> QED
    BY <2>1, GlyphTypes
<1>2. \A p \in DOMAIN parts : Length(p) \in Nat /\ Length(p) >= 1
  BY <1>1, LengthOfTenth DEF Length
<1>3. CASE DOMAIN parts = {1}
  <2>1. Len(parts) = 1
    BY <1>1, <1>3
  <2>2. TextLength \in Nat /\ TextLength >= 1
    BY <1>1, <1>2, <1>3, <2>1 DEF TextLength
  <2> QED
    BY <1>1, <1>2, <1>3, <2>1, <2>2 DEF Work, LengthsAfter, WorkAfter, Columns, GlyphColumns
<1>4. CASE DOMAIN parts = {1, 2, 3}
  <2>1. Len(parts) = 3
    BY <1>1, <1>4
  <2>2. TextLength \in Nat /\ TextLength >= 1
    BY <1>1, <1>2, <1>4, <2>1 DEF TextLength
  <2>3. Columns \in Nat
    BY <2>2 DEF Columns, GlyphColumns
  <2> QED
    BY <1>1, <1>2, <1>4, <2>1, <2>3 DEF Work, LengthsAfter, WorkAfter
<1> QED
  BY <1>1, <1>3, <1>4

\* When all is measured the sizes are the numbers of digits.
LEMMA MeasuredLengths ==
  ASSUME ReportInv, pc # "measure"
  PROVE  (\A p \in DOMAIN parts : size[p] = Length(p)) /\ AllGlyphs = TextLength
<1>1. PartsOK /\ size \in [DOMAIN parts -> Nat]
  BY DEF ReportInv, TypeInv, TypeOK
<1>2. /\ DOMAIN parts \in {{1}, {1, 2, 3}} /\ Len(parts) = (IF 2 \in DOMAIN parts THEN 3 ELSE 1)
      /\ \A p \in DOMAIN parts : parts[p].number \in Nat /\ Fixed(p) \in Nat
                                 /\ Glyphs(p) = Fixed(p) + size[p]
  BY <1>1, GlyphTypes
<1>3. \A p \in DOMAIN parts : HasDigits(parts[p].number, size[p])
  BY DEF ReportInv, AllocInv
<1>4. \A p \in DOMAIN parts : size[p] = Length(p)
  BY <1>1, <1>2, <1>3, DigitsAreLength DEF Length
<1>5. AllGlyphs = TextLength
  BY <1>1, <1>2, <1>4 DEF AllGlyphs, TextLength
<1> QED
  BY <1>4, <1>5

\* The parts of a report do not change, nor does what there is to do for them.
LEMMA WorkKept ==
  ASSUME parts' = parts
  PROVE  /\ \A p : /\ Length(p)' = Length(p) /\ Work(p)' = Work(p)
                   /\ LengthsAfter(p)' = LengthsAfter(p) /\ WorkAfter(p)' = WorkAfter(p)
         /\ Columns' = Columns
<1>1. \A p : Length(p)' = Length(p) /\ Fixed(p)' = Fixed(p)
  BY DEF Length, Fixed
<1>2. \A p : Work(p)' = Work(p)
  BY <1>1 DEF Work
<1>3. Columns' = Columns
  BY <1>1 DEF Columns, TextLength
<1> QED
  BY <1>1, <1>2, <1>3 DEF LengthsAfter, WorkAfter

\* The terms of the sum are numbers.
LEMMA TermTypes ==
  ASSUME ReportInv
  PROVE  /\ Work(1) \in Nat /\ WorkAfter(1) \in Nat /\ Length(part) \in Nat
         /\ WorkAfter(part) \in Nat /\ LengthsAfter(part) \in Nat /\ Columns \in Nat
<1>1. 1 \in DOMAIN parts /\ part \in DOMAIN parts
  BY WorkTypes
<1>2. Length(1) \in Nat /\ Work(1) = 2 * Length(1) + 2
  BY <1>1, WorkTypes
<1> QED
  BY <1>1, <1>2, WorkTypes

\* Measuring takes as many steps as the numbers have digits.
LEMMA MeasureCounts ==
  ASSUME ReportInv, ShowInv, Measure
  PROVE  StepsLeft' = StepsLeft - 1
<1>1. /\ pc = "measure" /\ parts' = parts /\ len \in Nat
      /\ \/ len \div 10 > 0 /\ len' = len \div 10 /\ UNCHANGED <<pc, part>>
         \/ /\ len \div 10 = 0 /\ ~IsLast /\ part' = part + 1 /\ pc' = pc
            /\ len' = parts[part + 1].number
         \/ len \div 10 = 0 /\ IsLast /\ pc' = "alloc" /\ part' = 1
  BY DEF Measure, ReportInv, TypeInv, TypeOK
<1> DEFINE d    == DecimalLength(len)
           rest == LengthsAfter(part)
           w    == Work(1)
           a    == WorkAfter(1)
           c    == Columns
<1>2. d \in Nat /\ rest \in Nat /\ w \in Nat /\ a \in Nat /\ c \in Nat
  BY <1>1, TermTypes, LengthOfTenth
<1>3. StepsLeft = d + rest + 1 + w + a + c + 1
  BY <1>1 DEF StepsLeft
<1>4. Work(1)' = w /\ WorkAfter(1)' = a /\ Columns' = c
  BY <1>1, WorkKept
<1>5. CASE len \div 10 > 0
  <2>1. pc' = "measure" /\ part' = part /\ len' = len \div 10
    BY <1>1, <1>5
  <2>2. DecimalLength(len') = d - 1
    BY <1>1, <1>5, <2>1, LengthOfTenth
  <2>3. LengthsAfter(part)' = rest
    BY <1>1, <2>1 DEF LengthsAfter, Length
  <2>4. StepsLeft' = DecimalLength(len') + rest + 1 + w + a + c + 1
    <3> HIDE DEF rest, w, a, c
    <3> QED
      BY <1>4, <2>1, <2>3 DEF StepsLeft
  <2> HIDE DEF d, rest, w, a, c
  <2> QED
    BY <1>2, <1>3, <2>2, <2>4
<1>6. CASE len \div 10 = 0 /\ ~IsLast
  <2>1. pc' = "measure" /\ part' = part + 1 /\ len' = parts[part + 1].number
    BY <1>1, <1>6 DEF IsLast
  <2>2. d = 1
    BY <1>1, <1>6, LengthOfTenth
  <2>3. /\ part + 1 \in DOMAIN parts /\ rest = Length(part + 1) + LengthsAfter(part + 1)
        /\ Length(part + 1) \in Nat /\ LengthsAfter(part + 1) \in Nat
    BY <1>6, WorkTypes DEF IsLast
  <2>4. /\ DecimalLength(len') = Length(part + 1)
        /\ LengthsAfter(part)' = LengthsAfter(part + 1)
    BY <1>1, <2>1 DEF LengthsAfter, Length
  <2>5. StepsLeft' = Length(part + 1) + LengthsAfter(part + 1) + 1 + w + a + c + 1
    <3> HIDE DEF w, a, c
    <3> QED
      BY <1>4, <2>1, <2>4 DEF StepsLeft
  <2> HIDE DEF d, rest, w, a, c
  <2> QED
    BY <1>2, <1>3, <2>2, <2>3, <2>5
<1>7. CASE len \div 10 = 0 /\ IsLast
  <2>1. pc' = "alloc" /\ rest = 0 /\ d = 1
    BY <1>1, <1>7, WorkTypes, LengthOfTenth DEF IsLast
  <2>2. StepsLeft' = 1 + w + a + c + 1
    <3> HIDE DEF w, a, c
    <3> QED
      BY <1>4, <2>1 DEF StepsLeft
  <2> HIDE DEF d, rest, w, a, c
  <2> QED
    BY <1>2, <1>3, <2>1, <2>2
<1> QED
  BY <1>1, <1>5, <1>6, <1>7

\* Splitting takes one step for each digit left of the number.
LEMMA SplitCounts ==
  ASSUME ReportInv, ShowInv, Split
  PROVE  StepsLeft' = StepsLeft - 1
<1>1. /\ pc = "split" /\ parts' = parts /\ part' = part /\ number \in Nat
      /\ number' = number \div 10
      /\ pc' = IF number' # 0 THEN "split" ELSE "store"
  BY DEF Split, ReportInv, TypeInv, TypeOK
<1> DEFINE d == DecimalLength(number)
           l == Length(part)
           a == WorkAfter(part)
           c == Columns
<1>2. d \in Nat /\ l \in Nat /\ a \in Nat /\ c \in Nat
  BY <1>1, TermTypes, LengthOfTenth
<1>3. StepsLeft = d + 1 + l + 1 + a + c + 1
  BY <1>1 DEF StepsLeft
<1>4. Length(part)' = l /\ WorkAfter(part)' = a /\ Columns' = c
  BY <1>1, WorkKept DEF WorkAfter, Length
<1>5. CASE number \div 10 > 0
  <2>1. pc' = "split"
    BY <1>1, <1>5
  <2>2. DecimalLength(number') = d - 1
    BY <1>1, <1>5, LengthOfTenth
  <2>3. StepsLeft' = DecimalLength(number') + 1 + l + 1 + a + c + 1
    <3> HIDE DEF l, a, c
    <3> QED
      BY <1>4, <2>1 DEF StepsLeft
  <2> HIDE DEF d, l, a, c
  <2> QED
    BY <1>2, <1>3, <2>2, <2>3
<1>6. CASE number \div 10 = 0
  <2>1. pc' = "store" /\ d = 1
    BY <1>1, <1>6, LengthOfTenth
  <2>2. StepsLeft' = 1 + l + 1 + a + c + 1
    <3> HIDE DEF l, a, c
    <3> QED
      BY <1>4, <2>1 DEF StepsLeft
  <2> HIDE DEF d, l, a, c
  <2> QED
    BY <1>2, <1>3, <2>1, <2>2
<1>7. number \div 10 \in Nat
  BY <1>1
<1> QED
  BY <1>5, <1>6, <1>7

\* Allocating is one step, and so are the glyphs before a number and each of its digits.
LEMMA StoreCounts ==
  ASSUME ReportInv, ShowInv, Alloc \/ StoreFixed \/ StoreDigit
  PROVE  StepsLeft' = StepsLeft - 1
<1>1. parts' = parts /\ part' = part /\ n \in Int
  BY DEF Alloc, StoreFixed, StoreDigit, ReportInv, TypeInv, TypeOK
<1>2. /\ Length(part)' = Length(part) /\ WorkAfter(part)' = WorkAfter(part)
      /\ Columns' = Columns
  BY <1>1, WorkKept DEF WorkAfter, Length
<1>3. CASE Alloc
  <2>1. /\ pc = "alloc" /\ pc' = "split" /\ part = 1 /\ DecimalLength(number') = Length(1)
    BY <1>3 DEF Alloc, Length, ReportInv, AllocInv
  <2>2. Work(1) = 2 * Length(1) + 2
    BY WorkTypes
  <2> QED
    BY <1>1, <1>2, <2>1, <2>2, WorkTypes DEF StepsLeft
<1>4. CASE StoreFixed
  <2>1. pc = "store" /\ pc' = "digits" /\ n' = n
    BY <1>4 DEF StoreFixed
  <2>2. n = Length(part) - 1
    <3>1. n = size[part] - 1
      BY <2>1, Zenon DEF ReportInv, SplitInv
    <3>2. size[part] = Length(part)
      BY <2>1, MeasuredLengths, WorkTypes
    <3> QED
      BY <3>1, <3>2, Zenon
  <2>3. PICK l \in Nat, a \in Nat, c \in Nat :
          l = Length(part) /\ a = WorkAfter(part) /\ c = Columns
    BY TermTypes
  <2>4. StepsLeft = 1 + l + 1 + a + c + 1
    BY <2>1, <2>3 DEF StepsLeft
  <2>5. StepsLeft' = n + 2 + a + c + 1
    BY <1>2, <2>1, <2>3 DEF StepsLeft
  <2> QED
    BY <2>2, <2>3, <2>4, <2>5
<1>5. CASE StoreDigit
  <2>1. pc = "digits" /\ pc' = "digits" /\ n' = n - 1
    BY <1>5 DEF StoreDigit
  <2> QED
    BY <1>1, <1>2, <2>1, WorkTypes DEF StepsLeft
<1> QED
  BY <1>3, <1>4, <1>5

\* The glyphs after a number are one step, before the next part or the display.
LEMMA FinishCounts ==
  ASSUME ReportInv, ShowInv, FinishPart
  PROVE  StepsLeft' = StepsLeft - 1
<1>1. /\ pc = "digits" /\ n = -1 /\ parts' = parts /\ i' = i /\ i = 0
      /\ IF IsLast THEN pc' = "scroll" /\ part' = part
         ELSE pc' = "split" /\ part' = part + 1 /\ number' = parts[part + 1].number
  BY FinishState DEF FinishPart, ShowInv
<1>2. StepsLeft = -1 + 2 + WorkAfter(part) + Columns + 1
  BY <1>1, WorkTypes DEF StepsLeft
<1>3. Columns' = Columns
  BY <1>1, WorkKept
<1>4. CASE IsLast
  <2>1. WorkAfter(part) = 0
    BY <1>4, WorkTypes DEF IsLast
  <2>2. StepsLeft' = Columns - 0 + 1
    BY <1>1, <1>3, <1>4 DEF StepsLeft
  <2> QED
    BY <1>2, <2>1, <2>2, WorkTypes
<1>5. CASE ~IsLast
  <2>1. part + 1 \in DOMAIN parts /\ WorkAfter(part) = Work(part + 1) + WorkAfter(part + 1)
    BY <1>5, WorkTypes DEF IsLast
  <2>2. DecimalLength(number') = Length(part + 1) /\ pc' = "split"
    BY <1>1, <1>5 DEF Length
  <2>3. Length(part)' = Length(part + 1) /\ WorkAfter(part)' = WorkAfter(part + 1)
    BY <1>1, <1>5, WorkKept DEF Length, WorkAfter
  <2>4. StepsLeft'
          = Length(part + 1) + 1 + Length(part + 1) + 1 + WorkAfter(part + 1) + Columns + 1
    BY <1>3, <2>2, <2>3 DEF StepsLeft
  <2>5. Work(part + 1) = 2 * Length(part + 1) + 2
    BY <2>1, WorkTypes
  <2>6. PICK l \in Nat, w \in Nat, c \in Nat :
          l = Length(part + 1) /\ w = WorkAfter(part + 1) /\ c = Columns
    BY <2>1, WorkTypes
  <2> QED
    BY <1>2, <2>1, <2>4, <2>5, <2>6
<1> QED
  BY <1>4, <1>5

\* The display takes a step for each column it moves by, and one to free the text.
LEMMA ShowCounts ==
  ASSUME ReportInv, ShowInv, Scroll \/ Free
  PROVE  StepsLeft' = StepsLeft - 1 /\ ShowInv'
<1>1. /\ pc = "scroll" /\ parts' = parts /\ i \in Nat /\ text' = text
      /\ GlyphColumns * Len(text) - 7 = Columns
  <2>1. pc = "scroll" /\ parts' = parts /\ i \in Nat /\ text' = text
    BY DEF Scroll, Free, ReportInv, TypeInv, TypeOK
  <2>2. Len(text) = TextLength
    BY <2>1, MeasuredLengths DEF ReportInv, StoreInv
  <2> QED
    BY <2>1, <2>2 DEF Columns
<1>2. Columns \in Nat /\ Columns' = Columns /\ i <= Columns
  BY <1>1, WorkTypes, WorkKept DEF ShowInv
<1>3. CASE Scroll
  <2>1. pc' = "scroll" /\ i' = i + 1 /\ i < Columns
    BY <1>1, <1>3 DEF Scroll
  <2> QED
    BY <1>1, <1>2, <2>1 DEF StepsLeft, ShowInv
<1>4. CASE Free
  <2>1. pc' = "done" /\ i' = i /\ i >= Columns
    BY <1>1, <1>4 DEF Free
  <2> QED
    BY <1>1, <1>2, <2>1 DEF StepsLeft, ShowInv
<1> QED
  BY <1>3, <1>4

\* What is left is a number of steps, and none are left when the report is done.
LEMMA StepsLeftType ==
  ASSUME ReportInv, ShowInv
  PROVE  StepsLeft \in Nat /\ (StepsLeft = 0 <=> pc = "done")
<1>1. /\ pc \in {"measure", "alloc", "split", "store", "digits", "scroll", "done"}
      /\ n + 2 \in Nat \ {0} /\ i \in Nat /\ DecimalLength(len) \in Nat /\ DecimalLength(number) \in Nat
  BY LengthOfTenth DEF ReportInv, TypeInv, TypeOK
<1>2. /\ Work(1) \in Nat /\ WorkAfter(1) \in Nat /\ Length(part) \in Nat
      /\ WorkAfter(part) \in Nat /\ LengthsAfter(part) \in Nat /\ Columns \in Nat
      /\ i <= Columns
  BY WorkTypes DEF ShowInv
<1> QED
  BY <1>1, <1>2 DEF StepsLeft

\* ReportEnds, as far as it is safety: each step leaves one step less, so a report of any
\* numbers is done after exactly the steps that its digits and columns take
\* (test_mac.c:182-561).
THEOREM ReportIsFinite ==
  Spec => /\ [](StepsLeft \in Nat /\ (StepsLeft = 0 <=> pc = "done"))
          /\ [][StepsLeft' = StepsLeft - 1]_vars
<1>1. ReportInv /\ Init => ShowInv
  <2> SUFFICES ASSUME ReportInv, Init PROVE ShowInv
    OBVIOUS
  <2>1. Columns \in Nat /\ pc = "measure" /\ i = 0
    BY WorkTypes DEF Init
  <2> QED
    BY <2>1 DEF ShowInv
<1>2. ReportInv /\ ShowInv /\ [Next]_vars => ShowInv'
  <2> SUFFICES ASSUME ReportInv, ShowInv, [Next]_vars PROVE ShowInv'
    OBVIOUS
  <2>1. CASE Scroll \/ Free
    BY <2>1, ShowCounts
  <2>2. CASE \/ Measure \/ Alloc \/ Split \/ StoreFixed \/ StoreDigit \/ FinishPart
             \/ UNCHANGED vars
    <3>1. parts' = parts /\ i' = i /\ (pc' \notin {"scroll", "done"} => i = 0)
      BY <2>2 DEF Measure, Alloc, Split, StoreFixed, StoreDigit, FinishPart, vars, ShowInv
    <3>2. Columns' = Columns
      BY <3>1, WorkKept
    <3> QED
      BY <3>1, <3>2 DEF ShowInv
  <2> QED
    BY <2>1, <2>2 DEF Next
<1>3. ReportInv /\ ShowInv /\ [Next]_vars => [StepsLeft' = StepsLeft - 1]_vars
  BY MeasureCounts, SplitCounts, StoreCounts, FinishCounts, ShowCounts DEF Next
<1> QED
  BY <1>1, <1>2, <1>3, StepsLeftType, ReportStays, PTL DEF Spec
=============================================================================
