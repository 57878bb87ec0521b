----------------------------- MODULE DotReport -----------------------------
(***************************************************************************)
(* The reports of the menu of test_mac.c: the number of each part of a     *)
(* report is measured, the buffers are allocated for what was measured,    *)
(* the digits are split off last digit first and stored in reverse between *)
(* fixed glyphs, and the text scrolls over the dot matrix.                 *)
(*                                                                         *)
(* A glyph is eight columns of one byte each; what the columns look like   *)
(* is left out.  "arr" is arra, arrb1 to arrb3 or arrc, and "text" is      *)
(* value_arra, value_arrb or value_arrc, as far as they are written.  The  *)
(* counts do not change while a report is made (CoinMachine).              *)
(***************************************************************************)
EXTENDS Integers, Sequences

CONSTANT Counts   \* the numbers of coins of one kind to check

ASSUME CountsAssumption == Counts \subseteq Nat

DigitGlyph == <<"0", "1", "2", "3", "4", "5", "6", "7", "8", "9">>   \* dot_values

Part(pre, number, post) == [pre |-> pre, number |-> number, post |-> post]

\* Key 2: the money.
TotalReport(e500, e100, e50) ==
  <<Part(<<"T", ":">>, 500 * e500 + 100 * e100 + 50 * e50, <<"W">>)>>

\* Key 3: the coins of each kind.
EachReport(e500, e100, e50) ==
  <<Part(<<"C", ":", "5", "0", "0", ":">>, e500, <<" ">>),
    Part(<<"1", "0", "0", ":">>, e100, <<" ">>),
    Part(<<"5", "0", ":">>, e50, <<" ">>)>>

\* Key 4: all coins.
CountReport(e500, e100, e50) ==
  <<Part(<<"T", "C", ":">>, e500 + e100 + e50, <<" ">>)>>

\* What malloc adds to the digits, in glyphs.
FixedGlyphs == [total |-> 3, each |-> 16, count |-> 4]

GlyphColumns == 8

VARIABLES
  kind,      \* which report
  parts,     \* its parts
  pc,        \* "measure", "alloc", "split", "store", "digits", "scroll" or "done"
  part,      \* the part being measured, split or stored
  len,       \* what is left of the number to measure
  size,      \* size[p]: digits of part p measured so far
  number,    \* what is left of the number to split
  arr,       \* the digits split off, arr[0] the last digit of the number
  n,         \* index in arr: of the next digit to be split off, or to be stored
  capacity,  \* allocated for text, in glyphs
  text,      \* the glyphs stored
  i          \* first column of the window on the dot matrix

vars == <<kind, parts, pc, part, len, size, number, arr, n, capacity, text, i>>

Report(k, e500, e100, e50) ==
  CASE k = "total" -> TotalReport(e500, e100, e50)
    [] k = "each"  -> EachReport(e500, e100, e50)
    [] k = "count" -> CountReport(e500, e100, e50)

Init ==
  /\ kind \in {"total", "each", "count"}
  /\ \E e500, e100, e50 \in Counts : parts = Report(kind, e500, e100, e50)
  /\ pc = "measure"
  /\ part = 1
  /\ len = parts[1].number
  /\ size = [p \in DOMAIN parts |-> 0]
  /\ number = 0 /\ arr = <<>> /\ n = 0
  /\ capacity = 0 /\ text = <<>> /\ i = 0

----------------------------------------------------------------------------
IsLast == part = Len(parts)

\* Mutant: while (len > 0) { len = len / 10; size++; }
MeasureWhile ==
  LET rest == len \div 10 IN
  /\ pc = "measure"
  /\ size' = [size EXCEPT ![part] = IF len > 0 THEN @ + 1 ELSE @]
  /\ \/ rest > 0 /\ len' = rest /\ UNCHANGED <<pc, part>>
     \/ rest = 0 /\ ~IsLast /\ part' = part + 1 /\ len' = parts[part + 1].number
        /\ UNCHANGED pc
     \/ rest = 0 /\ IsLast /\ pc' = "alloc" /\ part' = 1 /\ len' = 0
  /\ UNCHANGED <<kind, parts, number, arr, n, capacity, text, i>>

\* do { len = len / 10; size++; } while (len > 0);
Measure ==
  LET rest == len \div 10 IN
  /\ pc = "measure"
  /\ size' = [size EXCEPT ![part] = @ + 1]
  /\ \/ rest > 0 /\ len' = rest /\ UNCHANGED <<pc, part>>
     \/ rest = 0 /\ ~IsLast /\ part' = part + 1 /\ len' = parts[part + 1].number
        /\ UNCHANGED pc
     \/ rest = 0 /\ IsLast /\ pc' = "alloc" /\ part' = 1 /\ len' = 0
  /\ UNCHANGED <<kind, parts, number, arr, n, capacity, text, i>>

SumOfSizes == IF Len(parts) = 1 THEN size[1] ELSE size[1] + size[2] + size[3]

\* malloc.  The text of the reports of keys 2 and 4 is allocated after the digits
\* are split off; nothing has been stored in it then.
Alloc ==
  /\ pc = "alloc"
  /\ capacity' = SumOfSizes + FixedGlyphs[kind]
  /\ number' = parts[1].number
  /\ pc' = "split"
  /\ UNCHANGED <<kind, parts, part, len, size, arr, n, text, i>>

\* arr[n] = a
StoreAt(a) == [d \in DOMAIN arr \cup {n} |-> IF d = n THEN a ELSE arr[d]]

\* Mutant: the number itself is stored in place of its last digit.
SplitWithoutModulo ==
  /\ pc = "split"
  /\ arr' = StoreAt(number)
  /\ number' = number \div 10
  /\ IF number' # 0 THEN pc' = "split" /\ n' = n + 1
                    ELSE pc' = "store" /\ n' = n
  /\ UNCHANGED <<kind, parts, part, len, size, capacity, text, i>>

\* do { a = number % 10; b = number / 10; ...; arr[n] = a; n++; } while (b != 0);
\* n = n - 1;
Split ==
  /\ pc = "split"
  /\ arr' = StoreAt(number % 10)
  /\ number' = number \div 10
  /\ IF number' # 0 THEN pc' = "split" /\ n' = n + 1
                    ELSE pc' = "store" /\ n' = n
  /\ UNCHANGED <<kind, parts, part, len, size, capacity, text, i>>

\* The fixed glyphs before the number.
StoreFixed ==
  /\ pc = "store"
  /\ text' = text \o parts[part].pre
  /\ pc' = "digits"
  /\ UNCHANGED <<kind, parts, part, len, size, number, arr, n, capacity, i>>

\* Mutant: the digits are stored in the order of arr.
StoreDigitForward ==
  /\ pc = "digits"
  /\ n >= 0
  /\ text' = Append(text, DigitGlyph[arr[size[part] - 1 - n] + 1])
  /\ n' = n - 1
  /\ UNCHANGED <<kind, parts, pc, part, len, size, number, arr, capacity, i>>

\* while (n >= 0): the digits, first digit first.
StoreDigit ==
  /\ pc = "digits"
  /\ n >= 0
  /\ text' = Append(text, DigitGlyph[arr[n] + 1])
  /\ n' = n - 1
  /\ UNCHANGED <<kind, parts, pc, part, len, size, number, arr, capacity, i>>

\* Mutant: n is not set for the next part and stands before its first index.
FinishPartKeepsN ==
  /\ pc = "digits"
  /\ n < 0
  /\ text' = text \o parts[part].post
  /\ arr' = <<>>
  /\ IF IsLast THEN pc' = "scroll" /\ UNCHANGED <<part, number>>
     ELSE pc' = "split" /\ part' = part + 1 /\ number' = parts[part + 1].number
  /\ UNCHANGED <<kind, parts, len, size, n, capacity, i>>

\* The glyph after the number, then the next part, with n = 0 and an arr of its
\* own, or the display.
FinishPart ==
  /\ pc = "digits"
  /\ n < 0
  /\ text' = text \o parts[part].post
  /\ arr' = <<>>
  /\ IF IsLast THEN pc' = "scroll" /\ UNCHANGED <<part, number, n>>
     ELSE /\ pc' = "split" /\ part' = part + 1 /\ number' = parts[part + 1].number
          /\ n' = 0
  /\ UNCHANGED <<kind, parts, len, size, capacity, i>>

\* Mutant: for (i = 0; i < m; i++)
ScrollToTheEnd ==
  /\ pc = "scroll"
  /\ i < GlyphColumns * Len(text)
  /\ i' = i + 1
  /\ UNCHANGED <<kind, parts, pc, part, len, size, number, arr, n, capacity, text>>

\* Mutant: the window does not move.
ScrollStands ==
  /\ pc = "scroll"
  /\ i < GlyphColumns * Len(text) - 7
  /\ UNCHANGED vars

\* for (i = 0; i < m - 7; i++): dot_write shows the eight columns from i on.
Scroll ==
  /\ pc = "scroll"
  /\ i < GlyphColumns * Len(text) - 7
  /\ i' = i + 1
  /\ UNCHANGED <<kind, parts, pc, part, len, size, number, arr, n, capacity, text>>

Free ==
  /\ pc = "scroll"
  /\ i >= GlyphColumns * Len(text) - 7
  /\ pc' = "done"
  /\ UNCHANGED <<kind, parts, part, len, size, number, arr, n, capacity, text, i>>

Next ==
  Measure \/ Alloc \/ Split \/ StoreFixed \/ StoreDigit \/ FinishPart \/ Scroll \/ Free

Spec == Init /\ [][Next]_vars

\* A report is a loop of the main thread that waits for nobody.
FairSpec == Spec /\ WF_vars(Next)

----------------------------------------------------------------------------
\* The values each variable takes; what is split off a number and later indexes
\* dot_values is a digit (test_mac.c:201, 225-227).
TypeOK ==
  /\ kind \in {"total", "each", "count"}
  /\ pc \in {"measure", "alloc", "split", "store", "digits", "scroll", "done"}
  /\ part \in DOMAIN parts
  /\ len \in Nat /\ number \in Nat /\ n \in Nat \cup {-1} /\ capacity \in Nat /\ i \in Nat
  /\ size \in [DOMAIN parts -> Nat]
  /\ \A d \in DOMAIN arr : arr[d] \in 0 .. 9

\* No loop stores outside what malloc returned for it: the splitting loop makes as
\* many digits as the measuring loop counted, also of 0, each part begins at index 0
\* although the loop before it left n at -1, and the glyphs of all parts fit the sum
\* that was allocated (test_mac.c:187-207, 270-304, 347-377, 491-518).
StoresInBounds ==
  /\ pc # "measure" => DOMAIN arr \subseteq 0 .. size[part] - 1
  /\ Len(text) <= capacity

\* Every window that dot_write reads lies in the buffer, and in the part of it
\* that has been written (test_mac.c:238-246, dot_driver.c:78-80).
WindowsAreWritten ==
  [][i' # i => /\ Len(text) = capacity
               /\ i + GlyphColumns <= GlyphColumns * capacity]_vars

PowerOfTen[k \in Nat] == IF k = 0 THEN 1 ELSE 10 * PowerOfTen[k - 1]

\* The decimal digits of x, by its definition.
DecimalLength(x) ==
  CHOOSE k \in 1 .. x + 1 : x < PowerOfTen[k] /\ (k = 1 \/ x >= PowerOfTen[k - 1])
Decimal(x) ==
  [d \in 1 .. DecimalLength(x) |->
     DigitGlyph[((x \div PowerOfTen[DecimalLength(x) - d]) % 10) + 1]]

PartText(p) == parts[p].pre \o Decimal(parts[p].number) \o parts[p].post

\* The report reads as the README says: the fixed glyphs of each part around
\* the decimal digits of its number, for all parts.
ReportIsRight ==
  pc = "scroll" =>
    text = IF Len(parts) = 1 THEN PartText(1)
           ELSE PartText(1) \o PartText(2) \o PartText(3)

\* Every report ends, and main polls the keys again.
ReportEnds == <>(pc = "done")
=============================================================================
