-------------------------- MODULE ProcessState_proofs --------------------------
(***************************************************************************)
(* Proofs about what outlives a call: the INT8 cache of a decode prefix,     *)
(* the quarantine of XPU routes, prepared W4A16 weights and the caches of the *)
(* CUDA backend, each for any values of its constants, and the state they     *)
(* make up together.                                                         *)
(***************************************************************************)
EXTENDS MCProcessState, Iteration, FiniteSetTheorems, TLAPS

-----------------------------------------------------------------------------
(* The INT8 decode cache, for any page size, capacity and source, any number of  *)
(* speculative rows and any rollback the source leaves room for.  An update      *)
(* trusts two things it does not look at: the pages it leaves alone are below    *)
(* the rows that changed (FreshPage, of all pages but the last two before an     *)
(* update), and the source still holds the rows of the pages it refreshes        *)
(* (Retained, and that a rollback is bounded).                                  *)

-----------------------------------------------------------------------------
(* Division. *)

LEMMA Division ==
  ASSUME NEW a \in Nat, NEW b \in Nat \ {0}
  PROVE  a = b * (a \div b) + (a % b)
BY SMTT(30)

LEMMA DivisionBounds ==
  ASSUME NEW a \in Nat, NEW b \in Nat \ {0}
  PROVE  b * (a \div b) <= a /\ a < b * (a \div b) + b
OBVIOUS

LEMMA Remainder ==
  ASSUME NEW a \in Nat, NEW b \in Nat \ {0}, NEW k \in Int, NEW r \in 0 .. b - 1, a = b * k + r
  PROVE  a % b = r
BY SMTT(30)

LEMMA QuotientInt ==
  ASSUME NEW a \in Int, NEW b \in Nat \ {0}
  PROVE  a \div b \in Int /\ (a >= 0 => a \div b \in Nat)
OBVIOUS

LEMMA Quotient ==
  ASSUME NEW a \in Nat, NEW b \in Nat \ {0}
  PROVE  \E k \in Int : a = b * k + (a % b)
<1>1. a = b * (a \div b) + (a % b)
  BY Division
<1>2. a \div b \in Int
  BY QuotientInt
<1> QED BY <1>1, <1>2

LEMMA RemainderRange ==
  ASSUME NEW a \in Nat, NEW b \in Nat \ {0}
  PROVE  a % b \in 0 .. b - 1
OBVIOUS

LEMMA Multiples ==
  ASSUME NEW b \in Nat, NEW k \in Int, NEW m \in Int, k < m
  PROVE  b * k + b <= b * m
<1>1. m - k - 1 \in Nat /\ b * (m - k - 1) >= 0
  OBVIOUS
<1>2. b * m = b * k + b + b * (m - k - 1)
  OBVIOUS
<1> QED BY <1>1, <1>2

\* Two numbers with one remainder are at least the divisor apart.
LEMMA SameRemainder ==
  ASSUME NEW i \in Nat, NEW j \in Nat, NEW b \in Nat \ {0}, i < j, i % b = j % b
  PROVE  i + b <= j
<1>1. PICK k \in Int : i = b * k + (i % b)
  BY Quotient
<1>2. PICK m \in Int : j = b * m + (j % b)
  BY Quotient
<1>3. i % b \in 0 .. b - 1
  BY RemainderRange
<1> DEFINE r == i % b
<1>4. r \in Int /\ i = b * k + r /\ j = b * m + r /\ b * k \in Int /\ b * m \in Int
  BY <1>1, <1>2, <1>3
<1> HIDE DEF r
<1>5. ~(m <= k)
  <2>1. m = k => i = j
    BY <1>4
  <2>2. m < k => b * m + b <= b * k
    BY Multiples
  <2> QED BY <1>4, <2>1, <2>2
<1>6. b * k + b <= b * m
  BY <1>5, Multiples
<1> QED BY <1>4, <1>6

\* Row i of a page follows its first one in the source.
Contiguous(q, p, s, i) == ((q * p) % s) + i = (q * p + i) % s

\* A page does not wrap around a source that is a whole number of pages.
LEMMA PageInRing ==
  ASSUME NEW p \in Nat \ {0}, NEW s \in Nat \ {0}, s % p = 0, NEW q \in Nat, NEW i \in 0 .. p - 1
  PROVE  Contiguous(q, p, s, i)
<1>1. PICK e \in Int : s = p * e
  <2>1. PICK e \in Int : s = p * e + (s % p)
    BY Quotient
  <2> QED BY <2>1
<1>2. p * q \in Nat
  OBVIOUS
<1> DEFINE m == (p * q) % s
<1>3. PICK d \in Int : p * q = s * d + m
  BY <1>2, Quotient
<1>4. m \in 0 .. s - 1
  BY <1>2, RemainderRange
<1> HIDE DEF m
<1>5. m = p * (q - e * d)
  <2>1. p * q = p * e * d + m
    BY <1>1, <1>3
  <2>2. p * (q - e * d) = p * q - p * e * d
    OBVIOUS
  <2>3. p * e * d \in Int /\ m \in Int
    BY <1>4
  <2> QED BY <2>1, <2>2, <2>3, <1>2
<1>6. q - e * d < e
  <2>1. SUFFICES ASSUME e <= q - e * d PROVE FALSE
    OBVIOUS
  <2>2. q - e * d = e \/ e < q - e * d
    BY <2>1
  <2>3. p * e <= p * (q - e * d)
    <3>1. e < q - e * d => p * e + p <= p * (q - e * d)
      BY Multiples
    <3> QED BY <3>1, <2>2
  <2> QED BY <2>3, <1>1, <1>4, <1>5
<1>7. m + p <= s
  BY <1>1, <1>5, <1>6, Multiples
<1>8. m + i \in 0 .. s - 1 /\ p * q + i = s * d + (m + i) /\ p * q + i \in Nat
  BY <1>2, <1>3, <1>4, <1>7
<1>9. (p * q + i) % s = m + i
  BY <1>8, Remainder
<1>10. q * p = p * q
  OBVIOUS
<1> QED BY <1>9, <1>10 DEF m, Contiguous

-----------------------------------------------------------------------------
(* Pages. *)

FirstLast(n) == Larger(0, (n - 1) \div PageSize - 1)

LEMMA LastPagesAreLast ==
  ASSUME NEW n \in Nat \ {0}, NEW q \in Nat, q >= FirstLast(n)
  PROVE  n <= q * PageSize + 2 * PageSize
<1>1. PageSize \in Nat \ {0} /\ n - 1 \in Nat
  BY SizesAssumption
<1>2. PICK l \in Int : l = (n - 1) \div PageSize
  BY <1>1, QuotientInt
<1>3. n - 1 < PageSize * l + PageSize
  BY <1>1, <1>2, DivisionBounds
<1>4. l <= q + 1
  BY <1>2 DEF FirstLast, Larger
<1>5. PageSize * l <= PageSize * (q + 1)
  <2>1. l < q + 1 => PageSize * l + PageSize <= PageSize * (q + 1)
    BY <1>1, Multiples
  <2> QED BY <1>1, <1>4, <2>1
<1>6. PageSize * (q + 1) = q * PageSize + PageSize
  BY <1>1
<1>7. PageSize * l \in Int /\ q * PageSize \in Int
  BY <1>1
<1> QED BY <1>1, <1>3, <1>5, <1>6, <1>7

LEMMA OtherPagesAreBelow ==
  ASSUME NEW n \in Nat \ {0}, NEW q \in Nat, q * PageSize < n,
         q \notin {FirstLast(n), FirstLast(n) + 1}
  PROVE  q * PageSize + 2 * PageSize <= n - 1
<1>1. PageSize \in Nat \ {0} /\ n - 1 \in Nat
  BY SizesAssumption
<1>2. PICK l \in Nat : l = (n - 1) \div PageSize
  BY <1>1, QuotientInt
<1>3. PageSize * l <= n - 1 /\ n - 1 < PageSize * l + PageSize
  BY <1>1, <1>2, DivisionBounds
<1>4. PageSize * l \in Int /\ q * PageSize \in Int /\ PageSize * q = q * PageSize
  BY <1>1
<1>5. q <= l
  <2>1. l < q => PageSize * l + PageSize <= PageSize * q
    BY <1>1, Multiples
  <2> QED BY <1>1, <1>3, <1>4, <2>1
<1>6. FirstLast(n) = Larger(0, l - 1)
  BY <1>2 DEF FirstLast
<1>7. q + 2 <= l
  BY <1>5, <1>6 DEF Larger
<1>8. PageSize * (q + 2) <= PageSize * l
  <2>1. q + 2 < l => PageSize * (q + 2) + PageSize <= PageSize * l
    BY <1>1, Multiples
  <2> QED BY <1>1, <1>7, <2>1
<1>9. PageSize * (q + 2) = q * PageSize + 2 * PageSize
  BY <1>1
<1> QED BY <1>1, <1>3, <1>4, <1>8, <1>9

LEMMA PagesAreNumbers == \A q \in Pages : q \in Nat /\ q * PageSize \in Nat
<1>1. PageSize \in Nat \ {0} /\ Capacity \in Nat
  BY SizesAssumption
<1>2. (Capacity + PageSize - 1) \div PageSize - 1 \in Int
  BY <1>1, QuotientInt
<1>3. \A q \in Pages : q \in Nat
  BY <1>2 DEF Pages
<1>4. \A q \in Nat : q * PageSize \in Nat
  BY <1>1
<1> QED BY <1>3, <1>4

-----------------------------------------------------------------------------
(* The invariant. *)

Typed ==
  /\ sourceRows \in Sources
  /\ length \in 0 .. Capacity
  /\ peak \in length .. Capacity
  /\ round \in Nat
  /\ pc \in {"write", "initialize", "update", "attend"}
  /\ round = 0 => peak = 0

\* A page as a fresh initialization at this length would make it.
Page(q) == [i \in 1 .. Live(q) |-> Row(q * PageSize + i - 1)]
FreshPage(q) == cache[q] = Page(q)

FreshPages ==
  /\ pc \in {"write", "attend"} => \A q \in LivePages : FreshPage(q)
  /\ pc = "update" => \A q \in LivePages \ LastPages : FreshPage(q)

\* Nothing written so far, or yet, at the highest length, is far enough above the row to
\* take its slot.
Retained(i) == i + sourceRows >= Capacity \/ i + sourceRows >= peak + Speculative

SourceHolds == \A i \in 0 .. length - 1 : Retained(i) => source[SlotOf(i)] = Row(i)

RollbackBounded == peak - Reach <= length

Inv == Typed /\ FreshPages /\ SourceHolds /\ RollbackBounded

LEMMA SourceSizes ==
  ASSUME Typed
  PROVE  /\ sourceRows \in Nat \ {0} /\ sourceRows <= Capacity
         /\ Reach \in Nat
         /\ sourceRows # Capacity =>
              /\ sourceRows % PageSize = 0
              /\ Reach <= sourceRows - 2 * PageSize - Speculative
<1>1. /\ PageSize \in Nat \ {0} /\ Capacity \in Nat \ {0} /\ Speculative \in Nat
      /\ Rollback \in Nat
  BY SizesAssumption
<1>2. \/ sourceRows = Capacity
      \/ /\ sourceRows \in Nat /\ sourceRows < Capacity /\ sourceRows % PageSize = 0
         /\ Speculative + 2 * PageSize <= sourceRows
  BY SourcesAssumption DEF Typed
<1>3. CASE sourceRows = Capacity
  BY <1>1, <1>3 DEF Reach
<1>4. CASE sourceRows # Capacity
  BY <1>1, <1>2, <1>4 DEF Reach, Smaller
<1> QED BY <1>3, <1>4

LEMMA InitInv == Init => Inv
<1> SUFFICES ASSUME Init PROVE Inv
  OBVIOUS
<1>1. Typed
  BY SizesAssumption DEF Init, Typed
<1>2. LivePages = {}
  BY PagesAreNumbers DEF Init, LivePages
<1>3. FreshPages
  BY <1>2 DEF Init, FreshPages
<1>4. SourceHolds
  BY DEF Init, SourceHolds
<1>5. RollbackBounded
  BY <1>1, SourceSizes DEF Init, RollbackBounded
<1> QED BY <1>1, <1>3, <1>4, <1>5 DEF Inv

HoldsBelow(k) == \A i \in 0 .. k - 1 : Retained(i) => source[SlotOf(i)] = Row(i)

\* Rows written up to some position leave, of two rows with one slot, the later one.
LEMMA WrittenHold ==
  ASSUME Typed, NEW kept \in Nat, NEW n \in Nat, NEW last \in Int,
         NEW low \in Nat, peak = low, NEW high \in Nat, peak' = high, low <= high,
         n - 1 <= last, last < Capacity, last < high + Speculative,
         length' = n, n <= Capacity, sourceRows' = sourceRows,
         WriteRows(kept, last), HoldsBelow(kept)
  PROVE  SourceHolds'
<1>1. /\ sourceRows \in Nat \ {0} /\ Capacity \in Nat \ {0} /\ Speculative \in Nat
      /\ Slots = 0 .. sourceRows - 1 /\ Positions = 0 .. Capacity - 1
  BY SizesAssumption, SourceSizes DEF Slots, Positions, Typed
<1>2. ASSUME NEW i \in 0 .. n - 1, Retained(i)' PROVE source'[SlotOf(i)] = <<i, rows'[i]>>
  <2>1. i \in Nat /\ i \in Positions /\ SlotOf(i) \in Slots
    BY <1>1, RemainderRange DEF SlotOf
  <2>2. i + sourceRows >= Capacity \/ i + sourceRows >= high + Speculative
    BY <1>2 DEF Retained
  <2>3. i + sourceRows > last
    <3>1. sourceRows \in Nat /\ i \in Nat /\ Capacity \in Nat /\ Speculative \in Nat
      BY <1>1, <2>1
    <3>2. CASE i + sourceRows >= Capacity
      BY <3>1, <3>2
    <3>3. CASE i + sourceRows >= high + Speculative
      BY <3>1, <3>3
    <3> QED BY <2>2, <3>2, <3>3
  <2>4. \A j \in kept .. last : SlotOf(j) = SlotOf(i) => j <= i
    <3>1. SUFFICES ASSUME NEW j \in kept .. last, SlotOf(j) = SlotOf(i), i < j PROVE FALSE
      BY <2>1
    <3>2. j \in Nat /\ i % sourceRows = j % sourceRows
      BY <3>1 DEF SlotOf
    <3>3. i + sourceRows <= j
      BY <1>1, <2>1, <3>1, <3>2, SameRemainder
    <3> QED BY <1>1, <2>1, <2>3, <3>1, <3>3
  <2> DEFINE written == {j \in kept .. last : SlotOf(j) = SlotOf(i)}
  <2>5. source'[SlotOf(i)] =
          IF written = {} THEN source[SlotOf(i)]
          ELSE <<CHOOSE j \in written : \A k \in written : k <= j, round'>>
    BY <2>1 DEF WriteRows
  <2>6. rows'[i] = IF i \in kept .. last THEN round' ELSE rows[i]
    BY <2>1 DEF WriteRows
  <2>7. CASE i >= kept
    <3>1. i \in kept .. last /\ i \in written
      BY <2>1, <2>7
    <3>2. \A j \in written : j <= i
      BY <2>4
    <3>3. (CHOOSE j \in written : \A k \in written : k <= j) = i
      <4>1. \A j \in written : (\A k \in written : k <= j) => j = i
        BY <3>1, <3>2, <2>1
      <4> HIDE DEF written
      <4> QED BY <3>1, <3>2, <4>1
    <3> HIDE DEF written
    <3> QED BY <2>5, <2>6, <3>1, <3>3
  <2>8. CASE i < kept
    <3>1. written = {}
      BY <2>1, <2>4, <2>8
    <3>2. i \in 0 .. kept - 1 /\ Retained(i)
      <4>1. sourceRows \in Nat /\ i \in Nat /\ Speculative \in Nat
        BY <1>1, <2>1
      <4>2. i + sourceRows >= high + Speculative => i + sourceRows >= low + Speculative
        BY <4>1
      <4>3. i \in 0 .. kept - 1
        BY <4>1, <2>8
      <4> QED BY <2>2, <4>2, <4>3 DEF Retained
    <3>3. source[SlotOf(i)] = <<i, rows[i]>>
      BY <3>2 DEF Row, HoldsBelow
    <3>4. i \notin kept .. last
      BY <2>1, <2>8
    <3> QED BY <2>5, <2>6, <3>1, <3>3, <3>4
  <2> QED BY <2>1, <2>7, <2>8
<1> QED BY <1>2 DEF SourceHolds, SlotOf, Row

LEMMA BeginInv == ASSUME Inv, Begin PROVE Inv'
<1>1. PICK n \in 1 .. Capacity, s \in 0 .. Speculative :
        /\ length' = n /\ peak' = Larger(peak, n)
        /\ WriteRows(0, Smaller(n + s, Capacity) - 1)
  BY DEF Begin
<1>2. /\ pc' = "initialize" /\ cache' = cache /\ sourceRows' = sourceRows /\ round' = 1
  BY DEF Begin
<1>3. Typed /\ Capacity \in Nat \ {0} /\ Speculative \in Nat
      /\ length \in Nat /\ peak \in Nat /\ peak <= Capacity
  BY SizesAssumption DEF Inv, Typed
<1>4. peak' \in n .. Capacity /\ peak <= peak'
  BY <1>1, <1>3 DEF Larger
<1>5. Typed'
  BY <1>1, <1>2, <1>3, <1>4 DEF Typed
<1> DEFINE last == Smaller(n + s, Capacity) - 1
<1>6. last \in Int /\ n - 1 <= last /\ last < Capacity /\ last < peak' + Speculative
  <2>1. n \in Nat /\ s \in Nat /\ s <= Speculative /\ n <= Capacity /\ n <= peak' /\ peak' \in Int
    BY <1>3, <1>4
  <2>2. \/ last = n + s - 1 /\ n + s <= Capacity
        \/ last = Capacity - 1 /\ Capacity <= n + s
    BY <1>3, <2>1 DEF Smaller
  <2> HIDE DEF last
  <2> QED BY <1>3, <2>1, <2>2
<1>7. SourceHolds'
  <2> HIDE DEF last
  <2>1. HoldsBelow(0)
    BY DEF HoldsBelow
  <2>2. WriteRows(0, last) /\ n \in Nat /\ n <= Capacity /\ peak' \in Nat
    BY <1>1, <1>4 DEF last
  <2> QED BY <1>1, <1>2, <1>3, <1>4, <1>6, <2>1, <2>2, WrittenHold
<1>8. RollbackBounded'
  <2>1. Reach' = Reach /\ Reach \in Nat
    BY <1>2, <1>3, SourceSizes DEF Reach
  <2>2. peak' = length'
    BY <1>1, <1>3 DEF Larger, Inv, Typed, Begin
  <2>5. n \in Nat
    BY <1>3
  <2>6. length' = n
    BY <1>1
  <2>3. n \in Nat /\ peak' = n /\ length' = n
    BY <2>2, <2>5, <2>6
  <2>4. peak' - Reach' <= length'
    BY <2>1, <2>3
  <2> QED BY <2>4 DEF RollbackBounded
<1> QED BY <1>2, <1>5, <1>7, <1>8 DEF Inv, FreshPages

\* Pages below the last two of the new length hold rows that were kept.
LEMMA GrowInv == ASSUME Inv, Grow PROVE Inv'
<1>1. PICK kept \in Larger(0, peak - Reach) .. length, s \in 0 .. Speculative :
      \E n \in kept .. Smaller(kept + PageSize, Capacity) :
        /\ length' = n /\ peak' = Larger(peak, n)
        /\ WriteRows(kept, Smaller(n + s, Capacity) - 1)
  BY DEF Grow
<1>2. PICK n \in kept .. Smaller(kept + PageSize, Capacity) :
        /\ length' = n /\ peak' = Larger(peak, n)
        /\ WriteRows(kept, Smaller(n + s, Capacity) - 1)
  BY <1>1
<1>3. /\ pc = "write" /\ round \in Nat /\ round' = round + 1 /\ pc' = "update"
      /\ cache' = cache /\ sourceRows' = sourceRows
  BY DEF Grow, Inv, Typed
<1>4. /\ Typed /\ Capacity \in Nat \ {0} /\ Speculative \in Nat /\ PageSize \in Nat \ {0}
      /\ length \in Nat /\ peak \in Nat /\ length <= peak /\ peak <= Capacity
  BY SizesAssumption DEF Inv, Typed
<1>5. Reach' = Reach /\ Reach \in Nat
  BY <1>3, <1>4, SourceSizes DEF Reach
<1>6. kept \in Nat /\ peak - Reach <= kept /\ kept <= length
  BY <1>4, <1>5 DEF Larger
<1>7. n \in Nat /\ kept <= n /\ n <= kept + PageSize /\ n <= Capacity
  BY <1>4, <1>6 DEF Smaller
<1>8. PICK high \in Nat : peak' = high /\ peak <= high /\ n <= high /\ high <= Capacity
                          /\ (high = peak \/ high = n)
  BY <1>2, <1>4, <1>7 DEF Larger
<1>9. Typed'
  BY <1>2, <1>3, <1>4, <1>7, <1>8 DEF Typed
<1>10. RollbackBounded'
  <2>1. high - Reach <= n
    BY <1>4, <1>5, <1>6, <1>7, <1>8
  <2> QED BY <1>2, <1>5, <1>8, <2>1 DEF RollbackBounded
<1>11. SourceHolds'
  <2> DEFINE last == Smaller(n + s, Capacity) - 1
  <2>1. last \in Int /\ n - 1 <= last /\ last < Capacity /\ last < high + Speculative
    <3>1. s \in Nat /\ s <= Speculative
      BY <1>4
    <3>2. \/ last = n + s - 1 /\ n + s <= Capacity
          \/ last = Capacity - 1 /\ Capacity <= n + s
      BY <1>4, <1>7, <3>1 DEF Smaller
    <3> HIDE DEF last
    <3> QED BY <1>4, <1>7, <1>8, <3>1, <3>2
  <2>2. WriteRows(kept, last)
    BY <1>2
  <2>3. HoldsBelow(kept)
    BY <1>4, <1>6 DEF HoldsBelow, Inv, SourceHolds
  <2> HIDE DEF last
  <2> QED BY <1>2, <1>3, <1>4, <1>6, <1>7, <1>8, <2>1, <2>2, <2>3, WrittenHold
<1>12. ASSUME NEW q \in LivePages' \ LastPages' PROVE FreshPage(q)'
  <2>1. q \in Pages /\ q \in Nat /\ q * PageSize \in Nat /\ q * PageSize < n /\ n > 0
    BY <1>2, <1>7, <1>12, PagesAreNumbers DEF LivePages, Pages
  <2>2. q \notin {FirstLast(n), FirstLast(n) + 1}
    <3>1. LastPages' = LivePages' \cap {FirstLast(n), FirstLast(n) + 1}
      BY <1>2 DEF LastPages, LivePages, FirstLast, Pages
    <3> QED BY <1>12, <3>1
  <2>3. q * PageSize + 2 * PageSize <= n - 1
    BY <2>1, <2>2, <1>7, OtherPagesAreBelow
  <2>4. q * PageSize + PageSize <= kept /\ q * PageSize + PageSize <= n
        /\ q * PageSize + PageSize <= length /\ q * PageSize < length
    BY <1>4, <1>6, <1>7, <2>1, <2>3
  <2>5. q \in LivePages
    BY <2>1, <2>4 DEF LivePages
  <2>6. Live(q) = PageSize
    <3>1. PageSize <= length - q * PageSize
      BY <1>4, <2>1, <2>4
    <3> QED BY <1>4, <2>1, <3>1 DEF Live, Smaller
  <2>7. Live(q)' = PageSize
    <3>1. PageSize <= n - q * PageSize
      BY <1>4, <1>7, <2>1, <2>4
    <3> QED BY <1>2, <1>4, <1>7, <2>1, <3>1 DEF Live, Smaller
  <2>8. cache[q] = Page(q)
    BY <1>3, <2>5 DEF Inv, FreshPages, FreshPage
  <2>9. \A i \in 1 .. PageSize : rows'[q * PageSize + i - 1] = rows[q * PageSize + i - 1]
    <3>1. ASSUME NEW i \in 1 .. PageSize
          PROVE  rows'[q * PageSize + i - 1] = rows[q * PageSize + i - 1]
      <4>1. q * PageSize + i - 1 \in Nat /\ q * PageSize + i - 1 < kept
        BY <1>4, <1>6, <2>1, <2>4
      <4>2. q * PageSize + i - 1 \in Positions
        BY <1>4, <1>6, <4>1 DEF Positions
      <4>3. q * PageSize + i - 1 \notin kept .. Smaller(n + s, Capacity) - 1
        BY <1>6, <4>1
      <4> QED BY <1>2, <4>2, <4>3 DEF WriteRows
    <3> QED BY <3>1
  <2>10. Page(q)' = Page(q)
    BY <2>6, <2>7, <2>9 DEF Page, Row
  <2> QED BY <1>3, <2>8, <2>10 DEF FreshPage
<1> QED BY <1>3, <1>9, <1>10, <1>11, <1>12 DEF Inv, FreshPages

LEMMA InitializeInv == ASSUME Inv, Initialize PROVE Inv'
<1>1. /\ pc' = "attend" /\ UNCHANGED <<sourceRows, source, rows, length, peak, round>>
      /\ \A q \in Pages : q \in LivePages => cache'[q] = Page(q)
  BY DEF Initialize, Page
<1>2. LivePages' = LivePages /\ LivePages \subseteq Pages /\ \A q : Page(q)' = Page(q)
  BY <1>1 DEF LivePages, Pages, Page, Live, Row
<1>3. FreshPages'
  BY <1>1, <1>2 DEF FreshPages, FreshPage
<1>4. Typed' /\ SourceHolds' /\ RollbackBounded'
  BY <1>1 DEF Inv, Typed, SourceHolds, Retained, SlotOf, Row, RollbackBounded, Reach
<1> QED BY <1>3, <1>4 DEF Inv

\* The last two pages are within reach of a source of any size.
LEMMA RefreshedRetained == Inv => RefreshedRowsRetained
<1> SUFFICES ASSUME Inv, NEW q \in LastPages, NEW i \in 0 .. Live(q) - 1
             PROVE  source[SourceSlot(q) + i] = Row(q * PageSize + i)
  BY DEF RefreshedRowsRetained
<1>1. /\ PageSize \in Nat \ {0} /\ Capacity \in Nat \ {0} /\ Speculative \in Nat
      /\ length \in Nat /\ length <= Capacity /\ peak \in Nat /\ Typed
  BY SizesAssumption DEF Inv, Typed
<1>2. q \in Nat /\ q * PageSize \in Nat /\ q * PageSize < length
  BY PagesAreNumbers DEF LastPages, LivePages
<1>3. i \in Nat /\ i < PageSize /\ q * PageSize + i < length
  BY <1>1, <1>2 DEF Live, Smaller
<1>4. length <= q * PageSize + 2 * PageSize
  <2>1. q = FirstLast(length) \/ q = FirstLast(length) + 1
    BY DEF LastPages, FirstLast
  <2>2. FirstLast(length) \in Int
    BY <1>1, QuotientInt DEF FirstLast, Larger
  <2>3. q >= FirstLast(length) /\ length \in Nat \ {0}
    BY <1>1, <1>2, <2>1, <2>2
  <2> QED BY <1>2, <2>3, LastPagesAreLast
<1>5. sourceRows \in Nat \ {0} /\ Reach \in Nat /\ peak - Reach <= length
  BY <1>1, SourceSizes DEF Inv, RollbackBounded
<1> DEFINE j == q * PageSize + i
<1>6. j \in 0 .. length - 1
  BY <1>1, <1>2, <1>3
<1>7. Retained(j) /\ SourceSlot(q) + i = SlotOf(j)
  <2>1. CASE sourceRows = Capacity
    <3>1. (q * PageSize) % sourceRows = q * PageSize
      <4>1. q * PageSize = sourceRows * 0 + q * PageSize /\ q * PageSize \in 0 .. sourceRows - 1
        BY <1>1, <1>2, <2>1
      <4> QED BY <1>2, <1>5, <4>1, Remainder
    <3>2. j % sourceRows = j
      <4>1. j = sourceRows * 0 + j /\ j \in 0 .. sourceRows - 1 /\ j \in Nat
        BY <1>1, <1>6, <2>1
      <4> HIDE DEF j
      <4> QED BY <1>5, <4>1, Remainder
    <3>3. j + sourceRows >= Capacity
      BY <1>1, <1>2, <1>3, <2>1
    <3> QED BY <3>1, <3>2, <3>3 DEF Retained, SourceSlot, SlotOf
  <2>2. CASE sourceRows # Capacity
    <3>1. sourceRows % PageSize = 0 /\ Reach <= sourceRows - 2 * PageSize - Speculative
      BY <1>1, <2>2, SourceSizes
    <3>2. ((q * PageSize) % sourceRows) + i = j % sourceRows
      <4>1. i \in 0 .. PageSize - 1
        BY <1>1, <1>3
      <4>2. Contiguous(q, PageSize, sourceRows, i)
        BY <1>1, <1>2, <1>5, <3>1, <4>1, PageInRing
      <4> QED BY <4>2 DEF Contiguous
    <3>3. j + sourceRows >= peak + Speculative
      BY <1>1, <1>2, <1>3, <1>4, <1>5, <3>1
    <3> QED BY <3>2, <3>3 DEF Retained, SourceSlot, SlotOf
  <2> QED BY <2>1, <2>2
<1>8. source[SlotOf(j)] = Row(j)
  BY <1>6, <1>7 DEF Inv, SourceHolds
<1> QED BY <1>7, <1>8

LEMMA UpdateInv == ASSUME Inv, Update PROVE Inv'
<1>1. /\ pc = "update" /\ pc' = "attend" /\ UNCHANGED <<sourceRows, source, rows, length, peak, round>>
      /\ \A q \in Pages :
           cache'[q] = IF q \in LastPages
                       THEN [i \in 1 .. Live(q) |-> source[SourceSlot(q) + i - 1]]
                       ELSE cache[q]
  BY DEF Update
<1>2. LivePages' = LivePages /\ LivePages \subseteq Pages /\ \A q : Page(q)' = Page(q)
  BY <1>1 DEF LivePages, Pages, Page, Live, Row
<1>3. ASSUME NEW q \in LivePages PROVE cache'[q] = Page(q)
  <2>1. CASE q \in LastPages
    <3>1. ASSUME NEW i \in 1 .. Live(q)
          PROVE  source[SourceSlot(q) + i - 1] = Row(q * PageSize + i - 1)
      <4>1. /\ PageSize \in Nat \ {0} /\ length \in Nat /\ q * PageSize \in Nat /\ Typed
            /\ q \in Nat
        BY <1>2, SizesAssumption, PagesAreNumbers DEF Inv, Typed
      <4>2. Live(q) \in Int
        BY <4>1 DEF Live, Smaller
      <4>3. i - 1 \in 0 .. Live(q) - 1
        BY <4>2
      <4>4. source[SourceSlot(q) + (i - 1)] = Row(q * PageSize + (i - 1))
        BY <1>1, <2>1, <4>3, RefreshedRetained DEF RefreshedRowsRetained
      <4>5. SourceSlot(q) \in Int
        BY <4>1, SourceSizes, RemainderRange DEF SourceSlot
      <4>6. SourceSlot(q) + (i - 1) = SourceSlot(q) + i - 1
            /\ q * PageSize + (i - 1) = q * PageSize + i - 1
        BY <4>1, <4>2, <4>5
      <4> QED BY <4>4, <4>6
    <3> QED BY <1>1, <1>2, <2>1, <3>1 DEF Page
  <2>2. CASE q \notin LastPages
    BY <1>1, <1>2, <2>2 DEF Inv, FreshPages, FreshPage
  <2> QED BY <2>1, <2>2
<1>4. FreshPages'
  BY <1>1, <1>2, <1>3 DEF FreshPages, FreshPage
<1>5. Typed' /\ SourceHolds' /\ RollbackBounded'
  BY <1>1 DEF Inv, Typed, SourceHolds, Retained, SlotOf, Row, RollbackBounded, Reach
<1> QED BY <1>4, <1>5 DEF Inv

LEMMA NextInv == ASSUME Inv, [Next]_vars PROVE Inv'
<1>1. CASE Attend
  <2>1. pc = "attend" /\ pc' = "write"
        /\ UNCHANGED <<cache, sourceRows, source, rows, length, peak, round>>
    BY <1>1 DEF Attend
  <2> QED
    BY <2>1 DEF Inv, Typed, FreshPages, FreshPage, Page, Live, LivePages, Pages, Row, SourceHolds,
       Retained, SlotOf, RollbackBounded, Reach
<1>2. CASE UNCHANGED vars
  BY <1>2 DEF vars, Inv, Typed, FreshPages, FreshPage, Page, Live, LivePages, LastPages, Pages, Row,
     SourceHolds, Retained, SlotOf, RollbackBounded, Reach
<1> QED BY <1>1, <1>2, BeginInv, GrowInv, InitializeInv, UpdateInv DEF Next

LEMMA InvAlways == Spec => []Inv
<1>1. Init => Inv
  BY InitInv
<1>2. Inv /\ [Next]_vars => Inv'
  BY NextInv
<1> QED BY <1>1, <1>2, PTL DEF Spec

\* Attention reads the pages a fresh initialization would make, whatever grew, rolled
\* back and was written speculatively before.
THEOREM AttendsFreshPages == Spec => []AttendsCommittedPrefix
<1>1. Inv => AttendsCommittedPrefix
  BY DEF Inv, FreshPages, FreshPage, Page, AttendsCommittedPrefix
<1> QED BY <1>1, InvAlways, PTL

\* The source still holds every row that an update requantizes.
THEOREM RefreshedRowsAreThere == Spec => []RefreshedRowsRetained
<1> QED BY RefreshedRetained, InvAlways, PTL

\* A page that a whole page separates from the rows a rollback may reach is not
\* written again.
THEOREM SealedPagesAreKept == Spec => SealedPagesKept
<1>1. Inv /\ [Next]_vars =>
        [\A q \in Pages : (q + 2) * PageSize < peak - Reach /\ pc # "initialize"
            => cache'[q] = cache[q]]_vars
  <2>1. SUFFICES ASSUME Inv, [Next]_vars, NEW q \in Pages,
                        (q + 2) * PageSize < peak - Reach, pc # "initialize"
                 PROVE  cache'[q] = cache[q]
    OBVIOUS
  <2>2. CASE Update
    <3>1. /\ PageSize \in Nat \ {0} /\ length \in Nat /\ peak \in Nat /\ Reach \in Nat
          /\ q \in Nat /\ q * PageSize \in Nat
      <4>1. Typed
        BY <2>1 DEF Inv
      <4>2. PageSize \in Nat \ {0} /\ Capacity \in Nat
        BY SizesAssumption
      <4>3. length \in Nat /\ peak \in Nat
        BY <4>1, <4>2 DEF Typed
      <4>4. q \in Nat /\ q * PageSize \in Nat
        BY PagesAreNumbers
      <4> QED BY <4>1, <4>2, <4>3, <4>4, SourceSizes
    <3>2. (q + 2) * PageSize = q * PageSize + 2 * PageSize /\ peak - Reach <= length
      <4>1. peak - Reach <= length
        BY <2>1 DEF Inv, RollbackBounded
      <4> QED BY <3>1, <4>1
    <3>3. q * PageSize + 2 * PageSize < length
      BY <2>1, <3>1, <3>2
    <3>4. q < FirstLast(length)
      <4>1. FirstLast(length) \in Int
        BY <3>1, QuotientInt, SizesAssumption DEF FirstLast, Larger
      <4>2. length \in Nat \ {0}
        BY <3>1, <3>3
      <4>3. q >= FirstLast(length) => length <= q * PageSize + 2 * PageSize
        BY <3>1, <4>2, LastPagesAreLast
      <4> QED BY <3>1, <3>3, <4>1, <4>3
    <3>5. q \notin LastPages
      <4>1. FirstLast(length) \in Int
        BY <3>1, QuotientInt, SizesAssumption DEF FirstLast, Larger
      <4>2. q \in LastPages => q = FirstLast(length) \/ q = FirstLast(length) + 1
        BY DEF LastPages, FirstLast
      <4> QED BY <3>1, <3>4, <4>1, <4>2
    <3> QED BY <2>2, <3>5 DEF Update
  <2>3. CASE ~Update
    BY <2>1, <2>3 DEF Next, Begin, Grow, Initialize, Attend, vars
  <2> QED BY <2>2, <2>3
<1> QED BY <1>1, InvAlways, PTL DEF Spec, SealedPagesKept

-----------------------------------------------------------------------------
(* Types: what the pages and the source hold are rows of the sequence. *)

LEMMA RowTyped == ASSUME TypeOK, NEW i \in Positions PROVE Row(i) \in RowType
BY DEF TypeOK, Row, RowType

\* The live rows of a page are positions.
LEMMA LiveRows ==
  ASSUME TypeOK, NEW q \in LivePages
  PROVE  /\ Live(q) \in 0 .. PageSize
         /\ \A i \in 1 .. Live(q) : q * PageSize + i - 1 \in Positions
<1>1. PageSize \in Nat \ {0} /\ Capacity \in Nat /\ length \in 0 .. Capacity
  BY SizesAssumption DEF TypeOK
<1>2. q \in Pages /\ q * PageSize < length /\ q \in Nat /\ q * PageSize \in Nat
  BY PagesAreNumbers DEF LivePages
<1>3. Live(q) \in 0 .. PageSize /\ Live(q) <= length - q * PageSize
  BY <1>1, <1>2 DEF Live, Smaller
<1>4. ASSUME NEW i \in 1 .. Live(q) PROVE q * PageSize + i - 1 \in 0 .. Capacity - 1
  <2> DEFINE b == q * PageSize
  <2>1. b \in Nat /\ Live(q) \in Int /\ Live(q) <= length - b
    BY <1>2, <1>3
  <2> HIDE DEF b
  <2>2. b + i - 1 \in 0 .. Capacity - 1
    BY <2>1, <1>1
  <2> QED BY <2>2 DEF b
<1> QED BY <1>3, <1>4 DEF Positions

\* A step that leaves every live page as an initialization would, and no other page changed.
LEMMA FreshTyped ==
  ASSUME TypeOK, \A q \in LivePages : FreshPage(q)',
         \A q \in Pages \ LivePages : cache'[q] = cache[q],
         UNCHANGED <<sourceRows, source, rows, length, peak, round>>,
         pc' \in {"write", "initialize", "update", "attend"}
  PROVE  TypeOK'
<1>1. ASSUME NEW q \in Pages
      PROVE  /\ Len(cache'[q]) \in 0 .. PageSize
             /\ \A i \in DOMAIN cache'[q] : cache'[q][i] \in RowType
  <2>1. CASE q \in LivePages
    <3>1. \A i \in 1 .. Live(q) : Row(q * PageSize + i - 1) \in RowType
      BY <2>1, LiveRows, RowTyped
    <3>2. cache'[q] = [i \in 1 .. Live(q) |-> Row(q * PageSize + i - 1)]
      BY <2>1 DEF FreshPage, Page, Live, Row
    <3>3. Live(q) \in 0 .. PageSize /\ Live(q) \in Nat
      BY <2>1, LiveRows, SizesAssumption
    <3>4. Len(cache'[q]) = Live(q)
      BY <3>2, <3>3
    <3> QED BY <3>1, <3>2, <3>3, <3>4
  <2>2. CASE q \notin LivePages
    BY <2>2 DEF TypeOK
  <2> QED BY <2>1, <2>2
<1>2. RowType' = RowType /\ Slots' = Slots
  BY DEF RowType, Positions, Slots
<1>3. /\ sourceRows' \in Sources /\ source' \in [Slots' -> RowType' \cup (Slots' \X {0})]
      /\ rows' \in [Positions -> 0 .. MaxRounds] /\ length' \in 0 .. Capacity
      /\ peak' \in length' .. Capacity /\ round' \in 0 .. MaxRounds
  BY <1>2 DEF TypeOK
<1> QED BY <1>1, <1>3, <1>2 DEF TypeOK

LEMMA QuantizeTypeOK == ASSUME TypeOK, Inv', Initialize \/ Update PROVE TypeOK'
<1>1. UNCHANGED <<sourceRows, source, rows, length, peak, round>> /\ pc' = "attend"
  BY DEF Initialize, Update
<1>2. LivePages' = LivePages
  BY <1>1 DEF LivePages, Pages
<1>3. \A q \in LivePages : FreshPage(q)'
  BY <1>1, <1>2 DEF Inv, FreshPages
<1>4. \A q \in Pages \ LivePages : cache'[q] = cache[q]
  BY DEF Initialize, Update, LastPages
<1> QED BY <1>1, <1>3, <1>4, FreshTyped

\* A set of numbers below a bound has a largest one.
LEMMA LargestNumber ==
  ASSUME NEW b \in Int, NEW W, W # {}, \A i \in W : i \in Int /\ i <= b
  PROVE  \E i \in W : \A j \in W : j <= i
<1> DEFINE D == {k \in Nat : b - k \in W}
<1>1. PICK i \in W : TRUE
  OBVIOUS
<1>2. b - i \in D
  BY <1>1
<1>3. PICK k \in D : \A m \in D : k <= m
  BY <1>2, LeastNatural
<1>4. ASSUME NEW j \in W PROVE j <= b - k
  <2>1. b - j \in D
    OBVIOUS
  <2> QED BY <1>3, <2>1
<1> QED BY <1>3, <1>4

\* Rows written below the capacity.
LEMMA WriteTyped ==
  ASSUME TypeOK, NEW first \in Nat, NEW last \in Int, last < Capacity, round' \in 0 .. MaxRounds,
         sourceRows' = sourceRows, WriteRows(first, last)
  PROVE  /\ source' \in [Slots' -> (RowType \cup (Slots \X {0}))']
         /\ rows' \in [Positions -> 0 .. MaxRounds]
<1>1. Slots' = Slots /\ RowType' = RowType
  BY DEF Slots, RowType, Positions
<1>2. rows' \in [Positions -> 0 .. MaxRounds]
  BY DEF WriteRows, TypeOK
<1>3. ASSUME NEW s \in Slots PROVE source'[s] \in RowType \cup (Slots \X {0})
  <2> DEFINE written == {i \in first .. last : SlotOf(i) = s}
             latest == CHOOSE i \in written : \A j \in written : j <= i
  <2>1. source'[s] = IF written = {} THEN source[s] ELSE <<latest, round'>>
    BY DEF WriteRows
  <2>2. CASE written = {}
    BY <2>1, <2>2 DEF TypeOK
  <2>3. CASE written # {}
    <3>1. \E i \in written : \A j \in written : j <= i
      <4>1. \A i \in written : i \in Int /\ i <= last
        OBVIOUS
      <4> HIDE DEF written
      <4> QED BY <2>3, <4>1, LargestNumber
    <3>2. latest \in written
      <4> HIDE DEF written
      <4> QED BY <3>1
    <3>3. latest \in Positions
      <4>1. latest \in first .. last
        BY <3>2
      <4> HIDE DEF latest
      <4> QED BY <4>1, SizesAssumption DEF Positions
    <3> HIDE DEF latest, written
    <3> QED BY <2>1, <2>3, <3>3 DEF RowType
  <2> QED BY <2>2, <2>3
<1>4. source' \in [Slots -> RowType \cup (Slots \X {0})]
  BY <1>3 DEF WriteRows
<1> QED BY <1>1, <1>2, <1>4

\* A round that writes rows and leaves the pages alone.
LEMMA RoundTyped ==
  ASSUME TypeOK, NEW first \in Nat, NEW last \in Int, last < Capacity, WriteRows(first, last),
         round' \in 0 .. MaxRounds, cache' = cache, sourceRows' = sourceRows,
         length' \in 0 .. Capacity, peak' \in length' .. Capacity, pc' \in {"initialize", "update"}
  PROVE  TypeOK'
<1>1. RowType' = RowType /\ Slots' = Slots
  BY DEF RowType, Positions, Slots
<1>2. \A q \in Pages : /\ Len(cache'[q]) \in 0 .. PageSize
                       /\ \A i \in DOMAIN cache'[q] : cache'[q][i] \in RowType
  BY DEF TypeOK
<1>3. sourceRows' \in Sources
  BY DEF TypeOK
<1> QED BY <1>1, <1>2, <1>3, WriteTyped DEF TypeOK

LEMMA BeginTypeOK == ASSUME TypeOK, Begin PROVE TypeOK'
<1>1. PICK n \in 1 .. Capacity, s \in 0 .. Speculative :
        /\ length' = n /\ peak' = Larger(peak, n)
        /\ WriteRows(0, Smaller(n + s, Capacity) - 1)
  BY DEF Begin
<1>2. /\ Capacity \in Nat /\ Speculative \in Nat /\ MaxRounds \in Nat \ {0}
      /\ length \in 0 .. Capacity /\ peak \in length .. Capacity
  BY SizesAssumption DEF TypeOK
<1>3. peak' \in n .. Capacity
  BY <1>1, <1>2 DEF Larger
<1> DEFINE last == Smaller(n + s, Capacity) - 1
<1>4. last \in Int /\ last < Capacity
  BY <1>2 DEF Smaller
<1>5. WriteRows(0, last)
  BY <1>1
<1>6. round' \in 0 .. MaxRounds /\ pc' = "initialize" /\ cache' = cache /\ sourceRows' = sourceRows
  BY <1>2 DEF Begin
<1>7. length' \in 0 .. Capacity /\ peak' \in length' .. Capacity
  BY <1>1, <1>2, <1>3
<1> HIDE DEF last
<1> QED BY <1>4, <1>5, <1>6, <1>7, RoundTyped

LEMMA GrowTypeOK == ASSUME TypeOK, Grow PROVE TypeOK'
<1>1. PICK kept \in Larger(0, peak - Reach) .. length, s \in 0 .. Speculative :
      \E n \in kept .. Smaller(kept + PageSize, Capacity) :
        /\ length' = n /\ peak' = Larger(peak, n)
        /\ WriteRows(kept, Smaller(n + s, Capacity) - 1)
  BY DEF Grow
<1>2. PICK n \in kept .. Smaller(kept + PageSize, Capacity) :
        /\ length' = n /\ peak' = Larger(peak, n)
        /\ WriteRows(kept, Smaller(n + s, Capacity) - 1)
  BY <1>1
<1>3. /\ Capacity \in Nat /\ Speculative \in Nat /\ MaxRounds \in Nat /\ PageSize \in Nat
      /\ length \in 0 .. Capacity /\ peak \in length .. Capacity
  BY SizesAssumption DEF TypeOK
<1>4. Larger(0, peak - Reach) >= 0 /\ Larger(0, peak - Reach) \in Int
  <2>1. Reach \in Int
    <3>1. Rollback \in Nat /\ sourceRows \in Int
      BY SizesAssumption, SourcesAssumption DEF TypeOK
    <3> QED BY <3>1, <1>3 DEF Reach, Smaller
  <2> QED BY <2>1, <1>3 DEF Larger
<1>5. kept \in Nat /\ n \in Nat /\ n <= Capacity
  <2> DEFINE low == Larger(0, peak - Reach)
  <2> HIDE DEF low
  <2>1. low \in Int /\ low >= 0 /\ kept \in low .. length
    BY <1>4 DEF low
  <2>2. kept \in Nat
    BY <2>1, <1>3
  <2> QED BY <2>2, <1>3 DEF Smaller
<1>6. peak' \in n .. Capacity
  BY <1>2, <1>3, <1>5 DEF Larger
<1> DEFINE last == Smaller(n + s, Capacity) - 1
<1>7. last \in Int /\ last < Capacity
  BY <1>3, <1>5 DEF Smaller
<1>8. WriteRows(kept, last)
  BY <1>2
<1>9. round' \in 0 .. MaxRounds /\ pc' = "update" /\ cache' = cache /\ sourceRows' = sourceRows
  BY <1>3 DEF Grow
<1>10. length' \in 0 .. Capacity /\ peak' \in length' .. Capacity
  BY <1>2, <1>3, <1>5, <1>6
<1> HIDE DEF last
<1> QED BY <1>5, <1>7, <1>8, <1>9, <1>10, RoundTyped

LEMMA InitTypeOK == Init => TypeOK
<1> SUFFICES ASSUME Init PROVE TypeOK
  OBVIOUS
<1>1. PageSize \in Nat /\ Capacity \in Nat /\ MaxRounds \in Nat
  BY SizesAssumption
<1>2. \A q \in Pages : Len(cache[q]) \in 0 .. PageSize /\ \A i \in DOMAIN cache[q] : cache[q][i] \in RowType
  BY <1>1 DEF Init
<1>3. source \in [Slots -> RowType \cup (Slots \X {0})]
  BY DEF Init
<1> QED BY <1>1, <1>2, <1>3 DEF Init, TypeOK

LEMMA TypeOKNext == ASSUME Inv', TypeOK, [Next]_vars PROVE TypeOK'
<1>1. CASE Attend \/ UNCHANGED vars
  BY <1>1 DEF Attend, vars, TypeOK, RowType, Positions, Slots, Pages
<1> QED BY <1>1, QuantizeTypeOK, BeginTypeOK, GrowTypeOK DEF Next

-----------------------------------------------------------------------------
(* The quarantine, for any finite set of threads, any keys and any number of   *)
(* calls.  Each invariant weighs counters against the number of threads at a   *)
(* label, so a step is a change of one such number: MoveCounts and MoveOwed    *)
(* say which, and the rest is arithmetic.                                      *)

QuarantineTyped ==
  /\ quarantined \subseteq Keys
  /\ routes \in [Routes -> Nat]
  /\ fallbacks \in Nat
  /\ route_pc \in [Threads -> Labels]
  /\ key \in [Threads -> Keys]
  /\ collected \in [Routes -> Nat]
  /\ completed \in [Routes -> Nat]
  /\ abandoned \in Nat
  /\ warned \in [Keys -> Int]

QuarantineInv == QuarantineTyped /\ EveryCallCountedOnce /\ WarnedOncePerRoute

\* Threads in the warn branch for a key.
Owing(k) == {t \in At("warn") : key[t] = k}

LEMMA CountsAreNumbers ==
  ASSUME IsFiniteSet(Threads)
  PROVE  /\ \A l : IsFiniteSet(At(l)) /\ Cardinality(At(l)) \in Nat
         /\ \A k : IsFiniteSet(Owing(k)) /\ Owed(k) = Cardinality(Owing(k)) /\ Owed(k) \in Nat
<1>1. ASSUME NEW l PROVE IsFiniteSet(At(l)) /\ Cardinality(At(l)) \in Nat
  <2>1. At(l) \subseteq Threads
    BY DEF At
  <2> QED BY <2>1, FS_Subset, FS_CardinalityType
<1>2. ASSUME NEW k
      PROVE IsFiniteSet(Owing(k)) /\ Owed(k) = Cardinality(Owing(k)) /\ Owed(k) \in Nat
  <2>1. Owing(k) \subseteq Threads
    BY DEF Owing, At
  <2>2. IsFiniteSet(Owing(k)) /\ Cardinality(Owing(k)) \in Nat
    BY <2>1, FS_Subset, FS_CardinalityType
  <2> QED BY <2>2 DEF Owed, Owing
<1> QED BY <1>1, <1>2

Gains(S, T, x) == T = S \cup {x} /\ x \notin S
Loses(S, T, x) == T = S \ {x} /\ x \in S

LEMMA OneMoreOrLess ==
  ASSUME NEW S, NEW T, NEW x, IsFiniteSet(S)
  PROVE  /\ Gains(S, T, x) => Cardinality(T) = Cardinality(S) + 1
         /\ Loses(S, T, x) => Cardinality(T) = Cardinality(S) - 1
BY FS_AddElement, FS_RemoveElement DEF Gains, Loses

Is(l, m) == IF l = m THEN 1 ELSE 0
Warns(l, r, k) == IF l = "warn" /\ r = k THEN 1 ELSE 0
Member(k, keys) == IF k \in keys THEN 1 ELSE 0

\* A thread that goes to a label leaves the other.
LEMMA MoveCounts ==
  ASSUME IsFiniteSet(Threads), QuarantineTyped, NEW t \in Threads, NEW l \in Labels,
         route_pc[t] # l, Goto(t, l), NEW m
  PROVE  Cardinality(At(m)') = Cardinality(At(m)) + Is(l, m) - Is(route_pc[t], m)
<1>1. route_pc' = [route_pc EXCEPT ![t] = l] /\ route_pc \in [Threads -> Labels]
  BY DEF Goto, QuarantineTyped
<1>2. CASE l = m
  <2>1. Gains(At(m), At(m)', t)
    BY <1>1, <1>2 DEF Gains, At
  <2> QED BY <2>1, <1>2, OneMoreOrLess, CountsAreNumbers DEF Is, Warns, Member
<1>3. CASE route_pc[t] = m
  <2>1. Loses(At(m), At(m)', t)
    BY <1>1, <1>3 DEF Loses, At
  <2> QED BY <2>1, <1>3, OneMoreOrLess, CountsAreNumbers DEF Is, Warns, Member
<1>4. CASE l # m /\ route_pc[t] # m
  <2>1. At(m)' = At(m)
    BY <1>1, <1>4 DEF At
  <2> QED BY <2>1, <1>4, CountsAreNumbers DEF Is, Warns, Member
<1> QED BY <1>2, <1>3, <1>4

\* The warnings owed change with a thread that comes to warn or has warned; its key
\* is set before, when it owes nothing.
LEMMA MoveOwed ==
  ASSUME IsFiniteSet(Threads), QuarantineTyped, NEW t \in Threads, NEW l \in Labels,
         route_pc[t] # l, Goto(t, l), NEW k,
         key' = key \/ (route_pc[t] # "warn" /\ l # "warn" /\ \A u \in Threads \ {t} : key'[u] = key[u])
  PROVE  Owed(k)' = Owed(k) + Warns(l, key[t], k)
                            - Warns(route_pc[t], key[t], k)
<1>1. route_pc' = [route_pc EXCEPT ![t] = l] /\ route_pc \in [Threads -> Labels]
  BY DEF Goto, QuarantineTyped
<1>2. Owed(k)' = Cardinality(Owing(k)')
  BY DEF Owed, Owing
<1>3. CASE l = "warn" /\ key[t] = k
  <2>1. Gains(Owing(k), Owing(k)', t)
    BY <1>1, <1>3 DEF Gains, Owing, At
  <2> QED BY <2>1, <1>2, <1>3, OneMoreOrLess, CountsAreNumbers DEF Is, Warns, Member
<1>4. CASE route_pc[t] = "warn" /\ key[t] = k
  <2>1. Loses(Owing(k), Owing(k)', t)
    BY <1>1, <1>4 DEF Loses, Owing, At
  <2> QED BY <2>1, <1>2, <1>4, OneMoreOrLess, CountsAreNumbers DEF Is, Warns, Member
<1>5. CASE ~(l = "warn" /\ key[t] = k) /\ ~(route_pc[t] = "warn" /\ key[t] = k)
  <2>1. Owing(k)' = Owing(k)
    BY <1>1, <1>5 DEF Owing, At
  <2> QED BY <2>1, <1>2, <1>5, CountsAreNumbers DEF Is, Warns, Member
<1> QED BY <1>3, <1>4, <1>5

LEMMA Incremented ==
  ASSUME NEW S, NEW f \in [S -> Nat], NEW x \in S, NEW g, g = [f EXCEPT ![x] = @ + 1]
  PROVE  g \in [S -> Nat] /\ g[x] = f[x] + 1 /\ \A y \in S : y # x => g[y] = f[y]
OBVIOUS

LEMMA IncrementedInt ==
  ASSUME NEW S, NEW f \in [S -> Int], NEW x \in S, NEW g, g = [f EXCEPT ![x] = @ + 1]
  PROVE  g \in [S -> Int] /\ g[x] = f[x] + 1 /\ \A y \in S : y # x => g[y] = f[y]
OBVIOUS

LEMMA QuarantineInitInv == ASSUME IsFiniteSet(Threads) PROVE QuarantineInit => QuarantineInv
<1> SUFFICES ASSUME QuarantineInit PROVE QuarantineInv
  OBVIOUS
<1>1. QuarantineTyped
  BY DEF QuarantineInit, QuarantineTyped, Routes, Labels
<1>2. At("fallback") = {} /\ \A k \in Keys : Owing(k) = {}
  BY DEF QuarantineInit, At, Owing
<1>3. EveryCallCountedOnce
  BY <1>2, FS_EmptySet DEF QuarantineInit, EveryCallCountedOnce, Counted, Routes
<1>4. WarnedOncePerRoute
  BY <1>2, FS_EmptySet, CountsAreNumbers DEF QuarantineInit, WarnedOncePerRoute
<1> QED BY <1>1, <1>3, <1>4 DEF QuarantineInv

\* What a step of a thread does to the invariant follows from its label, from what
\* it adds to the counters, and from the quarantine it leaves.
LEMMA Preserved ==
  ASSUME IsFiniteSet(Threads), QuarantineInv, NEW t \in Threads, NEW l \in Labels,
         route_pc[t] # l, Goto(t, l), QuarantineTyped',
         key' = key \/ (route_pc[t] # "warn" /\ l # "warn" /\ \A u \in Threads \ {t} : key'[u] = key[u]),
         collected' = collected,
         routes'["xpu"] - completed'["xpu"] = routes["xpu"] - completed["xpu"],
         routes'["eager"] - completed'["eager"] - abandoned'
           = routes["eager"] - completed["eager"] - abandoned
               + Is(l, "fallback") - Is(route_pc[t], "fallback"),
         fallbacks' - routes'["eager"] <= fallbacks - routes["eager"],
         \A k \in Keys :
           warned'[k] + Warns(l, key[t], k) - Warns(route_pc[t], key[t], k)
             = warned[k] + Member(k, quarantined') - Member(k, quarantined)
  PROVE  QuarantineInv'
<1>1. Cardinality(At("fallback")') = Cardinality(At("fallback"))
                                       + Is(l, "fallback") - Is(route_pc[t], "fallback")
  BY MoveCounts DEF QuarantineInv
<1>2. "xpu" \in Routes /\ "eager" \in Routes
  BY DEF Routes
<1>3. Cardinality(At("fallback")) \in Nat /\ Cardinality(At("fallback")') \in Int
  BY <1>1, CountsAreNumbers DEF Is, Warns, Member
<1>4. EveryCallCountedOnce'
  BY <1>1, <1>2, <1>3 DEF QuarantineInv, QuarantineTyped, EveryCallCountedOnce, Counted, Is, Warns, Member
<1>5. ASSUME NEW k \in Keys
      PROVE  warned'[k] + Owed(k)' = IF k \in quarantined' THEN 1 ELSE 0
  <2>1. Owed(k)' = Owed(k) + Warns(l, key[t], k)
                            - Warns(route_pc[t], key[t], k)
    BY MoveOwed DEF QuarantineInv
  <2>2. warned[k] + Owed(k) = Member(k, quarantined)
    BY DEF QuarantineInv, WarnedOncePerRoute, Is, Warns, Member
  <2>3. warned[k] \in Int /\ warned'[k] \in Int /\ Owed(k) \in Int
    BY CountsAreNumbers DEF QuarantineInv, QuarantineTyped
  <2>4. warned'[k] + Warns(l, key[t], k) - Warns(route_pc[t], key[t], k)
          = warned[k] + Member(k, quarantined') - Member(k, quarantined)
    OBVIOUS
  <2>5. /\ Member(k, quarantined) \in Int /\ Member(k, quarantined') \in Int
         /\ Warns(l, key[t], k) \in Int /\ Warns(route_pc[t], key[t], k) \in Int
    BY DEF Member, Warns
  <2>6. warned'[k] + Owed(k)' = Member(k, quarantined')
    BY <2>1, <2>2, <2>3, <2>4, <2>5
  <2> QED BY <2>6 DEF Is, Warns, Member
<1> QED BY <1>4, <1>5 DEF QuarantineInv, WarnedOncePerRoute

\* Steps that move no counter.
LEMMA QuietInv ==
  ASSUME IsFiniteSet(Threads), QuarantineInv, NEW t \in Threads, NEW l \in Labels,
         route_pc[t] # l, Goto(t, l), l \notin {"warn", "fallback"}, route_pc[t] \notin {"warn", "fallback"},
         key' \in [Threads -> Keys],
         \A u \in Threads \ {t} : key'[u] = key[u],
         UNCHANGED <<quarantined, diagnostics, history>>
  PROVE  QuarantineInv'
<1>1. QuarantineTyped'
  BY DEF QuarantineInv, QuarantineTyped, Goto, diagnostics, history
<1>2. /\ warned' = warned /\ routes' = routes /\ fallbacks' = fallbacks
      /\ collected' = collected /\ completed' = completed /\ abandoned' = abandoned
      /\ quarantined' = quarantined
  BY DEF diagnostics, history
<1>3. /\ Is(l, "fallback") = 0 /\ Is(route_pc[t], "fallback") = 0
      /\ \A k \in Keys : /\ Warns(l, key[t], k) = 0
                         /\ Warns(route_pc[t], key[t], k) = 0
  BY DEF Is, Warns, Member
<1>4. "xpu" \in Routes /\ "eager" \in Routes
  BY DEF Routes
<1>5. \A k \in Keys : Member(k, quarantined) \in Int
  BY DEF Member
<1>6. \A k \in Keys : warned[k] \in Int
  BY DEF QuarantineInv, QuarantineTyped
<1> QED BY <1>1, <1>2, <1>3, <1>4, <1>5, <1>6, Preserved DEF QuarantineInv, QuarantineTyped

LEMMA BeginCallInv ==
  ASSUME IsFiniteSet(Threads), QuarantineInv, NEW t \in Threads, NEW k \in Keys, BeginCall(t, k) PROVE QuarantineInv'
<1>1. PICK l \in {"check", "direct"} : Goto(t, l)
  BY DEF BeginCall
<1>2. l \in Labels /\ route_pc[t] # l /\ l \notin {"warn", "fallback"} /\ route_pc[t] \notin {"warn", "fallback"}
  BY DEF BeginCall, Labels
<1>3. key' \in [Threads -> Keys] /\ \A u \in Threads \ {t} : key'[u] = key[u]
  BY DEF BeginCall, QuarantineInv, QuarantineTyped
<1> QED BY <1>1, <1>2, <1>3, QuietInv DEF BeginCall

LEMMA QuietStepsInv ==
  ASSUME IsFiniteSet(Threads), QuarantineInv, NEW t \in Threads,
         CheckQuarantine(t) \/ NativeReturns(t) \/ NativeRaises(t)
           \/ DirectReturns(t) \/ DirectRaises(t)
  PROVE  QuarantineInv'
<1>1. PICK l \in {"record fallback", "native", "record native", "record eager", "idle"} :
        route_pc[t] # l /\ Goto(t, l)
  BY DEF CheckQuarantine, NativeReturns, NativeRaises, DirectReturns, DirectRaises
<1>2. l \in Labels /\ l \notin {"warn", "fallback"} /\ route_pc[t] \notin {"warn", "fallback"}
  BY DEF CheckQuarantine, NativeReturns, NativeRaises, DirectReturns, DirectRaises, Labels
<1>3. key' = key /\ UNCHANGED <<quarantined, diagnostics, history>>
  BY DEF CheckQuarantine, NativeReturns, NativeRaises, DirectReturns, DirectRaises
<1>4. key' \in [Threads -> Keys] /\ \A u \in Threads \ {t} : key'[u] = key[u]
  BY <1>3 DEF QuarantineInv, QuarantineTyped
<1> QED BY <1>1, <1>2, <1>3, <1>4, QuietInv

LEMMA UnmovedCounters ==
  ASSUME QuarantineTyped, NEW a, NEW b, a = 0, b = 0,
         routes' = routes, completed' = completed, abandoned' = abandoned, fallbacks' = fallbacks
  PROVE  /\ routes'["xpu"] - completed'["xpu"] = routes["xpu"] - completed["xpu"]
         /\ routes'["eager"] - completed'["eager"] - abandoned'
              = routes["eager"] - completed["eager"] - abandoned + a - b
         /\ fallbacks' - routes'["eager"] <= fallbacks - routes["eager"]
<1>1. /\ routes["xpu"] \in Nat /\ routes["eager"] \in Nat /\ abandoned \in Nat
      /\ completed["xpu"] \in Nat /\ completed["eager"] \in Nat /\ fallbacks \in Nat
  BY DEF Routes, QuarantineTyped
<1> QED BY <1>1

\* What a step adds to the warnings given and owed is what it adds to the quarantine.
Balance(v, A, B, u, N, M) == v + A - B = u + N - M

LEMMA Balanced ==
  ASSUME NEW u \in Int, NEW v, NEW A, NEW B, NEW M \in Int, NEW N, A = 0, N = M,
         (B = 0 /\ v = u) \/ (B = 1 /\ v = u + 1)
  PROVE  Balance(v, A, B, u, N, M)
BY DEF Balance

LEMMA WarningsAreNumbers ==
  ASSUME QuarantineTyped, NEW k \in Keys
  PROVE  warned[k] \in Int /\ Member(k, quarantined) \in Int
<1>1. warned[k] \in Int
  BY DEF QuarantineTyped
<1>2. Member(k, quarantined) \in Int
  BY DEF Member
<1> QED BY <1>1, <1>2

\* The first thread to fail on a route owes its warning.
LEMMA NativeFailsInv ==
  ASSUME IsFiniteSet(Threads), QuarantineInv, NEW t \in Threads, NativeFails(t) PROVE QuarantineInv'
<1>1. PICK l \in {"record fallback", "warn"} :
      /\ l = IF key[t] \in quarantined THEN "record fallback" ELSE "warn"
      /\ route_pc[t] = "native" /\ Goto(t, l) /\ l \in Labels /\ route_pc[t] # l /\ l # "fallback"
      /\ quarantined' = quarantined \cup {key[t]} /\ key' = key /\ key[t] \in Keys
      /\ warned' = warned /\ routes' = routes /\ fallbacks' = fallbacks
      /\ collected' = collected /\ completed' = completed /\ abandoned' = abandoned
  BY DEF NativeFails, diagnostics, Labels, QuarantineInv, QuarantineTyped
<1>2. QuarantineTyped'
  BY <1>1 DEF QuarantineInv, QuarantineTyped, Goto
<1>3. ASSUME NEW k \in Keys
      PROVE  warned'[k] + Warns(l, key[t], k) - Warns(route_pc[t], key[t], k)
               = warned[k] + Member(k, quarantined') - Member(k, quarantined)
  <2>1. Warns(route_pc[t], key[t], k) = 0
    BY <1>1 DEF Warns
  <2>2. CASE key[t] = k /\ k \notin quarantined
    <3>1. Warns(l, key[t], k) = 1 /\ Member(k, quarantined') = 1 /\ Member(k, quarantined) = 0
      BY <2>2, <1>1 DEF Warns, Member
    <3>2. warned'[k] = warned[k] /\ warned[k] \in Int
      BY <1>1 DEF QuarantineInv, QuarantineTyped
    <3> QED BY <2>1, <3>1, <3>2
  <2>3. CASE ~(key[t] = k /\ k \notin quarantined)
    <3>1. l = (IF key[t] \in quarantined THEN "record fallback" ELSE "warn")
          /\ quarantined' = quarantined \cup {key[t]}
      BY <1>1
    <3>2. Warns(l, key[t], k) = 0
      BY <2>3, <3>1 DEF Warns
    <3>3. Member(k, quarantined') = Member(k, quarantined)
      BY <2>3, <3>1 DEF Member
    <3>4. warned'[k] = warned[k]
      BY <1>1
    <3>5. QuarantineTyped
      BY DEF QuarantineInv
    <3>6. warned[k] \in Int /\ Member(k, quarantined) \in Int
      BY <3>5, WarningsAreNumbers
    <3>7. Balance(warned'[k], Warns(l, key[t], k), Warns(route_pc[t], key[t], k),
                 warned[k], Member(k, quarantined'), Member(k, quarantined))
      BY <2>1, <3>2, <3>3, <3>4, <3>6, Balanced
    <3> QED BY <3>7 DEF Balance
  <2> QED BY <2>2, <2>3
<1>4. Is(l, "fallback") = 0 /\ Is(route_pc[t], "fallback") = 0
  BY <1>1 DEF Is, Warns, Member
<1>5. "xpu" \in Routes /\ "eager" \in Routes
  BY DEF Routes
<1>7. /\ routes'["xpu"] - completed'["xpu"] = routes["xpu"] - completed["xpu"]
      /\ routes'["eager"] - completed'["eager"] - abandoned'
           = routes["eager"] - completed["eager"] - abandoned
               + Is(l, "fallback") - Is(route_pc[t], "fallback")
      /\ fallbacks' - routes'["eager"] <= fallbacks - routes["eager"]
  BY <1>1, <1>4, <1>5, UnmovedCounters DEF QuarantineInv
<1>8. collected' = collected /\ key' = key /\ l \in Labels
  BY <1>1
<1> QED BY <1>1, <1>2, <1>3, <1>7, <1>8, Preserved

LEMMA WarnInv ==
  ASSUME IsFiniteSet(Threads), QuarantineInv, NEW t \in Threads, Warn(t) PROVE QuarantineInv'
<1>1. /\ route_pc[t] = "warn" /\ Goto(t, "record fallback") /\ "record fallback" \in Labels
      /\ quarantined' = quarantined /\ key' = key /\ key[t] \in Keys
      /\ routes' = routes /\ fallbacks' = fallbacks
      /\ collected' = collected /\ completed' = completed /\ abandoned' = abandoned
  BY DEF Warn, diagnostics, Labels, QuarantineInv, QuarantineTyped
<1>2. warned' \in [Keys -> Int] /\ warned'[key[t]] = warned[key[t]] + 1
      /\ \A k \in Keys : k # key[t] => warned'[k] = warned[k]
  <2>1. warned' = [warned EXCEPT ![key[t]] = @ + 1] /\ warned \in [Keys -> Int] /\ key[t] \in Keys
    BY DEF Warn, QuarantineInv, QuarantineTyped
  <2> QED BY <2>1, IncrementedInt
<1>6. QuarantineTyped'
  BY <1>1, <1>2 DEF QuarantineInv, QuarantineTyped, Goto
<1>3. ASSUME NEW k \in Keys
      PROVE  warned'[k] + Warns("record fallback", key[t], k) - Warns(route_pc[t], key[t], k)
               = warned[k] + Member(k, quarantined') - Member(k, quarantined)
  <2>1. Warns("record fallback", key[t], k) = 0
    BY DEF Warns
  <2>2. Member(k, quarantined') = Member(k, quarantined)
    BY <1>1
  <2>3. QuarantineTyped
    BY DEF QuarantineInv
  <2>4. warned[k] \in Int /\ Member(k, quarantined) \in Int
    BY <2>3, WarningsAreNumbers
  <2>5. CASE key[t] = k
    <3>1. Warns(route_pc[t], key[t], k) = 1
      BY <2>5, <1>1 DEF Warns
    <3>2. warned'[k] = warned[k] + 1
      BY <2>5, <1>2
    <3>3. Balance(warned'[k], Warns("record fallback", key[t], k), Warns(route_pc[t], key[t], k),
                 warned[k], Member(k, quarantined'), Member(k, quarantined))
      BY <2>1, <2>2, <2>4, <3>1, <3>2, Balanced
    <3> QED BY <3>3 DEF Balance
  <2>6. CASE key[t] # k
    <3>1. Warns(route_pc[t], key[t], k) = 0
      BY <2>6 DEF Warns
    <3>2. warned'[k] = warned[k]
      BY <2>6, <1>2
    <3>3. Balance(warned'[k], Warns("record fallback", key[t], k), Warns(route_pc[t], key[t], k),
                 warned[k], Member(k, quarantined'), Member(k, quarantined))
      BY <2>1, <2>2, <2>4, <3>1, <3>2, Balanced
    <3> QED BY <3>3 DEF Balance
  <2> QED BY <2>5, <2>6
<1>4. Is("record fallback", "fallback") = 0 /\ Is(route_pc[t], "fallback") = 0
  BY <1>1 DEF Is, Warns, Member
<1>5. "xpu" \in Routes /\ "eager" \in Routes
  BY DEF Routes
<1>7. /\ routes'["xpu"] - completed'["xpu"] = routes["xpu"] - completed["xpu"]
      /\ routes'["eager"] - completed'["eager"] - abandoned'
           = routes["eager"] - completed["eager"] - abandoned
               + Is("record fallback", "fallback") - Is(route_pc[t], "fallback")
      /\ fallbacks' - routes'["eager"] <= fallbacks - routes["eager"]
  BY <1>1, <1>4, <1>5, UnmovedCounters DEF QuarantineInv
<1>8. route_pc[t] # "record fallback"
  BY <1>1
<1> QED BY <1>1, <1>3, <1>6, <1>7, <1>8, Preserved

\* Steps that count: neither the warnings nor the quarantine move.
LEMMA CountingInv ==
  ASSUME IsFiniteSet(Threads), QuarantineInv, NEW t \in Threads, NEW l \in Labels,
         route_pc[t] # l, Goto(t, l), l # "warn", route_pc[t] # "warn", QuarantineTyped',
         key' = key, collected' = collected, warned' = warned, quarantined' = quarantined,
         routes'["xpu"] - completed'["xpu"] = routes["xpu"] - completed["xpu"],
         routes'["eager"] - completed'["eager"] - abandoned'
           = routes["eager"] - completed["eager"] - abandoned
               + Is(l, "fallback") - Is(route_pc[t], "fallback"),
         fallbacks' - routes'["eager"] <= fallbacks - routes["eager"]
  PROVE  QuarantineInv'
<1>1. ASSUME NEW k \in Keys
      PROVE  warned'[k] + Warns(l, key[t], k) - Warns(route_pc[t], key[t], k)
               = warned[k] + Member(k, quarantined') - Member(k, quarantined)
  <2>1. Warns(l, key[t], k) = 0 /\ Warns(route_pc[t], key[t], k) = 0
    BY DEF Is, Warns, Member
  <2>2. Member(k, quarantined) \in Int /\ warned[k] \in Int
    BY DEF Is, Warns, Member, QuarantineInv, QuarantineTyped
  <2> QED BY <2>1, <2>2
<1> QED BY <1>1, Preserved

LEMMA CountingStepsInv ==
  ASSUME IsFiniteSet(Threads), QuarantineInv, NEW t \in Threads,
         RecordFallback(t) \/ FallbackReturns(t) \/ FallbackRaises(t)
  PROVE  QuarantineInv'
<1>1. /\ routes["xpu"] \in Nat /\ routes["eager"] \in Nat /\ abandoned \in Nat
      /\ completed["xpu"] \in Nat /\ completed["eager"] \in Nat /\ fallbacks \in Nat
      /\ "eager" \in Routes /\ "xpu" \in Routes /\ "xpu" # "eager"
  BY DEF Routes, QuarantineInv, QuarantineTyped
<1>2. CASE RecordFallback(t)
  <2>1. /\ route_pc[t] = "record fallback" /\ Goto(t, "fallback") /\ "fallback" \in Labels
        /\ fallbacks' = fallbacks + 1
        /\ quarantined' = quarantined /\ key' = key /\ collected' = collected
        /\ completed' = completed /\ abandoned' = abandoned /\ warned' = warned
    BY <1>2 DEF RecordFallback, history, Labels
  <2>5. /\ routes' \in [Routes -> Nat]
        /\ routes'["eager"] = routes["eager"] + 1 /\ routes'["xpu"] = routes["xpu"]
    <3>1. routes' = [routes EXCEPT !["eager"] = @ + 1] /\ routes \in [Routes -> Nat]
      BY <1>2 DEF RecordFallback, QuarantineInv, QuarantineTyped
    <3> QED BY <1>1, <3>1, Incremented
  <2>2. routes'["eager"] = routes["eager"] + 1 /\ routes'["xpu"] = routes["xpu"]
    BY <2>5
  <2>7. completed' = completed /\ abandoned' = abandoned /\ fallbacks' = fallbacks + 1
    BY <2>1
  <2>6. fallbacks' \in Nat /\ routes' \in [Routes -> Nat]
    <3>1. fallbacks' \in Nat
      BY <1>1, <2>7
    <3> QED BY <3>1, <2>5
  <2>3. QuarantineTyped'
    BY <2>1, <2>6 DEF QuarantineInv, QuarantineTyped, Goto
  <2>4. Is("fallback", "fallback") = 1 /\ Is(route_pc[t], "fallback") = 0
    BY <2>1 DEF Is
  <2>8. routes'["xpu"] - completed'["xpu"] = routes["xpu"] - completed["xpu"]
    BY <1>1, <2>2, <2>7
  <2>9. routes'["eager"] - completed'["eager"] - abandoned'
          = routes["eager"] - completed["eager"] - abandoned
              + Is("fallback", "fallback") - Is(route_pc[t], "fallback")
    BY <1>1, <2>2, <2>7, <2>4
  <2>10. fallbacks' - routes'["eager"] <= fallbacks - routes["eager"]
    BY <1>1, <2>2, <2>7
  <2>11. "fallback" # "warn" /\ route_pc[t] # "warn" /\ route_pc[t] # "fallback"
    BY <2>1
  <2> QED BY <2>1, <2>3, <2>8, <2>9, <2>10, <2>11, CountingInv
<1>3. CASE FallbackReturns(t)
  <2>1. /\ route_pc[t] = "fallback" /\ Goto(t, "idle") /\ "idle" \in Labels
        /\ fallbacks' = fallbacks
        /\ quarantined' = quarantined /\ key' = key /\ collected' = collected
        /\ routes' = routes /\ abandoned' = abandoned /\ warned' = warned
    BY <1>3 DEF FallbackReturns, diagnostics, Labels
  <2>5. /\ completed' \in [Routes -> Nat]
        /\ completed'["eager"] = completed["eager"] + 1 /\ completed'["xpu"] = completed["xpu"]
    <3>1. completed' = [completed EXCEPT !["eager"] = @ + 1] /\ completed \in [Routes -> Nat]
      BY <1>3 DEF FallbackReturns, QuarantineInv, QuarantineTyped
    <3> QED BY <1>1, <3>1, Incremented
  <2>2. completed'["eager"] = completed["eager"] + 1 /\ completed'["xpu"] = completed["xpu"]
    BY <2>5
  <2>7. routes' = routes /\ abandoned' = abandoned /\ fallbacks' = fallbacks
    BY <2>1
  <2>6. fallbacks' \in Nat /\ completed' \in [Routes -> Nat]
    <3>1. fallbacks' \in Nat
      BY <1>1, <2>7
    <3> QED BY <3>1, <2>5
  <2>3. QuarantineTyped'
    BY <2>1, <2>6 DEF QuarantineInv, QuarantineTyped, Goto
  <2>4. Is("idle", "fallback") = 0 /\ Is(route_pc[t], "fallback") = 1
    BY <2>1 DEF Is
  <2>8. routes'["xpu"] - completed'["xpu"] = routes["xpu"] - completed["xpu"]
    BY <1>1, <2>2, <2>7
  <2>9. routes'["eager"] - completed'["eager"] - abandoned'
          = routes["eager"] - completed["eager"] - abandoned
              + Is("idle", "fallback") - Is(route_pc[t], "fallback")
    BY <1>1, <2>2, <2>7, <2>4
  <2>10. fallbacks' - routes'["eager"] <= fallbacks - routes["eager"]
    BY <1>1, <2>2, <2>7
  <2>11. "idle" # "warn" /\ route_pc[t] # "warn" /\ route_pc[t] # "idle"
    BY <2>1
  <2> QED BY <2>1, <2>3, <2>8, <2>9, <2>10, <2>11, CountingInv
<1>4. CASE FallbackRaises(t)
  <2>1. /\ route_pc[t] = "fallback" /\ Goto(t, "idle") /\ "idle" \in Labels
        /\ completed' = completed /\ fallbacks' = fallbacks
        /\ quarantined' = quarantined /\ key' = key /\ collected' = collected
        /\ routes' = routes /\ abandoned' = abandoned + 1 /\ warned' = warned
    BY <1>4 DEF FallbackRaises, diagnostics, Labels
  <2>7. /\ completed' = completed /\ routes' = routes /\ fallbacks' = fallbacks
        /\ abandoned' = abandoned + 1
    BY <2>1
  <2>2. QuarantineTyped'
    BY <1>1, <2>1 DEF QuarantineInv, QuarantineTyped, Goto
  <2>3. Is("idle", "fallback") = 0 /\ Is(route_pc[t], "fallback") = 1
    BY <2>1 DEF Is
  <2>8. routes'["xpu"] - completed'["xpu"] = routes["xpu"] - completed["xpu"]
    BY <1>1, <2>7
  <2>9. routes'["eager"] - completed'["eager"] - abandoned'
          = routes["eager"] - completed["eager"] - abandoned
              + Is("idle", "fallback") - Is(route_pc[t], "fallback")
    BY <1>1, <2>7, <2>3
  <2>10. fallbacks' - routes'["eager"] <= fallbacks - routes["eager"]
    BY <1>1, <2>7
  <2>11. "idle" # "warn" /\ route_pc[t] # "warn" /\ route_pc[t] # "idle"
    BY <2>1
  <2> QED BY <2>1, <2>2, <2>8, <2>9, <2>10, <2>11, CountingInv
<1> QED BY <1>2, <1>3, <1>4

LEMMA RecordCompletedInv ==
  ASSUME IsFiniteSet(Threads), QuarantineInv, NEW t \in Threads, NEW route \in Routes,
         RecordCompleted(t, route)
  PROVE  QuarantineInv'
<1>1. /\ routes["xpu"] \in Nat /\ routes["eager"] \in Nat /\ abandoned \in Nat
      /\ completed["xpu"] \in Nat /\ completed["eager"] \in Nat /\ fallbacks \in Nat
      /\ "eager" \in Routes /\ "xpu" \in Routes /\ "xpu" # "eager"
  BY DEF Routes, QuarantineInv, QuarantineTyped
<1>2. /\ route_pc[t] \in {"record native", "record eager"} /\ Goto(t, "idle") /\ "idle" \in Labels
      /\ fallbacks' = fallbacks
      /\ quarantined' = quarantined /\ key' = key /\ collected' = collected
      /\ abandoned' = abandoned /\ warned' = warned
  BY DEF RecordCompleted, Labels
<1>3. /\ routes' \in [Routes -> Nat]
      /\ routes'[route] = routes[route] + 1 /\ \A s \in Routes : s # route => routes'[s] = routes[s]
  <2>1. routes' = [routes EXCEPT ![route] = @ + 1] /\ routes \in [Routes -> Nat]
    BY DEF RecordCompleted, QuarantineInv, QuarantineTyped
  <2> QED BY <2>1, Incremented
<1>4. /\ completed' \in [Routes -> Nat]
      /\ completed'[route] = completed[route] + 1
      /\ \A s \in Routes : s # route => completed'[s] = completed[s]
  <2>1. completed' = [completed EXCEPT ![route] = @ + 1] /\ completed \in [Routes -> Nat]
    BY DEF RecordCompleted, QuarantineInv, QuarantineTyped
  <2> QED BY <2>1, Incremented
<1>5. QuarantineTyped'
  BY <1>2, <1>3, <1>4 DEF QuarantineInv, QuarantineTyped, Goto
<1>6. /\ routes'["xpu"] - completed'["xpu"] = routes["xpu"] - completed["xpu"]
      /\ routes'["eager"] - completed'["eager"] - abandoned'
           = routes["eager"] - completed["eager"] - abandoned
      /\ fallbacks' - routes'["eager"] <= fallbacks - routes["eager"]
  <2>3. routes'[route] = routes[route] + 1 /\ \A s \in Routes : s # route => routes'[s] = routes[s]
    BY <1>3
  <2>4. /\ completed'[route] = completed[route] + 1
        /\ \A s \in Routes : s # route => completed'[s] = completed[s]
    BY <1>4
  <2>5. fallbacks' = fallbacks /\ abandoned' = abandoned
    BY <1>2
  <2>1. CASE route = "xpu"
    BY <2>1, <1>1, <2>3, <2>4, <2>5
  <2>2. CASE route = "eager"
    BY <2>2, <1>1, <2>3, <2>4, <2>5
  <2> QED BY <2>1, <2>2 DEF Routes
<1>7. Is("idle", "fallback") = 0 /\ Is(route_pc[t], "fallback") = 0
  BY <1>2 DEF Is
<1>8. routes'["eager"] - completed'["eager"] - abandoned'
        = routes["eager"] - completed["eager"] - abandoned
            + Is("idle", "fallback") - Is(route_pc[t], "fallback")
  <2>1. abandoned' = abandoned
    BY <1>2
  <2> QED BY <1>1, <1>6, <1>7, <2>1
<1>9. route_pc[t] # "idle" /\ route_pc[t] # "warn" /\ "idle" # "warn"
  BY <1>2
<1> QED BY <1>2, <1>5, <1>6, <1>8, <1>9, CountingInv

LEMMA ResetDiagnosticsInv ==
  ASSUME IsFiniteSet(Threads), QuarantineInv, ResetDiagnostics PROVE QuarantineInv'
<1>1. "xpu" \in Routes /\ "eager" \in Routes
  BY DEF Routes
<1>2. /\ At("fallback")' = At("fallback") /\ \A k : Owed(k)' = Owed(k)
  BY DEF ResetDiagnostics, At, Owed
<1>3. QuarantineTyped'
  BY DEF ResetDiagnostics, QuarantineInv, QuarantineTyped
<1>4. EveryCallCountedOnce'
  BY <1>1, <1>2, CountsAreNumbers DEF ResetDiagnostics, QuarantineInv, QuarantineTyped, EveryCallCountedOnce, Counted
<1>5. WarnedOncePerRoute'
  BY <1>2 DEF ResetDiagnostics, QuarantineInv, WarnedOncePerRoute
<1> QED BY <1>3, <1>4, <1>5 DEF QuarantineInv

LEMMA ResetQuarantineInv ==
  ASSUME IsFiniteSet(Threads), QuarantineInv, ResetQuarantine PROVE QuarantineInv'
<1>1. /\ At("fallback")' = At("fallback") /\ \A k : Owed(k)' = Owed(k) /\ Owed(k) \in Nat
  BY CountsAreNumbers DEF ResetQuarantine, At, Owed
<1>2. QuarantineTyped'
  BY <1>1 DEF ResetQuarantine, QuarantineInv, QuarantineTyped, diagnostics
<1>3. EveryCallCountedOnce'
  BY <1>1 DEF ResetQuarantine, QuarantineInv, EveryCallCountedOnce, Counted, diagnostics
<1>4. WarnedOncePerRoute'
  BY <1>1 DEF ResetQuarantine, WarnedOncePerRoute
<1> QED BY <1>2, <1>3, <1>4 DEF QuarantineInv

LEMMA QuarantineNextInv == ASSUME IsFiniteSet(Threads), QuarantineInv, [QuarantineNext]_quarantine_vars PROVE QuarantineInv'
<1>1. CASE UNCHANGED quarantine_vars
  <2>1. At("fallback")' = At("fallback") /\ \A k : Owed(k)' = Owed(k)
    BY <1>1 DEF quarantine_vars, At, Owed
  <2>2. QuarantineTyped'
    BY <1>1 DEF quarantine_vars, diagnostics, history, QuarantineInv, QuarantineTyped
  <2>3. EveryCallCountedOnce'
    BY <1>1, <2>1 DEF quarantine_vars, diagnostics, history, QuarantineInv, EveryCallCountedOnce, Counted
  <2>4. WarnedOncePerRoute'
    BY <1>1, <2>1 DEF quarantine_vars, diagnostics, history, QuarantineInv, WarnedOncePerRoute
  <2> QED BY <2>2, <2>3, <2>4 DEF QuarantineInv
<1>2. ASSUME NEW t \in Threads, Step(t) PROVE QuarantineInv'
  BY <1>2, BeginCallInv, QuietStepsInv, NativeFailsInv, WarnInv, CountingStepsInv,
     RecordCompletedInv DEF Step
<1> QED BY <1>1, <1>2, ResetDiagnosticsInv, ResetQuarantineInv DEF QuarantineNext

\* Calls begun and not counted yet.
UncountedLabels == {"check", "native", "warn", "record fallback", "record native", "direct", "record eager"}
Uncounted == {t \in Threads : route_pc[t] \in UncountedLabels}
Awaits(l) == IF l \in UncountedLabels THEN 1 ELSE 0

\* A call is counted once, so the counts and what awaits one stay below the calls.
CallsBound ==
  /\ calls \in 0 .. MaxCalls
  /\ Counted("xpu") + Counted("eager") + Cardinality(Uncounted) <= calls

LEMMA UncountedNumber ==
  ASSUME IsFiniteSet(Threads) PROVE IsFiniteSet(Uncounted) /\ Cardinality(Uncounted) \in Nat
<1>1. Uncounted \subseteq Threads
  BY DEF Uncounted
<1> QED BY <1>1, FS_Subset, FS_CardinalityType

\* A thread that goes from a label to another.
LEMMA MoveUncounted ==
  ASSUME IsFiniteSet(Threads), QuarantineTyped, NEW t \in Threads, NEW l \in Labels, Goto(t, l)
  PROVE  Cardinality(Uncounted') = Cardinality(Uncounted) + Awaits(l) - Awaits(route_pc[t])
<1>1. route_pc' = [route_pc EXCEPT ![t] = l] /\ route_pc \in [Threads -> Labels]
  BY DEF Goto, QuarantineTyped
<1>2. CASE l \in UncountedLabels /\ route_pc[t] \notin UncountedLabels
  <2>1. Gains(Uncounted, Uncounted', t)
    BY <1>1, <1>2 DEF Gains, Uncounted
  <2> QED BY <2>1, <1>2, OneMoreOrLess, UncountedNumber DEF Awaits
<1>3. CASE l \notin UncountedLabels /\ route_pc[t] \in UncountedLabels
  <2>1. Loses(Uncounted, Uncounted', t)
    BY <1>1, <1>3 DEF Loses, Uncounted
  <2> QED BY <2>1, <1>3, OneMoreOrLess, UncountedNumber DEF Awaits
<1>4. CASE l \in UncountedLabels <=> route_pc[t] \in UncountedLabels
  <2>1. Uncounted' = Uncounted
    BY <1>1, <1>4 DEF Uncounted
  <2> QED BY <2>1, <1>4, UncountedNumber DEF Awaits
<1> QED BY <1>2, <1>3, <1>4

LEMMA CallsBoundKept ==
  ASSUME IsFiniteSet(Threads), QuarantineTyped, QuarantineTyped', CallsBound,
         NEW t \in Threads, NEW l \in Labels, Goto(t, l),
         calls' \in 0 .. MaxCalls, collected' = collected,
         routes'["xpu"] + routes'["eager"] + Awaits(l) - calls'
           <= routes["xpu"] + routes["eager"] + Awaits(route_pc[t]) - calls
  PROVE  CallsBound'
<1>1. Cardinality(Uncounted') = Cardinality(Uncounted) + Awaits(l) - Awaits(route_pc[t])
  BY MoveUncounted
<1>2. Cardinality(Uncounted) \in Nat /\ Awaits(l) \in Int /\ Awaits(route_pc[t]) \in Int
  BY UncountedNumber DEF Awaits
<1>3. /\ routes["xpu"] \in Nat /\ routes["eager"] \in Nat
      /\ routes'["xpu"] \in Nat /\ routes'["eager"] \in Nat
      /\ collected["xpu"] \in Nat /\ collected["eager"] \in Nat
      /\ calls \in Int /\ calls' \in Int
  BY MaxCallsAssumption DEF QuarantineTyped, Routes, CallsBound
<1>4. Counted("xpu")' + Counted("eager")' + Cardinality(Uncounted') <= calls'
  BY <1>1, <1>2, <1>3 DEF CallsBound, Counted
<1> QED BY <1>4 DEF CallsBound

LEMMA AtMostOne ==
  ASSUME NEW a, NEW b, a = 1, b = 0 \/ b = 1 PROVE b <= a
OBVIOUS

LEMMA CallsBoundStep ==
  ASSUME IsFiniteSet(Threads), QuarantineInv, QuarantineInv', CallsBound, NEW t \in Threads, Step(t)
  PROVE  CallsBound'
<1>1. QuarantineTyped /\ QuarantineTyped'
  BY DEF QuarantineInv
<1>2. /\ routes["xpu"] \in Nat /\ routes["eager"] \in Nat /\ calls \in 0 .. MaxCalls
      /\ routes \in [Routes -> Nat] /\ MaxCalls \in Nat
  BY <1>1, MaxCallsAssumption DEF QuarantineTyped, Routes, CallsBound
<1>3. ASSUME NEW k \in Keys, BeginCall(t, k) PROVE CallsBound'
  <2>1. PICK l \in {"check", "direct"} : Goto(t, l)
    BY <1>3 DEF BeginCall
  <2>2. l \in Labels /\ Awaits(l) = 1 /\ Awaits(route_pc[t]) = 0
    BY <1>3 DEF BeginCall, Labels, Awaits, UncountedLabels
  <2>3. calls' = calls + 1 /\ calls' \in 0 .. MaxCalls
    BY <1>2, <1>3 DEF BeginCall
  <2>4. collected' = collected /\ routes' = routes
    BY <1>3 DEF BeginCall, diagnostics, history
  <2> QED BY <1>1, <1>2, <2>1, <2>2, <2>3, <2>4, CallsBoundKept
<1>4. ASSUME \/ CheckQuarantine(t) \/ NativeReturns(t) \/ NativeRaises(t) \/ NativeFails(t) \/ Warn(t)
             \/ FallbackReturns(t) \/ FallbackRaises(t) \/ DirectReturns(t) \/ DirectRaises(t)
      PROVE  CallsBound'
  <2>1. PICK l \in Labels : Goto(t, l) /\ Awaits(l) <= Awaits(route_pc[t])
    <3>1. \/ \E l \in {"record fallback", "native", "record native", "warn", "record eager", "idle"} : Goto(t, l)
                /\ route_pc[t] \in UncountedLabels
          \/ route_pc[t] = "fallback" /\ Goto(t, "idle")
      <4>1. CASE CheckQuarantine(t)
        BY <4>1 DEF CheckQuarantine, UncountedLabels
      <4>2. CASE NativeReturns(t) \/ NativeRaises(t)
        BY <4>2 DEF NativeReturns, NativeRaises, UncountedLabels
      <4>3. CASE NativeFails(t)
        BY <4>3 DEF NativeFails, UncountedLabels
      <4>4. CASE Warn(t) \/ DirectReturns(t) \/ DirectRaises(t)
        BY <4>4 DEF Warn, DirectReturns, DirectRaises, UncountedLabels
      <4>5. CASE FallbackReturns(t) \/ FallbackRaises(t)
        BY <4>5 DEF FallbackReturns, FallbackRaises
      <4> QED BY <1>4, <4>1, <4>2, <4>3, <4>4, <4>5
    <3>2. CASE route_pc[t] = "fallback" /\ Goto(t, "idle")
      BY <3>2 DEF Awaits, UncountedLabels, Labels
    <3>3. ASSUME NEW l \in {"record fallback", "native", "record native", "warn", "record eager", "idle"},
                 route_pc[t] \in UncountedLabels
          PROVE  l \in Labels /\ Awaits(l) <= Awaits(route_pc[t])
      <4>1. l \in Labels
        BY DEF Labels
      <4>2. Awaits(route_pc[t]) = 1 /\ (Awaits(l) = 0 \/ Awaits(l) = 1)
        BY <3>3 DEF Awaits
      <4> QED BY <4>1, <4>2, AtMostOne
    <3> QED BY <3>1, <3>2, <3>3
  <2>2. calls' = calls /\ collected' = collected /\ routes' = routes
    BY <1>4 DEF CheckQuarantine, NativeReturns, NativeRaises, NativeFails, Warn, FallbackReturns,
       FallbackRaises, DirectReturns, DirectRaises, diagnostics, history
  <2>3. Awaits(l) \in Int /\ Awaits(route_pc[t]) \in Int
    BY DEF Awaits
  <2> QED BY <1>1, <1>2, <2>1, <2>2, <2>3, CallsBoundKept
<1>5. ASSUME NEW route \in Routes, NEW l \in Labels, Goto(t, l), Awaits(l) = 0, Awaits(route_pc[t]) = 1,
             routes' = [routes EXCEPT ![route] = @ + 1], calls' = calls, collected' = collected
      PROVE  CallsBound'
  <2>1. routes'["xpu"] + routes'["eager"] = routes["xpu"] + routes["eager"] + 1
    BY <1>2, <1>5 DEF Routes
  <2> QED BY <1>1, <1>2, <1>5, <2>1, CallsBoundKept
<1>6. CASE RecordFallback(t)
  <2>1. /\ "eager" \in Routes /\ "fallback" \in Labels
        /\ Awaits("fallback") = 0 /\ Awaits(route_pc[t]) = 1
    BY <1>6 DEF RecordFallback, Routes, Labels, Awaits, UncountedLabels
  <2> QED BY <1>5, <1>6, <2>1 DEF RecordFallback, history
<1>7. ASSUME NEW route \in Routes, RecordCompleted(t, route) PROVE CallsBound'
  <2>1. "idle" \in Labels /\ Awaits("idle") = 0 /\ Awaits(route_pc[t]) = 1
    BY <1>7 DEF RecordCompleted, Labels, Awaits, UncountedLabels
  <2> QED BY <1>5, <1>7, <2>1 DEF RecordCompleted
<1> QED BY <1>3, <1>4, <1>6, <1>7 DEF Step

LEMMA CallsBoundNext ==
  ASSUME IsFiniteSet(Threads), QuarantineInv, QuarantineInv', CallsBound,
         [QuarantineNext]_quarantine_vars
  PROVE  CallsBound'
<1>1. CASE ResetDiagnostics
  <2>1. calls' = calls /\ Uncounted' = Uncounted
    BY <1>1 DEF ResetDiagnostics, Uncounted
  <2>2. ASSUME NEW r \in Routes PROVE Counted(r)' = Counted(r)
    BY <1>1 DEF ResetDiagnostics, Counted, QuarantineInv, QuarantineTyped
  <2> QED BY <2>1, <2>2 DEF CallsBound, Routes
<1>2. CASE ResetQuarantine \/ UNCHANGED quarantine_vars
  BY <1>2 DEF ResetQuarantine, quarantine_vars, diagnostics, history, CallsBound, Counted, Uncounted
<1> QED BY <1>1, <1>2, CallsBoundStep DEF QuarantineNext

LEMMA CallsBoundInit == ASSUME IsFiniteSet(Threads) PROVE QuarantineInit => CallsBound
<1> SUFFICES ASSUME QuarantineInit PROVE CallsBound
  OBVIOUS
<1>1. Uncounted = {}
  BY DEF QuarantineInit, Uncounted, UncountedLabels
<1> QED
  BY <1>1, FS_EmptySet, MaxCallsAssumption DEF QuarantineInit, CallsBound, Counted, Routes

\* No counter exceeds the calls begun.
LEMMA CountersBounded ==
  ASSUME IsFiniteSet(Threads), QuarantineInv, CallsBound PROVE QuarantineTypeOK
<1>1. Cardinality(Uncounted) \in Nat /\ Cardinality(At("fallback")) \in Nat
  BY UncountedNumber, CountsAreNumbers
<1>2. QuarantineTyped /\ calls \in Nat
  BY MaxCallsAssumption DEF QuarantineInv, CallsBound
<1>3. /\ \A r \in Routes : routes[r] \in Nat /\ collected[r] \in Nat /\ completed[r] \in Nat
      /\ abandoned \in Nat /\ fallbacks \in Nat /\ "xpu" \in Routes /\ "eager" \in Routes
  BY <1>2 DEF QuarantineTyped, Routes
<1>4. /\ Counted("xpu") <= calls /\ Counted("eager") <= calls
  BY <1>1, <1>2, <1>3 DEF CallsBound, Counted
<1>5. \A r \in Routes : r = "xpu" \/ r = "eager"
  BY DEF Routes
<1>6. \A r \in Routes : routes[r] <= calls /\ collected[r] <= calls
  BY <1>2, <1>3, <1>4, <1>5 DEF Counted
<1>7. completed["xpu"] <= calls /\ completed["eager"] <= calls /\ abandoned <= calls /\ fallbacks <= calls
  BY <1>1, <1>2, <1>3, <1>4, <1>6 DEF QuarantineInv, EveryCallCountedOnce
<1>8. \A r \in Routes : completed[r] <= calls
  BY <1>5, <1>7
<1> QED
  BY <1>2, <1>3, <1>6, <1>7, <1>8 DEF QuarantineTyped, QuarantineTypeOK, CallsBound

\* The counters and the collected snapshots account for every call, whatever the
\* threads, the resets and the failures interleave.
THEOREM CallsCountedOnce == ASSUME IsFiniteSet(Threads) PROVE QuarantineSpec => []EveryCallCountedOnce
<1>1. QuarantineInit => QuarantineInv
  BY QuarantineInitInv
<1>2. QuarantineInv /\ [QuarantineNext]_quarantine_vars => QuarantineInv'
  BY QuarantineNextInv
<1>3. QuarantineInv => EveryCallCountedOnce
  BY DEF QuarantineInv
<1> QED BY <1>1, <1>2, <1>3, PTL DEF QuarantineSpec

\* A quarantined route has been warned about once, or its one warning is owed.
THEOREM RoutesWarnedOnce == ASSUME IsFiniteSet(Threads) PROVE QuarantineSpec => []WarnedOncePerRoute
<1>1. QuarantineInit => QuarantineInv
  BY QuarantineInitInv
<1>2. QuarantineInv /\ [QuarantineNext]_quarantine_vars => QuarantineInv'
  BY QuarantineNextInv
<1>3. QuarantineInv => WarnedOncePerRoute
  BY DEF QuarantineInv
<1> QED BY <1>1, <1>2, <1>3, PTL DEF QuarantineSpec

-----------------------------------------------------------------------------
(* Prepared weights, for any tensors and storages, when every tensor object    *)
(* has a storage of its own; PreparedAlias.cfg shows that the assumption is     *)
(* needed.  The mark of a tensor then is the form of its bytes, so each of the *)
(* checks of the mark is a check of the bytes; and the copy of a preparation   *)
(* that is not destructive was taken of unmarked bytes.                        *)

OwnStorage ==
  /\ StorageOf \in [Tensors -> Storages]
  /\ \A q, p \in Tensors : StorageOf[q] = StorageOf[p] => q = p


WeightTyped ==
  /\ bytes \in [Storages -> Forms]
  /\ marked \subseteq Tensors
  /\ prepared \in Seq(PreparedType)
  /\ pending \in {None} \cup [source : Tensors, destructive : BOOLEAN]

\* The mark is the form of the bytes.
MarkIsForm ==
  \A q \in Tensors : bytes[StorageOf[q]] = IF q \in marked THEN "unsigned" ELSE "signed"

\* The tensor being prepared has not been marked meanwhile.
PendingUnmarked == pending # None => pending.source \notin marked

CopiesConverted ==
  \A i \in DOMAIN prepared : ~prepared[i].destructive => prepared[i].copy = "unsigned"

WeightInv == WeightTyped /\ MarkIsForm /\ PendingUnmarked /\ CopiesConverted /\ LinearReadsConverted

LEMMA WeightInitInv == ASSUME OwnStorage PROVE WeightInit => WeightInv
<1> SUFFICES ASSUME WeightInit PROVE WeightInv
  OBVIOUS
<1>1. WeightTyped
  BY DEF WeightInit, WeightTyped, Forms
<1>2. MarkIsForm
  BY DEF WeightInit, MarkIsForm, OwnStorage
<1>3. PendingUnmarked /\ CopiesConverted /\ LinearReadsConverted
  BY DEF WeightInit, PendingUnmarked, CopiesConverted, LinearReadsConverted
<1> QED BY <1>1, <1>2, <1>3 DEF WeightInv

\* The record of a pending preparation.
LEMMA PendingRecord ==
  ASSUME WeightTyped, pending # None
  PROVE  /\ pending \in [source : Tensors, destructive : BOOLEAN]
         /\ pending.source \in Tensors /\ pending.destructive \in BOOLEAN
BY DEF WeightTyped

\* One preparation more.
LEMMA AppendPrepared ==
  ASSUME WeightTyped, NEW p \in PreparedType, prepared' = Append(prepared, p),
         CopiesConverted, ~p.destructive => p.copy = "unsigned"
  PROVE  prepared' \in Seq(PreparedType) /\ CopiesConverted'
<1>1. prepared' \in Seq(PreparedType) /\ Len(prepared') = Len(prepared) + 1
  BY DEF WeightTyped
<1>2. ASSUME NEW i \in DOMAIN prepared'
      PROVE  ~prepared'[i].destructive => prepared'[i].copy = "unsigned"
  <2>1. CASE i = Len(prepared) + 1
    BY <2>1, <1>1 DEF WeightTyped
  <2>2. CASE i # Len(prepared) + 1
    <3>1. i \in DOMAIN prepared /\ prepared'[i] = prepared[i]
      BY <2>2, <1>1 DEF WeightTyped
    <3> QED BY <3>1 DEF CopiesConverted
  <2> QED BY <2>1, <2>2
<1> QED BY <1>1, <1>2 DEF CopiesConverted

LEMMA ConvertInPlaceInv ==
  ASSUME OwnStorage, WeightInv, ConvertInPlace PROVE WeightInv'
<1> DEFINE q == pending.source
           p == [source |-> q, destructive |-> TRUE, copy |-> "none"]
<1>1. q \in Tensors /\ q \notin marked /\ StorageOf[q] \in Storages
  BY PendingRecord DEF WeightInv, ConvertInPlace, OwnStorage, PendingUnmarked
<1>2. bytes' = [bytes EXCEPT ![StorageOf[q]] = "unsigned"] /\ marked' = marked \cup {q}
  BY <1>1 DEF ConvertInPlace, Xor, WeightInv, WeightTyped, MarkIsForm
<1>3. p \in PreparedType
  BY <1>1 DEF PreparedType
<1>4. prepared' \in Seq(PreparedType) /\ CopiesConverted'
  BY <1>3, AppendPrepared DEF ConvertInPlace, WeightInv
<1>5. WeightTyped'
  BY <1>1, <1>2, <1>4 DEF ConvertInPlace, WeightInv, WeightTyped, Forms
<1>6. MarkIsForm'
  BY <1>1, <1>2 DEF WeightInv, WeightTyped, MarkIsForm, OwnStorage
<1> QED BY <1>4, <1>5, <1>6 DEF ConvertInPlace, WeightInv, PendingUnmarked, LinearReadsConverted

LEMMA ConvertCopyInv ==
  ASSUME OwnStorage, WeightInv, ConvertCopy PROVE WeightInv'
<1> DEFINE q == pending.source
           p == [source |-> q, destructive |-> FALSE, copy |-> Xor(bytes[StorageOf[q]])]
<1>1. q \in Tensors /\ q \notin marked
  BY PendingRecord DEF WeightInv, ConvertCopy, PendingUnmarked
<1>2. Xor(bytes[StorageOf[q]]) = "unsigned"
  BY <1>1 DEF WeightInv, MarkIsForm, Xor
<1>3. p \in PreparedType
  BY <1>1, <1>2 DEF PreparedType, Forms
<1>4. prepared' \in Seq(PreparedType) /\ CopiesConverted'
  BY <1>2, <1>3, AppendPrepared DEF ConvertCopy, WeightInv
<1> QED
  BY <1>4 DEF ConvertCopy, WeightInv, WeightTyped, MarkIsForm, PendingUnmarked, LinearReadsConverted

LEMMA PreparedAt ==
  ASSUME WeightTyped, NEW i \in DOMAIN prepared
  PROVE  /\ prepared[i] \in PreparedType
         /\ prepared[i].source \in Tensors /\ prepared[i].destructive \in BOOLEAN
<1>1. prepared[i] \in PreparedType
  BY DEF WeightTyped
<1> QED BY <1>1 DEF PreparedType

LEMMA RestoreInv ==
  ASSUME OwnStorage, WeightInv, NEW i \in DOMAIN prepared, Restore(prepared[i]) PROVE WeightInv'
<1> DEFINE q == prepared[i].source
<1>1. q \in Tensors /\ q \in marked /\ StorageOf[q] \in Storages
  BY PreparedAt DEF WeightInv, Restore, OwnStorage
<1>2. bytes' = [bytes EXCEPT ![StorageOf[q]] = "signed"] /\ marked' = marked \ {q}
  BY <1>1 DEF Restore, Xor, WeightInv, WeightTyped, MarkIsForm
<1>3. WeightTyped'
  BY <1>1, <1>2 DEF Restore, WeightInv, WeightTyped, Forms
<1>4. MarkIsForm'
  BY <1>1, <1>2 DEF WeightInv, WeightTyped, MarkIsForm, OwnStorage
<1> QED
  BY <1>3, <1>4 DEF Restore, WeightInv, PendingUnmarked, CopiesConverted, LinearReadsConverted

LEMMA LinearInv ==
  ASSUME OwnStorage, WeightInv, NEW i \in DOMAIN prepared, Linear(prepared[i]) PROVE WeightInv'
<1> DEFINE p == prepared[i]
<1>1. p.source \in Tensors /\ p.destructive \in BOOLEAN
  BY PreparedAt DEF WeightInv
<1>2. Packed(p) = "unsigned"
  <2>1. CASE p.destructive
    BY <2>1, <1>1 DEF Linear, Valid, Packed, WeightInv, MarkIsForm
  <2>2. CASE ~p.destructive
    BY <2>2 DEF Packed, WeightInv, CopiesConverted
  <2> QED BY <2>1, <2>2
<1>3. LinearReadsConverted'
  BY <1>2 DEF Linear, LinearReadsConverted
<1> QED
  BY <1>3 DEF Linear, WeightInv, WeightTyped, MarkIsForm, PendingUnmarked, CopiesConverted

LEMMA WeightNextInv == ASSUME OwnStorage, WeightInv, [WeightNext]_weight_vars PROVE WeightInv'
<1>1. ASSUME NEW q \in Tensors, NEW destructive \in BOOLEAN, Prepare(q, destructive) PROVE WeightInv'
  BY <1>1 DEF Prepare, WeightInv, WeightTyped, MarkIsForm, PendingUnmarked, CopiesConverted, LinearReadsConverted
<1>2. CASE OutOfMemory
  BY <1>2 DEF OutOfMemory, WeightInv, WeightTyped, MarkIsForm, PendingUnmarked, CopiesConverted, LinearReadsConverted
<1>3. CASE UNCHANGED weight_vars
  BY <1>3 DEF weight_vars, WeightInv, WeightTyped, MarkIsForm, PendingUnmarked, CopiesConverted, LinearReadsConverted
<1> QED
  BY <1>1, <1>2, <1>3, ConvertInPlaceInv, ConvertCopyInv, RestoreInv, LinearInv DEF WeightNext

\* Only tensors that were prepared are marked, and a call multiplied with one of two forms.
LEMMA WeightTypeOKNext ==
  ASSUME OwnStorage, WeightInv, WeightInv', WeightTypeOK, [WeightNext]_weight_vars
  PROVE  WeightTypeOK'
<1>1. WeightTyped /\ WeightTyped'
  BY DEF WeightInv
<1>2. ASSUME NEW p, prepared' = Append(prepared, p), marked' \subseteq marked \cup {p.source}, p \in PreparedType
      PROVE  marked' \subseteq {prepared'[i].source : i \in DOMAIN prepared'}
  <2>1. /\ \A i \in DOMAIN prepared : i \in DOMAIN prepared' /\ prepared'[i] = prepared[i]
        /\ Len(prepared) + 1 \in DOMAIN prepared' /\ prepared'[Len(prepared) + 1] = p
    BY <1>1, <1>2 DEF WeightTyped
  <2> QED BY <2>1, <1>2 DEF WeightTypeOK
<1>3. CASE ConvertInPlace
  <2> DEFINE p == [source |-> pending.source, destructive |-> TRUE, copy |-> "none"]
  <2>1. p \in PreparedType
    BY <1>1, <1>3, PendingRecord DEF ConvertInPlace, PreparedType
  <2>2. marked' \subseteq {prepared'[i].source : i \in DOMAIN prepared'}
    BY <2>1, <1>2, <1>3 DEF ConvertInPlace
  <2> QED BY <2>2, <1>1, <1>3 DEF ConvertInPlace, WeightTypeOK, WeightTyped
<1>4. CASE ConvertCopy
  <2> DEFINE p == [source |-> pending.source, destructive |-> FALSE,
                   copy |-> Xor(bytes[StorageOf[pending.source]])]
  <2>1. p \in PreparedType
    BY <1>1, <1>4, PendingRecord DEF ConvertCopy, PreparedType, Xor, Forms
  <2>2. marked' \subseteq {prepared'[i].source : i \in DOMAIN prepared'}
    BY <2>1, <1>2, <1>4 DEF ConvertCopy
  <2> QED BY <2>2, <1>1, <1>4 DEF ConvertCopy, WeightTypeOK, WeightTyped
<1>5. ASSUME NEW i \in DOMAIN prepared, Restore(prepared[i]) PROVE WeightTypeOK'
  BY <1>1, <1>5 DEF Restore, WeightTypeOK, WeightTyped
<1>6. ASSUME NEW i \in DOMAIN prepared, Linear(prepared[i]) PROVE WeightTypeOK'
  <2>1. prepared[i].source \in Tensors /\ prepared[i].destructive \in BOOLEAN /\ prepared[i] \in PreparedType
    BY <1>1, PreparedAt
  <2>2. bytes[StorageOf[prepared[i].source]] \in Forms
    BY <2>1, <1>1 DEF OwnStorage, WeightTyped
  <2>3. ~prepared[i].destructive => prepared[i].copy \in Forms
    BY <2>1 DEF PreparedType
  <2>4. Packed(prepared[i]) \in Forms
    BY <2>1, <2>2, <2>3 DEF Packed
  <2> QED BY <2>4, <1>6 DEF Linear, WeightTypeOK
<1>7. ASSUME NEW q \in Tensors, NEW destructive \in BOOLEAN, Prepare(q, destructive) PROVE WeightTypeOK'
  BY <1>1, <1>7 DEF Prepare, WeightTypeOK, WeightTyped
<1>8. CASE OutOfMemory
  BY <1>1, <1>8 DEF OutOfMemory, WeightTypeOK, WeightTyped
<1>9. CASE UNCHANGED weight_vars
  BY <1>1, <1>9 DEF weight_vars, WeightTypeOK, WeightTyped
<1> QED BY <1>3, <1>4, <1>5, <1>6, <1>7, <1>8, <1>9 DEF WeightNext

LEMMA WeightTypeOKInit == ASSUME OwnStorage PROVE WeightInit => WeightTypeOK
BY DEF WeightInit, WeightTypeOK, Forms

\* The bytes a validated linear multiplies with are unsigned, however preparations,
\* failures, restores and calls through any of the prepared objects follow each other.
THEOREM ConvertedBytesMultiplied == ASSUME OwnStorage PROVE WeightSpec => []LinearReadsConverted
<1>1. WeightInit => WeightInv
  BY WeightInitInv
<1>2. WeightInv /\ [WeightNext]_weight_vars => WeightInv'
  BY WeightNextInv
<1>3. WeightInv => LinearReadsConverted
  BY DEF WeightInv
<1> QED BY <1>1, <1>2, <1>3, PTL DEF WeightSpec

\* An unmarked tensor has the bytes of the checkpoint.
THEOREM CheckpointBytesKept == ASSUME OwnStorage PROVE WeightSpec => []UnmarkedIsCheckpoint
<1>1. WeightInit => WeightInv
  BY WeightInitInv
<1>2. WeightInv /\ [WeightNext]_weight_vars => WeightInv'
  BY WeightNextInv
<1>3. WeightInv => UnmarkedIsCheckpoint
  BY DEF WeightInv, MarkIsForm, UnmarkedIsCheckpoint
<1> QED BY <1>1, <1>2, <1>3, PTL DEF WeightSpec

\* No step of a preparation turns converted bytes back: the tensor it converts was not
\* marked when it began, is not marked now, and so has the bytes of the checkpoint.
THEOREM PreparationsAreOneShot == ASSUME OwnStorage PROVE WeightSpec => OneShot
<1>1. WeightInit => WeightInv
  BY WeightInitInv
<1>2. WeightInv /\ [WeightNext]_weight_vars => WeightInv'
  BY WeightNextInv
<1>3. ASSUME WeightInv, [WeightNext]_weight_vars
      PROVE  [\A s \in Storages : bytes[s] = "unsigned" /\ pending # None
                => bytes'[s] = "unsigned"]_weight_vars
  <2> SUFFICES ASSUME NEW s \in Storages, WeightNext, bytes[s] = "unsigned", pending # None
               PROVE  bytes'[s] = "unsigned"
    BY <1>3
  <2>1. CASE ConvertInPlace
    <3>1. pending.source \in Tensors /\ pending.source \notin marked
      BY <1>3, <2>1, PendingRecord DEF WeightInv, PendingUnmarked, ConvertInPlace
    <3>2. bytes[StorageOf[pending.source]] = "signed"
      BY <1>3, <3>1 DEF WeightInv, MarkIsForm
    <3> QED BY <1>3, <2>1, <3>2 DEF ConvertInPlace, WeightInv, WeightTyped
  <2>2. CASE OutOfMemory \/ ConvertCopy
    BY <2>2 DEF OutOfMemory, ConvertCopy
  <2> QED BY <2>1, <2>2 DEF WeightNext, Prepare, Restore, Linear
<1> QED BY <1>1, <1>2, <1>3, PTL DEF WeightSpec, OneShot

-----------------------------------------------------------------------------
(* The caches of the CUDA backend, for any threads, streams, shapes and ids.    *)
(* Of the workspaces: no buffer is used on two streams at once (OneStreamPer-   *)
(* Buffer), so the order of a stream orders all that touches a buffer, and the  *)
(* last write before a queued matmul is the quantization of its own forward     *)
(* (QueuedMatmuls); so it is for the next matmul of a forward under way.        *)

Kernels == [kind : {"quantize", "mm"}, buffer : Nat, of : 1 .. MaxForwards]
UnderWay == [number : 1 .. MaxForwards, buffer : Nat, left : 1 .. MaxLinears]
Entries == {e \in [id : Ids, tensor : 1 .. MaxTables, packed : 1 .. MaxTables, cleared : BOOLEAN] :
              e.packed = e.tensor}

DeviceTyped ==
  /\ \A k \in DOMAIN workspaces : k \in Streams \X Shapes
  /\ content \in Seq(0 .. MaxForwards)
  /\ queue \in [Streams -> Seq(Kernels)]
  /\ current \in [Callers -> Streams]
  /\ forward \in [Callers -> {NoForward} \cup UnderWay]
  /\ forwards \in 0 .. MaxForwards

RopeTyped ==
  /\ DOMAIN live \subseteq Ids
  /\ \A i \in DOMAIN live : live[i] \in 1 .. tables
  /\ tables \in 0 .. MaxTables
  /\ fab \subseteq Entries
  /\ building \in [Callers -> {NoEntry} \cup Entries]

-----------------------------------------------------------------------------
(* Rope tables: an entry holds the table of the tensor its weak reference     *)
(* names, from the moment a call begins to build it.                          *)

RopeInv == RopeTyped /\ TableOfGivenTensor

LEMMA RopeInitInv == DeviceInit => RopeInv
BY BoundsAssumption DEF DeviceInit, RopeInv, RopeTyped, TableOfGivenTensor

LEMMA LookupInv ==
  ASSUME RopeInv, NEW t \in Callers, NEW i \in Ids, Lookup(t, i) PROVE RopeInv'
<1>1. live[i] \in 1 .. MaxTables
  BY BoundsAssumption DEF RopeInv, RopeTyped, Lookup
<1>2. CASE Hit(i) # {}
  <2>1. \A e \in Hit(i) : e.packed = live[i]
    BY DEF Hit, RopeInv, RopeTyped, Entries
  <2> QED BY <1>2, <2>1 DEF Lookup, RopeInv, RopeTyped, TableOfGivenTensor
<1>3. CASE Hit(i) = {}
  <2> DEFINE e == [id |-> i, tensor |-> live[i], packed |-> live[i], cleared |-> FALSE]
  <2>1. e \in Entries
    BY <1>1 DEF Entries
  <2>2. building' = [building EXCEPT ![t] = e] /\ UNCHANGED <<live, tables, fab, rotated>>
    BY <1>3 DEF Lookup
  <2> HIDE DEF e
  <2> QED BY <2>1, <2>2 DEF RopeInv, RopeTyped, TableOfGivenTensor
<1> QED BY <1>2, <1>3

LEMMA ClearInv == ASSUME RopeInv, NEW t \in Callers, Clear(t) PROVE RopeInv'
<1> DEFINE e == [building[t] EXCEPT !.cleared = TRUE]
<1>1. e \in Entries
  BY DEF Clear, RopeInv, RopeTyped, Entries
<1>2. building' = [building EXCEPT ![t] = e] /\ fab' = {} /\ UNCHANGED <<live, tables, rotated>>
  BY DEF Clear, RopeInv, RopeTyped
<1> HIDE DEF e
<1> QED BY <1>1, <1>2 DEF RopeInv, RopeTyped, TableOfGivenTensor

LEMMA StoreInv == ASSUME RopeInv, NEW t \in Callers, Store(t) PROVE RopeInv'
<1>1. building[t] \in Entries
  BY DEF Store, RopeInv, RopeTyped, NoEntry
<1>2. building[t].tensor = building[t].packed
  BY <1>1 DEF Entries
<1> QED BY <1>1, <1>2 DEF Store, RopeInv, RopeTyped, TableOfGivenTensor

LEMMA TablesInv ==
  ASSUME RopeInv, NEW i \in Ids, MakeTable(i) \/ FreeTable(i) PROVE RopeInv'
<1>1. CASE MakeTable(i)
  <2>1. tables' \in 0 .. MaxTables /\ tables' = tables + 1
    BY <1>1, BoundsAssumption DEF MakeTable, RopeInv, RopeTyped
  <2>2. \A j \in DOMAIN live' : live'[j] \in 1 .. tables'
    BY <1>1, <2>1 DEF MakeTable, RopeInv, RopeTyped
  <2> QED BY <1>1, <2>1, <2>2 DEF MakeTable, RopeInv, RopeTyped, TableOfGivenTensor
<1>2. CASE FreeTable(i)
  BY <1>2 DEF FreeTable, RopeInv, RopeTyped, TableOfGivenTensor
<1> QED BY <1>1, <1>2

LEMMA RopeNextInv == ASSUME RopeInv, [DeviceNext]_device_vars PROVE RopeInv'
<1>1. CASE UNCHANGED rope
  BY <1>1 DEF rope, RopeInv, RopeTyped, TableOfGivenTensor
<1>2. CASE NextRotate
  BY <1>2, LookupInv, ClearInv, StoreInv, TablesInv DEF NextRotate, Rotate
<1> QED BY <1>1, <1>2 DEF DeviceNext, NextForward, device_vars

-----------------------------------------------------------------------------
(* The SVDQuant workspace. *)

\* Buffer b is bound to stream s: cached under it, named by a kernel queued on it,
\* or by the forward of a thread on it.
Uses(s, b) ==
  \/ \E k \in DOMAIN workspaces : k[1] = s /\ workspaces[k] = b
  \/ \E i \in DOMAIN queue[s] : queue[s][i].buffer = b
  \/ \E t \in Callers : current[t] = s /\ forward[t] # NoForward /\ forward[t].buffer = b

\* A buffer never meets two streams, so the order of one stream is the order of
\* everything that touches it.
OneStreamPerBuffer ==
  \A s \in Streams : \A b : Uses(s, b) => b \in Buffers /\ \A r \in Streams : Uses(r, b) => r = s

Writes(op, b) == op.kind = "quantize" /\ op.buffer = b

\* When the kernels of q before position i have run on buffers that held `held`,
\* buffer b holds f.
Holds(held, q, i, b, f) ==
  \/ \E j \in 1 .. i - 1 : Writes(q[j], b) /\ q[j].of = f /\ \A n \in j + 1 .. i - 1 : ~Writes(q[n], b)
  \/ held[b] = f /\ \A n \in 1 .. i - 1 : ~Writes(q[n], b)

QueuedMatmuls ==
  \A s \in Streams : \A i \in DOMAIN queue[s] :
    queue[s][i].kind = "mm" => Holds(content, queue[s], i, queue[s][i].buffer, queue[s][i].of)

ForwardsUnderWay ==
  \A t \in Callers : forward[t] # NoForward =>
    Holds(content, queue[current[t]], Len(queue[current[t]]) + 1, forward[t].buffer, forward[t].number)

SVDQuantInv ==
  /\ DeviceTyped /\ OneStreamPerBuffer
  /\ QueuedMatmuls /\ ForwardsUnderWay /\ MatmulReadsItsActivation

LEMMA SVDQuantInitInv == DeviceInit => SVDQuantInv
<1> SUFFICES ASSUME DeviceInit PROVE SVDQuantInv
  OBVIOUS
<1>1. DeviceTyped
  BY BoundsAssumption DEF DeviceInit, DeviceTyped
<1>2. \A s \in Streams : queue[s] = <<>> /\ DOMAIN queue[s] = {}
  BY DEF DeviceInit
<1>3. DOMAIN workspaces = {}
  BY DEF DeviceInit
<1>4. \A s \in Streams : \A b : ~Uses(s, b)
  BY <1>2, <1>3 DEF Uses, DeviceInit
<1>5. OneStreamPerBuffer
  BY <1>4 DEF OneStreamPerBuffer
<1>6. QueuedMatmuls
  BY <1>2 DEF QueuedMatmuls
<1>7. ForwardsUnderWay /\ MatmulReadsItsActivation
  BY DEF DeviceInit, ForwardsUnderWay, MatmulReadsItsActivation
<1> QED BY <1>1, <1>5, <1>6, <1>7 DEF SVDQuantInv

\* Issuing a kernel leaves what the queue held.
LEMMA Issued ==
  ASSUME DeviceTyped, NEW s \in Streams, NEW op \in Kernels, Issue(s, op)
  PROVE  /\ queue' \in [Streams -> Seq(Kernels)]
         /\ \A r \in Streams \ {s} : queue'[r] = queue[r]
         /\ DOMAIN queue'[s] = 1 .. Len(queue[s]) + 1
         /\ Len(queue'[s]) = Len(queue[s]) + 1
         /\ queue'[s][Len(queue[s]) + 1] = op
         /\ \A i \in 1 .. Len(queue[s]) : queue'[s][i] = queue[s][i]
<1>1. queue[s] \in Seq(Kernels) /\ queue' = [queue EXCEPT ![s] = Append(queue[s], op)]
  BY DEF DeviceTyped, Issue
<1>2. queue'[s] = Append(queue[s], op)
  BY <1>1 DEF DeviceTyped
<1>3. Append(queue[s], op) \in Seq(Kernels)
  BY <1>1
<1>4. queue' \in [Streams -> Seq(Kernels)]
  BY <1>1, <1>3 DEF DeviceTyped
<1>5. \A r \in Streams \ {s} : queue'[r] = queue[r]
  BY <1>1 DEF DeviceTyped
<1> QED BY <1>1, <1>2, <1>4, <1>5

SameBefore(q, r, i) == \A j \in 1 .. i - 1 : q[j] = r[j]

\* What a prefix of a queue leaves in a buffer does not change with what follows it,
\* nor with what is appended to the contents.
LEMMA HoldsKept ==
  ASSUME NEW held, NEW then, NEW q, NEW r, NEW i \in Nat, NEW b, NEW f,
         SameBefore(q, r, i), then[b] = held[b], Holds(held, q, i, b, f)
  PROVE  Holds(then, r, i, b, f)
BY DEF Holds, SameBefore

\* One kernel later, one that does not write the buffer.
LEMMA HoldsPast ==
  ASSUME NEW held, NEW q, NEW i \in Nat \ {0}, NEW b, NEW f,
         ~Writes(q[i], b), Holds(held, q, i, b, f)
  PROVE  Holds(held, q, i + 1, b, f)
<1>1. 1 .. (i + 1) - 1 = (1 .. i - 1) \cup {i}
  OBVIOUS
<1>2. \A j \in 1 .. i - 1 : j + 1 .. (i + 1) - 1 = (j + 1 .. i - 1) \cup {i}
  OBVIOUS
<1> QED BY <1>1, <1>2 DEF Holds

LEMMA KernelAt ==
  ASSUME DeviceTyped, NEW s \in Streams
  PROVE  /\ queue[s] \in Seq(Kernels) /\ Len(queue[s]) \in Nat
         /\ DOMAIN queue[s] = 1 .. Len(queue[s])
         /\ \A i \in DOMAIN queue[s] : queue[s][i] \in Kernels /\ queue[s][i].buffer \in Nat
                                        /\ queue[s][i].of \in 1 .. MaxForwards
<1>1. queue[s] \in Seq(Kernels)
  BY DEF DeviceTyped
<1>2. \A i \in DOMAIN queue[s] : queue[s][i] \in Kernels
  BY <1>1
<1> QED BY <1>1, <1>2 DEF Kernels

LEMMA NumbersTo == ASSUME NEW n \in Nat PROVE Cardinality(1 .. n) = n
BY FS_Interval

LEMMA BuffersAreNumbered ==
  ASSUME DeviceTyped PROVE Buffers = 1 .. Len(content) /\ Fresh = Len(content) + 1
<1>1. Buffers = 1 .. Len(content) /\ Len(content) \in Nat
  BY DEF DeviceTyped, Buffers
<1>2. Cardinality(1 .. Len(content)) = Len(content)
  BY <1>1, NumbersTo
<1> QED BY <1>1, <1>2 DEF Fresh

\* A step that binds no buffer but b to a stream, and b only if it is its own or new.
LEMMA OneStreamKept ==
  ASSUME OneStreamPerBuffer, NEW s \in Streams, NEW b,
         Buffers \subseteq Buffers', b \in Buffers',
         Uses(s, b) \/ b \notin Buffers,
         \A r \in Streams : \A c : Uses(r, c)' => Uses(r, c) \/ (r = s /\ c = b)
  PROVE  OneStreamPerBuffer'
<1> SUFFICES ASSUME NEW r \in Streams, NEW c, Uses(r, c)'
             PROVE c \in Buffers' /\ \A u \in Streams : Uses(u, c)' => u = r
  BY DEF OneStreamPerBuffer
<1>1. c \in Buffers'
  BY DEF OneStreamPerBuffer
<1>2. ASSUME NEW u \in Streams, Uses(u, c)' PROVE u = r
  <2>1. CASE c # b
    BY <2>1, <1>2 DEF OneStreamPerBuffer
  <2>2. CASE c = b
    BY <2>2, <1>2 DEF OneStreamPerBuffer
  <2> QED BY <2>1, <2>2
<1> QED BY <1>1, <1>2

\* The first layer of a forward: its activation is last in the queue, and no other
\* forward is under way on the stream.
LEMMA QuantizeInv ==
  ASSUME SVDQuantInv, NEW t \in Callers, NEW shape \in Shapes,
         NEW linears \in 1 .. MaxLinears, NEW reuse \in BOOLEAN, Quantize(t, shape, linears, reuse)
  PROVE  SVDQuantInv'
<1> DEFINE s == current[t]
           hit == reuse /\ Key(t, shape) \in DOMAIN workspaces
           b == IF hit THEN workspaces[Key(t, shape)] ELSE Fresh
           op == [kind |-> "quantize", buffer |-> b, of |-> forwards + 1]
           n == Len(queue[s])
           fw == [number |-> forwards + 1, buffer |-> b, left |-> linears]
<1>1. s \in Streams /\ forwards + 1 \in 1 .. MaxForwards /\ DeviceTyped /\ OneStreamPerBuffer
  BY BoundsAssumption DEF SVDQuantInv, DeviceTyped, Quantize
<1>2. /\ Issue(s, op)
      /\ forward' = [forward EXCEPT ![t] = fw]
      /\ content' = IF hit THEN content ELSE Append(content, 0)
      /\ workspaces' = IF reuse /\ ~hit
                       THEN [k \in DOMAIN workspaces \cup {Key(t, shape)} |->
                               IF k = Key(t, shape) THEN b ELSE workspaces[k]]
                       ELSE workspaces
      /\ forwards' = forwards + 1 /\ current' = current /\ multiplied' = multiplied
  BY DEF Quantize
<1>3. Buffers = 1 .. Len(content) /\ Fresh = Len(content) + 1 /\ Len(content) \in Nat
  BY <1>1, BuffersAreNumbered DEF DeviceTyped
<1>4. current[t] = s
  OBVIOUS
<1>5. Uses(s, b) \/ b \notin Buffers
  <2>1. CASE hit
    BY <2>1 DEF Uses, Key
  <2>2. CASE ~hit
    BY <2>2, <1>3
  <2> QED BY <2>1, <2>2
<1>6. /\ content' \in Seq(0 .. MaxForwards) /\ Buffers \subseteq Buffers' /\ b \in Buffers' /\ b \in Nat
      /\ \A c \in Buffers : content'[c] = content[c]
  <2>1. CASE hit
    <3>1. b \in Buffers
      BY <2>1, <1>1 DEF Uses, Key, OneStreamPerBuffer
    <3> QED BY <2>1, <3>1, <1>1, <1>2, <1>3 DEF DeviceTyped, Buffers
  <2>2. CASE ~hit
    <3>1. content' = Append(content, 0) /\ b = Len(content) + 1 /\ 0 \in 0 .. MaxForwards
      BY <2>2, <1>2, <1>3, BoundsAssumption
    <3>2. content' \in Seq(0 .. MaxForwards) /\ Len(content') = Len(content) + 1
      BY <3>1, <1>1 DEF DeviceTyped
    <3>3. \A c \in 1 .. Len(content) : content'[c] = content[c]
      BY <3>1, <1>1 DEF DeviceTyped
    <3>4. Buffers' = 1 .. Len(content) + 1
      BY <3>2, <1>3 DEF Buffers
    <3> QED BY <3>1, <3>2, <3>3, <3>4, <1>3
  <2> QED BY <2>1, <2>2
<1>7. op \in Kernels
  BY <1>1, <1>6 DEF Kernels
<1>8. fw \in UnderWay /\ fw # NoForward
  BY <1>1, <1>6 DEF UnderWay, NoForward
<1>9. DeviceTyped'
  <2>1. queue' \in [Streams -> Seq(Kernels)]
    BY <1>1, <1>2, <1>7, Issued
  <2>2. \A k \in DOMAIN workspaces' : k \in Streams \X Shapes
    BY <1>1, <1>2 DEF Key, DeviceTyped
  <2> HIDE DEF fw
  <2>3. forward' \in [Callers -> {NoForward} \cup UnderWay]
    BY <1>1, <1>2, <1>8 DEF DeviceTyped
  <2> QED BY <2>1, <2>2, <2>3, <1>1, <1>2, <1>6 DEF DeviceTyped
<1>10. /\ DOMAIN queue'[s] = 1 .. n + 1 /\ Len(queue'[s]) = n + 1 /\ queue'[s][n + 1] = op
       /\ \A i \in 1 .. n : queue'[s][i] = queue[s][i]
       /\ \A r \in Streams \ {s} : queue'[r] = queue[r]
  BY <1>1, <1>2, <1>7, Issued
<1>11. DOMAIN queue[s] = 1 .. n /\ n \in Nat
  BY <1>1, KernelAt
<1>12. op.buffer = b /\ op.kind = "quantize" /\ op.of = forwards + 1
  OBVIOUS
<1>13. fw.buffer = b /\ fw.number = forwards + 1
  OBVIOUS
<1>14. forward'[t] = fw /\ \A u \in Callers \ {t} : forward'[u] = forward[u]
  BY <1>1, <1>2 DEF DeviceTyped
<1> HIDE DEF op, fw
<1>15. \A r \in Streams : \A c : Uses(r, c)' => Uses(r, c) \/ (r = s /\ c = b)
  <2> SUFFICES ASSUME NEW r \in Streams, NEW c, Uses(r, c)', ~(r = s /\ c = b) PROVE Uses(r, c)
    OBVIOUS
  <2>1. ASSUME NEW k \in DOMAIN workspaces', k[1] = r, workspaces'[k] = c PROVE Uses(r, c)
    <3>1. k \in DOMAIN workspaces /\ workspaces[k] = c
      BY <2>1, <1>2 DEF Key
    <3> QED BY <3>1, <2>1 DEF Uses
  <2>2. ASSUME NEW i \in DOMAIN queue'[r], queue'[r][i].buffer = c PROVE Uses(r, c)
    <3>1. i \in DOMAIN queue[r] /\ queue[r][i].buffer = c
      <4>1. CASE r = s
        <5>1. i \in 1 .. n + 1 /\ i # n + 1
          BY <4>1, <2>2, <1>10, <1>12
        <5> QED BY <5>1, <4>1, <2>2, <1>10, <1>11
      <4>2. CASE r # s
        BY <4>2, <2>2, <1>10
      <4> QED BY <4>1, <4>2
    <3> QED BY <3>1 DEF Uses
  <2>3. ASSUME NEW u \in Callers, current'[u] = r, forward'[u] # NoForward, forward'[u].buffer = c
        PROVE Uses(r, c)
    <3>1. u # t
      BY <2>3, <1>2, <1>13, <1>14
    <3> QED BY <3>1, <2>3, <1>2, <1>14 DEF Uses
  <2> QED BY <2>1, <2>2, <2>3 DEF Uses
<1>16. OneStreamPerBuffer'
  BY <1>1, <1>5, <1>6, <1>15, OneStreamKept
<1>17. QueuedMatmuls'
  <2> SUFFICES ASSUME NEW r \in Streams, NEW i \in DOMAIN queue'[r], queue'[r][i].kind = "mm"
               PROVE Holds(content', queue'[r], i, queue'[r][i].buffer, queue'[r][i].of)
    BY DEF QueuedMatmuls
  <2>1. /\ i \in DOMAIN queue[r] /\ queue'[r][i] = queue[r][i] /\ i \in Nat
        /\ SameBefore(queue[r], queue'[r], i)
    <3>1. CASE r = s
      <4>1. i \in 1 .. n + 1 /\ i # n + 1
        BY <3>1, <1>10, <1>12
      <4>2. i \in 1 .. n /\ \A j \in 1 .. i - 1 : j \in 1 .. n
        BY <4>1, <1>11
      <4> QED BY <3>1, <4>2, <1>10, <1>11 DEF SameBefore
    <3>2. CASE r # s
      BY <3>2, <1>1, <1>10, KernelAt DEF SameBefore
    <3> QED BY <3>1, <3>2
  <2>2. Holds(content, queue[r], i, queue[r][i].buffer, queue[r][i].of)
    BY <2>1 DEF SVDQuantInv, QueuedMatmuls
  <2>3. content'[queue[r][i].buffer] = content[queue[r][i].buffer]
    BY <2>1, <1>1, <1>6 DEF Uses, OneStreamPerBuffer
  <2>4. Holds(content', queue'[r], i, queue[r][i].buffer, queue[r][i].of)
    BY <2>1, <2>2, <2>3, HoldsKept
  <2> QED BY <2>1, <2>4
<1>18. ForwardsUnderWay'
  <2> SUFFICES ASSUME NEW u \in Callers, forward'[u] # NoForward
               PROVE Holds(content', queue'[current'[u]], Len(queue'[current'[u]]) + 1,
                           forward'[u].buffer, forward'[u].number)
    BY DEF ForwardsUnderWay
  <2>1. CASE u = t
    <3>1. /\ Len(queue'[current'[u]]) + 1 = n + 2 /\ queue'[current'[u]] = queue'[s]
          /\ forward'[u].buffer = b /\ forward'[u].number = forwards + 1
      BY <2>1, <1>2, <1>10, <1>11, <1>13, <1>14
    <3>2. Writes(queue'[s][n + 1], b) /\ queue'[s][n + 1].of = forwards + 1
      BY <1>10, <1>12 DEF Writes
    <3>3. Holds(content', queue'[s], n + 2, b, forwards + 1)
      BY <3>2, <1>11 DEF Holds
    <3> QED BY <3>1, <3>3
  <2>2. CASE u # t
    <3>1. forward[u] # NoForward /\ current[u] # s /\ forward'[u] = forward[u]
      BY <2>2, <1>14 DEF Quantize
    <3>2. current[u] \in Streams /\ current'[u] = current[u] /\ queue'[current[u]] = queue[current[u]]
      BY <3>1, <1>1, <1>2, <1>10 DEF DeviceTyped
    <3>3. content'[forward[u].buffer] = content[forward[u].buffer]
      BY <3>1, <3>2, <1>1, <1>6 DEF Uses, OneStreamPerBuffer
    <3>4. Holds(content, queue[current[u]], Len(queue[current[u]]) + 1, forward[u].buffer, forward[u].number)
      BY <3>1 DEF SVDQuantInv, ForwardsUnderWay
    <3>5. Len(queue[current[u]]) + 1 \in Nat
      BY <3>2, <1>1, KernelAt
    <3>6. SameBefore(queue[current[u]], queue[current[u]], Len(queue[current[u]]) + 1)
      BY DEF SameBefore
    <3>7. Holds(content', queue[current[u]], Len(queue[current[u]]) + 1,
                forward[u].buffer, forward[u].number)
      BY <3>3, <3>4, <3>5, <3>6, HoldsKept
    <3> QED BY <3>1, <3>2, <3>7
  <2> QED BY <2>1, <2>2
<1> QED BY <1>2, <1>9, <1>16, <1>17, <1>18 DEF SVDQuantInv, MatmulReadsItsActivation

\* A multiplication is queued behind the activation of its forward.
LEMMA ScaledMMInv == ASSUME SVDQuantInv, NEW t \in Callers, ScaledMM(t) PROVE SVDQuantInv'
<1> DEFINE s == current[t]
           b == forward[t].buffer
           f == forward[t].number
           op == [kind |-> "mm", buffer |-> b, of |-> f]
           n == Len(queue[s])
           fw == NextLinear(forward[t])
<1>1. s \in Streams /\ DeviceTyped /\ OneStreamPerBuffer
  BY DEF SVDQuantInv, DeviceTyped
<1>2. /\ Issue(s, op) /\ forward' = [forward EXCEPT ![t] = fw]
      /\ UNCHANGED <<workspaces, content, current, forwards, multiplied>>
  BY DEF ScaledMM
<1>3. forward[t] # NoForward /\ forward[t] \in UnderWay
  BY <1>1 DEF ScaledMM, NoForward, DeviceTyped
<1>4. op \in Kernels /\ op.kind = "mm" /\ op.buffer = b /\ op.of = f
  BY <1>3 DEF Kernels, UnderWay
<1>5. fw \in {NoForward} \cup UnderWay
  BY <1>3, BoundsAssumption DEF UnderWay, NextLinear
<1>6. fw # NoForward => fw.buffer = b /\ fw.number = f
  BY <1>3 DEF UnderWay, NextLinear
<1>7. forward'[t] = fw /\ \A u \in Callers \ {t} : forward'[u] = forward[u]
  BY <1>1, <1>2 DEF DeviceTyped
<1> HIDE DEF op, fw
<1>8. DeviceTyped'
  <2>1. queue' \in [Streams -> Seq(Kernels)]
    BY <1>1, <1>2, <1>4, Issued
  <2>2. forward' \in [Callers -> {NoForward} \cup UnderWay]
    BY <1>1, <1>2, <1>5 DEF DeviceTyped
  <2> QED BY <2>1, <2>2, <1>1, <1>2 DEF DeviceTyped
<1>9. /\ DOMAIN queue'[s] = 1 .. n + 1 /\ Len(queue'[s]) = n + 1 /\ queue'[s][n + 1] = op
      /\ \A i \in 1 .. n : queue'[s][i] = queue[s][i]
      /\ \A r \in Streams \ {s} : queue'[r] = queue[r]
  BY <1>1, <1>2, <1>4, Issued
<1>10. DOMAIN queue[s] = 1 .. n /\ n \in Nat
  BY <1>1, KernelAt
<1>11. Uses(s, b)
  BY <1>3 DEF Uses
<1>12. \A r \in Streams : \A c : Uses(r, c)' => Uses(r, c) \/ (r = s /\ c = b)
  <2> SUFFICES ASSUME NEW r \in Streams, NEW c, Uses(r, c)', ~(r = s /\ c = b) PROVE Uses(r, c)
    OBVIOUS
  <2>1. ASSUME NEW k \in DOMAIN workspaces', k[1] = r, workspaces'[k] = c PROVE Uses(r, c)
    BY <2>1, <1>2 DEF Uses
  <2>2. ASSUME NEW i \in DOMAIN queue'[r], queue'[r][i].buffer = c PROVE Uses(r, c)
    <3>1. i \in DOMAIN queue[r] /\ queue[r][i].buffer = c
      <4>1. CASE r = s
        <5>1. i \in 1 .. n + 1 /\ i # n + 1
          BY <4>1, <2>2, <1>9, <1>4
        <5> QED BY <5>1, <4>1, <2>2, <1>9, <1>10
      <4>2. CASE r # s
        BY <4>2, <2>2, <1>9
      <4> QED BY <4>1, <4>2
    <3> QED BY <3>1 DEF Uses
  <2>3. ASSUME NEW u \in Callers, current'[u] = r, forward'[u] # NoForward, forward'[u].buffer = c
        PROVE Uses(r, c)
    <3>1. u # t
      BY <2>3, <1>2, <1>6, <1>7
    <3> QED BY <3>1, <2>3, <1>2, <1>7 DEF Uses
  <2> QED BY <2>1, <2>2, <2>3 DEF Uses
<1>13. OneStreamPerBuffer'
  <2>1. b \in Buffers /\ Buffers' = Buffers
    BY <1>1, <1>2, <1>11 DEF OneStreamPerBuffer, Buffers
  <2> QED BY <2>1, <1>1, <1>11, <1>12, OneStreamKept
<1>14. Holds(content, queue[s], n + 1, b, f)
  BY <1>3 DEF SVDQuantInv, ForwardsUnderWay
<1>15. Holds(content, queue'[s], n + 1, b, f)
  <2>1. SameBefore(queue[s], queue'[s], n + 1) /\ n + 1 \in Nat
    BY <1>9, <1>10 DEF SameBefore
  <2> QED BY <2>1, <1>14, HoldsKept
<1>16. QueuedMatmuls'
  <2> SUFFICES ASSUME NEW r \in Streams, NEW i \in DOMAIN queue'[r], queue'[r][i].kind = "mm"
               PROVE Holds(content', queue'[r], i, queue'[r][i].buffer, queue'[r][i].of)
    BY DEF QueuedMatmuls
  <2>1. CASE r = s /\ i = n + 1
    BY <2>1, <1>2, <1>4, <1>9, <1>15
  <2>2. CASE ~(r = s /\ i = n + 1)
    <3>1. /\ i \in DOMAIN queue[r] /\ queue'[r][i] = queue[r][i] /\ i \in Nat
          /\ SameBefore(queue[r], queue'[r], i)
      <4>1. CASE r = s
        BY <2>2, <4>1, <1>9, <1>10 DEF SameBefore
      <4>2. CASE r # s
        BY <4>2, <1>1, <1>9, KernelAt DEF SameBefore
      <4> QED BY <4>1, <4>2
    <3>2. Holds(content, queue[r], i, queue[r][i].buffer, queue[r][i].of)
      BY <3>1 DEF SVDQuantInv, QueuedMatmuls
    <3>3. Holds(content, queue'[r], i, queue[r][i].buffer, queue[r][i].of)
      BY <3>1, <3>2, HoldsKept
    <3> QED BY <3>1, <3>3, <1>2
  <2> QED BY <2>1, <2>2
<1>17. ForwardsUnderWay'
  <2> SUFFICES ASSUME NEW u \in Callers, forward'[u] # NoForward
               PROVE Holds(content', queue'[current'[u]], Len(queue'[current'[u]]) + 1,
                           forward'[u].buffer, forward'[u].number)
    BY DEF ForwardsUnderWay
  <2> DEFINE c == forward'[u].buffer
             g == forward'[u].number
  <2>1. current'[u] = current[u] /\ content' = content /\ current[u] \in Streams
    BY <1>1, <1>2 DEF DeviceTyped
  <2>2. Holds(content, queue[current[u]], Len(queue[current[u]]) + 1, c, g)
    <3>1. CASE u = t
      BY <3>1, <1>6, <1>7, <1>14
    <3>2. CASE u # t
      BY <3>2, <1>7 DEF SVDQuantInv, ForwardsUnderWay
    <3> QED BY <3>1, <3>2
  <2> HIDE DEF c, g
  <2>3. CASE current[u] = s
    <3>1. Holds(content, queue'[s], n + 1, c, g)
      <4>1. SameBefore(queue[s], queue'[s], n + 1) /\ n + 1 \in Nat
        BY <1>9, <1>10 DEF SameBefore
      <4>2. Holds(content, queue[s], n + 1, c, g)
        BY <2>2, <2>3
      <4> QED BY <4>1, <4>2, HoldsKept
    <3>2. ~Writes(queue'[s][n + 1], c)
      BY <1>4, <1>9 DEF Writes
    <3>3. Holds(content, queue'[s], (n + 1) + 1, c, g)
      <4>1. n + 1 \in Nat \ {0}
        BY <1>10
      <4> QED BY <3>1, <3>2, <4>1, HoldsPast
    <3> QED BY <3>3, <2>1, <2>3, <1>9 DEF c, g
  <2>4. CASE current[u] # s
    BY <2>1, <2>2, <2>4, <1>9 DEF c, g
  <2> QED BY <2>3, <2>4
<1> QED BY <1>2, <1>8, <1>13, <1>16, <1>17 DEF SVDQuantInv, MatmulReadsItsActivation

\* Running the first kernel: r is the rest of q, and then the contents it leaves.
LEMMA HoldsRun ==
  ASSUME NEW held, NEW then, NEW q, NEW r, NEW i \in Nat \ {0, 1}, NEW b, NEW f,
         \A j \in 1 .. i - 2 : r[j] = q[j + 1],
         then[b] = IF Writes(q[1], b) THEN q[1].of ELSE held[b],
         Holds(held, q, i, b, f)
  PROVE  Holds(then, r, i - 1, b, f)
<1>1. ASSUME NEW j \in 2 .. i - 1, Writes(q[j], b), q[j].of = f,
             \A n \in j + 1 .. i - 1 : ~Writes(q[n], b)
      PROVE  Holds(then, r, i - 1, b, f)
  <2>1. j - 1 \in 1 .. (i - 1) - 1 /\ r[j - 1] = q[j]
    OBVIOUS
  <2>2. \A n \in (j - 1) + 1 .. (i - 1) - 1 : n + 1 \in j + 1 .. i - 1 /\ r[n] = q[n + 1]
    OBVIOUS
  <2>3. \A n \in (j - 1) + 1 .. (i - 1) - 1 : ~Writes(r[n], b)
    BY <1>1, <2>2
  <2> QED BY <1>1, <2>1, <2>3 DEF Holds
<1>2. ASSUME \A n \in 2 .. i - 1 : ~Writes(q[n], b), then[b] = f
      PROVE  Holds(then, r, i - 1, b, f)
  <2>1. \A n \in 1 .. (i - 1) - 1 : n + 1 \in 2 .. i - 1 /\ r[n] = q[n + 1]
    OBVIOUS
  <2>2. \A n \in 1 .. (i - 1) - 1 : ~Writes(r[n], b)
    BY <1>2, <2>1
  <2> QED BY <1>2, <2>2 DEF Holds
<1>3. CASE held[b] = f /\ \A n \in 1 .. i - 1 : ~Writes(q[n], b)
  BY <1>2, <1>3
<1>4. ASSUME NEW j \in 1 .. i - 1, Writes(q[j], b), q[j].of = f,
             \A n \in j + 1 .. i - 1 : ~Writes(q[n], b)
      PROVE  Holds(then, r, i - 1, b, f)
  <2>1. CASE j = 1
    <3>1. then[b] = f /\ \A n \in 2 .. i - 1 : ~Writes(q[n], b)
      BY <2>1, <1>4
    <3> QED BY <3>1, <1>2
  <2>2. CASE j # 1
    <3>1. j \in 2 .. i - 1
      BY <2>2
    <3> QED BY <3>1, <1>1, <1>4
  <2> QED BY <2>1, <2>2
<1> QED BY <1>3, <1>4 DEF Holds

LEMMA HoldsFirst ==
  ASSUME NEW held, NEW q, NEW b, NEW f, Holds(held, q, 1, b, f) PROVE held[b] = f
BY DEF Holds

\* The device runs the first kernel of a stream.
LEMMA RunKernelInv == ASSUME SVDQuantInv, NEW s \in Streams, RunKernel(s) PROVE SVDQuantInv'
<1> DEFINE q == queue[s]
           op == Head(q)
           rest == Tail(q)
<1>1. DeviceTyped /\ OneStreamPerBuffer /\ q \in Seq(Kernels) /\ q # <<>>
  BY KernelAt DEF SVDQuantInv, RunKernel
<1>2. /\ op = q[1] /\ 1 \in DOMAIN q /\ Len(q) \in Nat /\ DOMAIN q = 1 .. Len(q)
      /\ rest \in Seq(Kernels) /\ Len(rest) = Len(q) - 1 /\ DOMAIN rest = 1 .. Len(q) - 1
      /\ \A i \in 1 .. Len(q) - 1 : rest[i] = q[i + 1]
  BY <1>1
<1>3. /\ queue' = [queue EXCEPT ![s] = rest]
      /\ UNCHANGED <<workspaces, current, forward, forwards>>
      /\ IF op.kind = "quantize"
         THEN content' = [content EXCEPT ![op.buffer] = op.of] /\ UNCHANGED multiplied
         ELSE multiplied' = multiplied \cup {<<op.of, content[op.buffer]>>} /\ UNCHANGED content
  BY DEF RunKernel
<1>4. op \in Kernels /\ op.kind \in {"quantize", "mm"} /\ op.of \in 1 .. MaxForwards
  <2>1. op \in Kernels
    BY <1>1, <1>2
  <2> QED BY <2>1 DEF Kernels
<1>5. Uses(s, op.buffer) /\ op.buffer \in Buffers
  <2>1. Uses(s, op.buffer)
    BY <1>2 DEF Uses
  <2> QED BY <2>1, <1>1 DEF OneStreamPerBuffer
<1>6. queue'[s] = rest /\ \A r \in Streams \ {s} : queue'[r] = queue[r]
  BY <1>1, <1>3 DEF DeviceTyped
<1>7. /\ content' \in Seq(0 .. MaxForwards) /\ Buffers' = Buffers
      /\ \A b \in Buffers : content'[b] = IF Writes(op, b) THEN op.of ELSE content[b]
  <2>1. content \in Seq(0 .. MaxForwards) /\ op.of \in 0 .. MaxForwards
    BY <1>1, <1>4 DEF DeviceTyped
  <2>2. CASE op.kind = "quantize"
    <3>1. content' = [content EXCEPT ![op.buffer] = op.of]
      BY <2>2, <1>3
    <3> HIDE DEF op
    <3>2. DOMAIN content' = DOMAIN content
      BY <3>1
    <3>3. \A b \in DOMAIN content : content'[b] = IF b = op.buffer THEN op.of ELSE content[b]
      BY <3>1
    <3>4. content' \in Seq(0 .. MaxForwards)
      BY <3>1, <2>1, <1>5 DEF Buffers
    <3> QED BY <2>2, <3>2, <3>3, <3>4 DEF Buffers, Writes
  <2>3. CASE op.kind = "mm"
    BY <2>1, <2>3, <1>3 DEF Buffers, Writes
  <2> QED BY <2>2, <2>3, <1>4
<1>8. DeviceTyped'
  BY <1>1, <1>2, <1>3, <1>7 DEF DeviceTyped
<1> HIDE DEF op, rest
<1>9. \A r \in Streams : \A c : Uses(r, c)' => Uses(r, c)
  <2> SUFFICES ASSUME NEW r \in Streams, NEW c, Uses(r, c)' PROVE Uses(r, c)
    OBVIOUS
  <2>1. ASSUME NEW i \in DOMAIN queue'[r], queue'[r][i].buffer = c PROVE Uses(r, c)
    <3>1. CASE r = s
      <4>1. i \in 1 .. Len(q) - 1 /\ i + 1 \in DOMAIN q /\ rest[i] = q[i + 1]
        BY <3>1, <1>2, <1>6, <2>1
      <4>2. q[i + 1].buffer = c
        BY <4>1, <3>1, <1>6, <2>1
      <4> QED BY <4>1, <4>2, <3>1 DEF Uses
    <3>2. CASE r # s
      BY <3>2, <1>6, <2>1 DEF Uses
    <3> QED BY <3>1, <3>2
  <2>2. CASE \E k \in DOMAIN workspaces' : k[1] = r /\ workspaces'[k] = c
    BY <2>2, <1>3 DEF Uses
  <2>3. CASE \E t \in Callers : current'[t] = r /\ forward'[t] # NoForward /\ forward'[t].buffer = c
    BY <2>3, <1>3 DEF Uses
  <2> QED BY <2>1, <2>2, <2>3 DEF Uses
<1>10. OneStreamPerBuffer'
  BY <1>1, <1>7, <1>9 DEF OneStreamPerBuffer
\* Another stream does not see the step.
<1>11. ASSUME NEW r \in Streams \ {s}, NEW b, Uses(r, b) PROVE content'[b] = content[b]
  BY <1>1, <1>5, <1>7, <1>11 DEF OneStreamPerBuffer, Writes
<1>12. ASSUME NEW i \in Nat \ {0, 1}, i <= Len(q) + 1, NEW b \in Buffers, NEW f, Holds(content, q, i, b, f)
       PROVE  Holds(content', rest, i - 1, b, f)
  <2>1. ASSUME NEW j \in 1 .. i - 2 PROVE rest[j] = q[j + 1]
    <3>1. j \in 1 .. Len(q) - 1
      BY <1>2, <1>12
    <3> QED BY <3>1, <1>2
  <2>2. content'[b] = IF Writes(q[1], b) THEN q[1].of ELSE content[b]
    BY <1>2, <1>7
  <2> QED BY <2>1, <2>2, <1>12, HoldsRun
<1>13. QueuedMatmuls'
  <2> SUFFICES ASSUME NEW r \in Streams, NEW i \in DOMAIN queue'[r], queue'[r][i].kind = "mm"
               PROVE Holds(content', queue'[r], i, queue'[r][i].buffer, queue'[r][i].of)
    BY DEF QueuedMatmuls
  <2>1. CASE r = s
    <3>1. /\ i \in 1 .. Len(q) - 1 /\ i + 1 \in DOMAIN q /\ rest[i] = q[i + 1] /\ queue'[r] = rest
      BY <2>1, <1>2, <1>6
    <3>2. Holds(content, q, i + 1, q[i + 1].buffer, q[i + 1].of)
      BY <3>1 DEF SVDQuantInv, QueuedMatmuls
    <3>3. q[i + 1].buffer \in Buffers
      <4>1. Uses(s, q[i + 1].buffer)
        BY <3>1 DEF Uses
      <4> QED BY <4>1, <1>1 DEF OneStreamPerBuffer
    <3>4. i + 1 \in Nat \ {0, 1} /\ i + 1 <= Len(q) + 1 /\ (i + 1) - 1 = i
      BY <3>1, <1>2
    <3> HIDE DEF q
    <3>5. Holds(content', rest, (i + 1) - 1, q[i + 1].buffer, q[i + 1].of)
      BY <3>2, <3>3, <3>4, <1>12
    <3> QED BY <3>1, <3>4, <3>5
  <2>2. CASE r # s
    <3>1. queue'[r] = queue[r] /\ i \in Nat /\ i \in DOMAIN queue[r]
      BY <2>2, <1>1, <1>6, KernelAt
    <3>2. content'[queue[r][i].buffer] = content[queue[r][i].buffer]
      <4>1. Uses(r, queue[r][i].buffer)
        BY <3>1 DEF Uses
      <4> QED BY <4>1, <2>2, <1>11
    <3>3. Holds(content, queue[r], i, queue[r][i].buffer, queue[r][i].of)
      BY <3>1 DEF SVDQuantInv, QueuedMatmuls
    <3>4. SameBefore(queue[r], queue[r], i)
      BY DEF SameBefore
    <3>5. Holds(content', queue[r], i, queue[r][i].buffer, queue[r][i].of)
      BY <3>1, <3>2, <3>3, <3>4, HoldsKept
    <3> QED BY <3>1, <3>5
  <2> QED BY <2>1, <2>2
<1>14. ForwardsUnderWay'
  <2> SUFFICES ASSUME NEW u \in Callers, forward[u] # NoForward
               PROVE Holds(content', queue'[current[u]], Len(queue'[current[u]]) + 1,
                           forward[u].buffer, forward[u].number)
    BY <1>3 DEF ForwardsUnderWay
  <2> DEFINE c == forward[u].buffer
             g == forward[u].number
             r == current[u]
  <2>1. r \in Streams /\ Uses(r, c) /\ c \in Buffers
    <3>1. r \in Streams /\ Uses(r, c)
      BY <1>1 DEF DeviceTyped, Uses
    <3> QED BY <3>1, <1>1 DEF OneStreamPerBuffer
  <2>2. Holds(content, queue[r], Len(queue[r]) + 1, c, g)
    BY DEF SVDQuantInv, ForwardsUnderWay
  <2> HIDE DEF c, g
  <2>3. CASE r = s
    <3>1. Len(q) + 1 \in Nat \ {0, 1} /\ Len(q) + 1 <= Len(q) + 1 /\ (Len(q) + 1) - 1 = Len(rest) + 1
      BY <1>2
    <3>2. Holds(content, q, Len(q) + 1, c, g)
      BY <2>2, <2>3
    <3> HIDE DEF q
    <3>3. Holds(content', rest, (Len(q) + 1) - 1, c, g)
      BY <2>1, <3>1, <3>2, <1>12
    <3> QED BY <2>3, <3>1, <3>3, <1>6 DEF c, g
  <2>4. CASE r # s
    <3>1. content'[c] = content[c] /\ queue'[r] = queue[r] /\ Len(queue[r]) + 1 \in Nat
      BY <2>1, <2>4, <1>1, <1>6, <1>11, KernelAt
    <3>2. SameBefore(queue[r], queue[r], Len(queue[r]) + 1)
      BY DEF SameBefore
    <3>3. Holds(content', queue[r], Len(queue[r]) + 1, c, g)
      BY <2>2, <3>1, <3>2, HoldsKept
    <3> QED BY <3>1, <3>3 DEF c, g
  <2> QED BY <2>3, <2>4
<1>15. MatmulReadsItsActivation'
  <2>1. CASE op.kind = "quantize"
    BY <2>1, <1>3 DEF SVDQuantInv, MatmulReadsItsActivation
  <2>2. CASE op.kind = "mm"
    <3>1. Holds(content, q, 1, op.buffer, op.of)
      BY <2>2, <1>2 DEF SVDQuantInv, QueuedMatmuls
    <3>2. content[op.buffer] = op.of
      BY <3>1, HoldsFirst
    <3>3. multiplied' = multiplied \cup {<<op.of, op.of>>}
      BY <2>2, <3>2, <1>3
    <3> QED BY <3>3 DEF SVDQuantInv, MatmulReadsItsActivation
  <2> QED BY <2>1, <2>2, <1>4
<1> QED BY <1>8, <1>10, <1>13, <1>14, <1>15 DEF SVDQuantInv

LEMMA SetStreamInv ==
  ASSUME SVDQuantInv, NEW t \in Callers, NEW s \in Streams, SetStream(t, s) PROVE SVDQuantInv'
<1>1. /\ current' = [current EXCEPT ![t] = s] /\ forward[t] = NoForward /\ DeviceTyped
      /\ UNCHANGED <<workspaces, content, queue, forward, forwards, multiplied>>
  BY DEF SetStream, SVDQuantInv
<1>2. \A u \in Callers : forward[u] # NoForward => current'[u] = current[u]
  BY <1>1 DEF DeviceTyped
<1>3. DeviceTyped'
  BY <1>1 DEF DeviceTyped
<1>4. \A r \in Streams : \A c : Uses(r, c)' => Uses(r, c)
  BY <1>1, <1>2 DEF Uses
<1>5. OneStreamPerBuffer'
  BY <1>1, <1>4 DEF SVDQuantInv, OneStreamPerBuffer, Buffers
<1>6. QueuedMatmuls' /\ ForwardsUnderWay'
  BY <1>1, <1>2 DEF SVDQuantInv, QueuedMatmuls, ForwardsUnderWay
<1> QED BY <1>1, <1>3, <1>5, <1>6 DEF SVDQuantInv, MatmulReadsItsActivation

LEMMA SVDQuantNextInv == ASSUME SVDQuantInv, [DeviceNext]_device_vars PROVE SVDQuantInv'
<1>1. CASE UNCHANGED svdquant
  <2>1. UNCHANGED <<workspaces, content, queue, current, forward, forwards, multiplied>>
    BY <1>1 DEF svdquant
  <2>2. DeviceTyped' /\ QueuedMatmuls' /\ ForwardsUnderWay' /\ MatmulReadsItsActivation'
    BY <2>1 DEF SVDQuantInv, DeviceTyped, QueuedMatmuls, ForwardsUnderWay, MatmulReadsItsActivation
  <2>3. Buffers' = Buffers /\ \A r, c : Uses(r, c)' <=> Uses(r, c)
    BY <2>1 DEF Buffers, Uses
  <2>4. OneStreamPerBuffer'
    BY <2>3 DEF SVDQuantInv, OneStreamPerBuffer
  <2> QED BY <2>2, <2>4 DEF SVDQuantInv
<1>2. CASE NextForward
  BY <1>2, QuantizeInv, ScaledMMInv, RunKernelInv, SetStreamInv DEF NextForward, Forward
<1> QED BY <1>1, <1>2 DEF DeviceNext, NextRotate, device_vars

\* Every multiplication reads the activation its own forward quantized: for any
\* threads, streams and shapes, however kernels lag behind the calls that issue them.
THEOREM ActivationMultiplied == DeviceSpec => []MatmulReadsItsActivation
<1>1. DeviceInit => SVDQuantInv
  BY SVDQuantInitInv
<1>2. SVDQuantInv /\ [DeviceNext]_device_vars => SVDQuantInv'
  BY SVDQuantNextInv
<1>3. SVDQuantInv => MatmulReadsItsActivation
  BY DEF SVDQuantInv
<1> QED BY <1>1, <1>2, <1>3, PTL DEF DeviceSpec

\* A call rotates with the packed table of the tensor it was given, for any number of
\* threads that look up, clear and store without a lock, and any reuse of ids.
THEOREM GivenTableRotates == DeviceSpec => []TableOfGivenTensor
<1>1. DeviceInit => RopeInv
  BY RopeInitInv
<1>2. RopeInv /\ [DeviceNext]_device_vars => RopeInv'
  BY RopeNextInv
<1>3. RopeInv => TableOfGivenTensor
  BY DEF RopeInv
<1> QED BY <1>1, <1>2, <1>3, PTL DEF DeviceSpec

DeviceInv == SVDQuantInv /\ RopeInv

LEMMA DeviceInvTypeOK == DeviceInv => DeviceTypeOK
<1> SUFFICES ASSUME DeviceInv PROVE DeviceTypeOK
  OBVIOUS
<1>1. DeviceTyped /\ OneStreamPerBuffer /\ RopeTyped
  BY DEF DeviceInv, SVDQuantInv, RopeInv
<1>2. \A k \in DOMAIN workspaces : k \in Streams \X Shapes /\ workspaces[k] \in Buffers
  <2> SUFFICES ASSUME NEW k \in DOMAIN workspaces PROVE workspaces[k] \in Buffers
    BY <1>1 DEF DeviceTyped
  <2>1. k[1] \in Streams /\ Uses(k[1], workspaces[k])
    BY <1>1 DEF DeviceTyped, Uses
  <2> QED BY <2>1, <1>1 DEF OneStreamPerBuffer
<1>3. ASSUME NEW s \in Streams, NEW i \in DOMAIN queue[s]
      PROVE  queue[s][i] \in [kind : {"quantize", "mm"}, buffer : Buffers, of : 1 .. MaxForwards]
  <2>1. queue[s][i] \in Kernels
    BY <1>1, KernelAt
  <2>2. queue[s][i].buffer \in Buffers
    <3>1. Uses(s, queue[s][i].buffer)
      BY DEF Uses
    <3> QED BY <3>1, <1>1 DEF OneStreamPerBuffer
  <2> QED BY <2>1, <2>2 DEF Kernels
<1>4. \A t \in Callers : forward[t].left \in 0 .. MaxLinears
  <2> SUFFICES ASSUME NEW t \in Callers PROVE forward[t].left \in 0 .. MaxLinears
    OBVIOUS
  <2>1. forward[t] = NoForward \/ forward[t] \in UnderWay
    BY <1>1 DEF DeviceTyped
  <2> QED BY <2>1, BoundsAssumption DEF UnderWay, NoForward
<1> QED
  BY <1>1, <1>2, <1>3, <1>4 DEF DeviceTypeOK, DeviceTyped, RopeTyped, Entries

-----------------------------------------------------------------------------
(* All of it together.  A step of one part leaves the variables of the others *)
(* alone, so the invariant of each part survives the steps of the others, and *)
(* what holds of a part by itself holds in the process.                       *)

ProcessInv ==
  /\ Inv /\ TypeOK
  /\ QuarantineInv /\ CallsBound
  /\ WeightInv /\ WeightTypeOK
  /\ DeviceInv

LEMMA ProcessInitInv ==
  ASSUME IsFiniteSet(Threads), OwnStorage PROVE ProcessInit => ProcessInv
BY InitInv, InitTypeOK, QuarantineInitInv, CallsBoundInit, WeightInitInv, WeightTypeOKInit,
   SVDQuantInitInv, RopeInitInv DEF ProcessInit, ProcessInv, DeviceInv

LEMMA ProcessNextInv ==
  ASSUME IsFiniteSet(Threads), OwnStorage, ProcessInv, [ProcessNext]_process_vars
  PROVE  ProcessInv'
<1>1. /\ [Next]_vars /\ [QuarantineNext]_quarantine_vars /\ [WeightNext]_weight_vars
      /\ [DeviceNext]_device_vars
  <2>1. CASE UNCHANGED process_vars
    BY <2>1 DEF process_vars
  <2>2. CASE part = "decode" /\ Next /\ UNCHANGED <<part, quarantine_vars, weight_vars, device_vars>>
    BY <2>2
  <2>3. CASE part = "quarantine" /\ QuarantineNext /\ UNCHANGED <<part, vars, weight_vars, device_vars>>
    BY <2>3
  <2>4. CASE part = "weights" /\ WeightNext /\ UNCHANGED <<part, vars, quarantine_vars, device_vars>>
    BY <2>4
  <2>5. CASE part = "workspace" /\ NextForward /\ UNCHANGED <<part, vars, quarantine_vars, weight_vars>>
    BY <2>5 DEF DeviceNext
  <2>6. CASE part = "rope" /\ NextRotate /\ UNCHANGED <<part, vars, quarantine_vars, weight_vars>>
    BY <2>6 DEF DeviceNext
  <2> QED BY <2>1, <2>2, <2>3, <2>4, <2>5, <2>6 DEF ProcessNext
<1>2. Inv' /\ TypeOK'
  BY <1>1, NextInv, TypeOKNext DEF ProcessInv
<1>3. QuarantineInv' /\ CallsBound'
  BY <1>1, QuarantineNextInv, CallsBoundNext DEF ProcessInv
<1>4. WeightInv' /\ WeightTypeOK'
  BY <1>1, WeightNextInv, WeightTypeOKNext DEF ProcessInv
<1>5. DeviceInv'
  BY <1>1, SVDQuantNextInv, RopeNextInv DEF ProcessInv, DeviceInv
<1> QED BY <1>2, <1>3, <1>4, <1>5 DEF ProcessInv

LEMMA ProcessInvAlways ==
  ASSUME IsFiniteSet(Threads), OwnStorage PROVE ProcessSpec => []ProcessInv
<1>1. ProcessInit => ProcessInv
  BY ProcessInitInv
<1>2. ProcessInv /\ [ProcessNext]_process_vars => ProcessInv'
  BY ProcessNextInv
<1> QED BY <1>1, <1>2, PTL DEF ProcessSpec

\* The variables of every part keep their types: the counters of the quarantine never
\* exceed the calls, a workspace key names a buffer there is, only tensors that were
\* prepared are marked, and what the decode cache and its source hold are rows.
THEOREM ProcessTypeCorrect ==
  ASSUME IsFiniteSet(Threads), OwnStorage PROVE ProcessSpec => []ProcessTypeOK
<1>1. ProcessInv => ProcessTypeOK
  BY CountersBounded, DeviceInvTypeOK DEF ProcessInv, ProcessTypeOK
<1> QED BY <1>1, ProcessInvAlways, PTL

\* In the process as a whole every part keeps what it promises: a call is counted once
\* and a route warned about once, a linear multiplies with converted bytes, a matmul with
\* its own activation, a rotation with the given table, and attention reads fresh pages.
THEOREM ProcessSafe ==
  ASSUME IsFiniteSet(Threads), OwnStorage
  PROVE  ProcessSpec => [](/\ AttendsCommittedPrefix /\ RefreshedRowsRetained
                           /\ EveryCallCountedOnce /\ WarnedOncePerRoute
                           /\ LinearReadsConverted /\ UnmarkedIsCheckpoint
                           /\ MatmulReadsItsActivation /\ TableOfGivenTensor)
<1>1. Inv => AttendsCommittedPrefix
  BY DEF Inv, FreshPages, FreshPage, Page, AttendsCommittedPrefix
<1>2. QuarantineInv => EveryCallCountedOnce /\ WarnedOncePerRoute
  BY DEF QuarantineInv
<1>3. WeightInv => LinearReadsConverted /\ UnmarkedIsCheckpoint
  BY DEF WeightInv, MarkIsForm, UnmarkedIsCheckpoint
<1>4. DeviceInv => MatmulReadsItsActivation /\ TableOfGivenTensor
  BY DEF DeviceInv, SVDQuantInv, RopeInv
<1>5. ProcessInv => /\ AttendsCommittedPrefix /\ RefreshedRowsRetained
                   /\ EveryCallCountedOnce /\ WarnedOncePerRoute
                   /\ LinearReadsConverted /\ UnmarkedIsCheckpoint
                   /\ MatmulReadsItsActivation /\ TableOfGivenTensor
  BY <1>1, <1>2, <1>3, <1>4, RefreshedRetained DEF ProcessInv
<1> QED BY <1>5, ProcessInvAlways, PTL
=============================================================================
