---------------------------- MODULE Int8DecodeCache ----------------------------
(***************************************************************************)
(* The growing INT8 cache of a decode prefix (comfy_kitchen/int8_decode.py  *)
(* and the CUDA kernels it launches).  The cache is paged; an update        *)
(* requantizes the last two pages below the committed length from a source  *)
(* of BF16 rows, which may be a ring.                                       *)
(*                                                                          *)
(* Data abstraction.  A row is <<position, version>>.  A quantized page is  *)
(* the tuple of the live rows it was quantized from: every value of a page  *)
(* depends, through the scales, on all of them.  K and V are one row: both  *)
(* kernels compute the same pages from the same length.                     *)
(***************************************************************************)
EXTENDS Integers, Sequences

CONSTANTS PageSize,     \* rows of a page, 512 in the code
          Capacity,     \* rows the cache is made for
          Sources,      \* sizes a source of updates may have
          Speculative,  \* most rows written past the committed length
          Rollback,     \* most rows below the highest length a round goes back
          MaxRounds     \* bound on the rounds of a behaviour

ASSUME SizesAssumption ==
  /\ PageSize \in Nat \ {0} /\ Capacity \in Nat \ {0}
  /\ Speculative \in Nat /\ Rollback \in Nat /\ MaxRounds \in Nat \ {0}

\* What update() requires of a source (int8_decode.py:79), and room for the two
\* pages being refreshed, which a ring retains (int8_decode.py:68-69).
ASSUME SourcesAssumption ==
  \A n \in Sources :
     \/ n = Capacity
     \/ n \in Nat /\ n < Capacity /\ n % PageSize = 0 /\ Speculative + 2 * PageSize <= n

VARIABLES
  cache,       \* [page -> rows it was quantized from]
  sourceRows,  \* size of the source, fixed by the caller
  source,      \* [slot -> row], the BF16 source of the updates
  rows,        \* [position -> version], the sequence the caller means
  length,      \* committed length, on the device
  peak,        \* highest length committed so far
  round,       \* rounds so far, which number the versions
  pc           \* "write", "initialize", "update" or "attend"

vars == <<cache, sourceRows, source, rows, length, peak, round, pc>>

Pages == 0 .. (Capacity + PageSize - 1) \div PageSize - 1
Positions == 0 .. Capacity - 1
Slots == 0 .. sourceRows - 1

Smaller(i, j) == IF i < j THEN i ELSE j
Larger(i, j) == IF i < j THEN j ELSE i

Row(i) == <<i, rows[i]>>

-----------------------------------------------------------------------------
(* The kernels. *)

\* Rows of the page below the committed length.
Live(q) == Smaller(PageSize, length - q * PageSize)

LivePages == {q \in Pages : q * PageSize < length}

\* As LastPages, with one page more.
LastThreePages ==
  LET first == Larger(0, (length - 1) \div PageSize - 2)
  IN  LivePages \cap first .. first + 2

\* The page of the last row and the one before.
LastPages ==
  LET first == Larger(0, (length - 1) \div PageSize - 1)
  IN  LivePages \cap {first, first + 1}

\* Where a page starts in the source.
SourceSlot(q) == (q * PageSize) % sourceRows

Initialize ==
  /\ pc = "initialize"
  /\ cache' = [q \in Pages |-> IF q \in LivePages
                               THEN [i \in 1 .. Live(q) |-> Row(q * PageSize + i - 1)]
                               ELSE cache[q]]
  /\ pc' = "attend"
  /\ UNCHANGED <<sourceRows, source, rows, length, peak, round>>

Update ==
  /\ pc = "update"
  /\ cache' = [q \in Pages |-> IF q \in LastPages
                               THEN [i \in 1 .. Live(q) |-> source[SourceSlot(q) + i - 1]]
                               ELSE cache[q]]
  /\ pc' = "attend"
  /\ UNCHANGED <<sourceRows, source, rows, length, peak, round>>

-----------------------------------------------------------------------------
(* The caller.  In a round it keeps a prefix of the committed rows, writes   *)
(* new ones behind it, some of them past the length it commits, and lets the *)
(* cache follow.                                                             *)

\* As SlotOf, for a source of two pages.
SlotOfShorterRing(i) == i % (2 * PageSize)

SlotOf(i) == i % sourceRows

\* How far a rollback goes: a ring still retains the two pages being refreshed.
Reach == IF sourceRows = Capacity THEN Rollback
         ELSE Smaller(Rollback, sourceRows - 2 * PageSize - Speculative)

WriteRows(first, last) ==
  /\ rows' = [i \in Positions |-> IF i \in first .. last THEN round' ELSE rows[i]]
  /\ source' = [s \in Slots |->
       LET written == {i \in first .. last : SlotOf(i) = s}
       IN  IF written = {} THEN source[s]
           ELSE <<CHOOSE i \in written : \A j \in written : j <= i, round'>>]

\* The first rows: the whole source is there, and the full prefix is quantized.
Begin ==
  /\ pc = "write" /\ round = 0
  /\ round' = 1
  /\ \E n \in 1 .. Capacity, s \in 0 .. Speculative :
        /\ length' = n
        /\ peak' = Larger(peak, n)
        /\ WriteRows(0, Smaller(n + s, Capacity) - 1)
  /\ pc' = "initialize"
  /\ UNCHANGED <<cache, sourceRows>>

\* As Grow, with no bound on how far the length moves.
GrowFreely ==
  /\ pc = "write" /\ round \in 1 .. MaxRounds - 1
  /\ round' = round + 1
  /\ \E kept \in Larger(0, peak - Reach) .. length, s \in 0 .. Speculative :
     \E n \in kept .. Capacity :
        /\ length' = n
        /\ peak' = Larger(peak, n)
        /\ WriteRows(kept, Smaller(n + s, Capacity) - 1)
  /\ pc' = "update"
  /\ UNCHANGED <<cache, sourceRows>>

\* The length moves at most one page past the kept rows per update.
Grow ==
  /\ pc = "write" /\ round \in 1 .. MaxRounds - 1
  /\ round' = round + 1
  /\ \E kept \in Larger(0, peak - Reach) .. length, s \in 0 .. Speculative :
     \E n \in kept .. Smaller(kept + PageSize, Capacity) :
        /\ length' = n
        /\ peak' = Larger(peak, n)
        /\ WriteRows(kept, Smaller(n + s, Capacity) - 1)
  /\ pc' = "update"
  /\ UNCHANGED <<cache, sourceRows>>

Attend ==
  /\ pc = "attend"
  /\ pc' = "write"
  /\ UNCHANGED <<cache, sourceRows, source, rows, length, peak, round>>

\* An empty cache may be attended before any row is there.
Init ==
  /\ cache = [q \in Pages |-> <<>>]
  /\ sourceRows \in Sources
  /\ source = [s \in Slots |-> <<s, 0>>]
  /\ rows = [i \in Positions |-> 0]
  /\ length = 0
  /\ peak = 0
  /\ round = 0
  /\ pc \in {"write", "attend"}

Next == Begin \/ Grow \/ Initialize \/ Update \/ Attend

Spec == Init /\ [][Next]_vars

-----------------------------------------------------------------------------
(* Properties. *)

RowType == Positions \X (0 .. MaxRounds)

TypeOK ==
  /\ \A q \in Pages : /\ Len(cache[q]) \in 0 .. PageSize
                      /\ \A i \in DOMAIN cache[q] : cache[q][i] \in RowType
  /\ sourceRows \in Sources
  /\ source \in [Slots -> RowType \cup (Slots \X {0})]
  /\ rows \in [Positions -> 0 .. MaxRounds]
  /\ length \in 0 .. Capacity
  /\ peak \in length .. Capacity
  /\ round \in 0 .. MaxRounds
  /\ pc \in {"write", "initialize", "update", "attend"}

\* The pages attention reads are the ones a fresh initialization at the same
\* length would produce: rows, versions and the rows behind every scale
\* (the exact comparison of tests/test_int8_attention.py:1164-1167).
AttendsCommittedPrefix ==
  pc = "attend" =>
    \A q \in LivePages : cache[q] = [i \in 1 .. Live(q) |-> Row(q * PageSize + i - 1)]

\* Every row an update reads is still in the source, under the speculative rows
\* written past it and after any rollback (tests/test_int8_attention.py:1157-1158).
RefreshedRowsRetained ==
  pc = "update" =>
    \A q \in LastPages : \A i \in 0 .. Live(q) - 1 :
       source[SourceSlot(q) + i] = Row(q * PageSize + i)

\* "A sealed page never changes" (quant_qk_int8.cu:872): no update writes a page
\* that a whole page separates from the rows a rollback may reach.
SealedPagesKept ==
  [][\A q \in Pages : (q + 2) * PageSize < peak - Reach /\ pc # "initialize"
        => cache'[q] = cache[q]]_vars
=============================================================================
