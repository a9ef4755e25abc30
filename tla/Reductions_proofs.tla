--------------------------- MODULE Reductions_proofs ---------------------------
(***************************************************************************)
(* Proofs about kernels of MCReductions, each by itself and then as the       *)
(* behaviours of one specification.                                         *)
(*                                                                          *)
(* The split-K GEMM, for any finite number of splits, any output elements     *)
(* and any number of launches: the counter alone does not say that the sums    *)
(* are whole, it counts warps past their fence, whose additions have           *)
(* therefore landed.  The invariant relates, while a launch runs, the counter   *)
(* to those warps and each sum to the warps whose addition to it has landed.    *)
(*                                                                          *)
(* The mesh BVH, for any number of leaves and any sorted codes.  First, what    *)
(* bvh_hierarchy_kernel computes is a tree: the prefixes that keys share        *)
(* behave like a tree's (ThreeKeys), the searches find the ends of the range    *)
(* of a node and of its left part (SearchFindsLast), so that each node has      *)
(* the parts of one range for children, and no node has two parents.  Then      *)
(* the climb: visits count the children left behind, whose boxes are whole      *)
(* and visible, because a thread passes a fence before it is counted.           *)
(*                                                                          *)
(* The rotary embedding, for any calls.  First, geometry: the strides of a view *)
(* the tests accept nest, or two views interleave, so that each element has a    *)
(* cell of its own and operands share none (AllowedApart).  Then the plan of each *)
(* backend, and the threads of a launch, among whom its elements are dealt       *)
(* (ThreadsDealt).  The invariant says what memory holds: each element that is    *)
(* finished, rotated once, and nothing else; so what a thread reads has its first *)
(* value, because the elements of a row are written after all have been summed.   *)
(*                                                                          *)
(* The minimum cut, for any graph, capacities and interleaving of threads within  *)
(* a kernel: what the loop leaves when it stops is a minimum cut.  Whatever a push   *)
(* moves, every cut has lost the same capacity, the excess that waits counted on     *)
(* the side of its node (FlowCrossesAll).  Pushes along one edge cannot go both      *)
(* ways, as they go down by one: so what a thread read of an edge is still there     *)
(* when it writes (PushesApart), and a push opens edges that lead up only, so that   *)
(* heights stay valid (Legal).  Nothing that waits is forgotten (WaitingListed):     *)
(* when the loop stops no node with a height has excess, and the last search from    *)
(* the sink finds the cut.  The search needs no more than N rounds, as the labels it *)
(* gives leave no gap (LabelsUpToN).                                            *)
(***************************************************************************)
EXTENDS MCReductions, Iteration, FiniteSetTheorems, FunctionTheorems, SequenceTheorems, TLAPS

-----------------------------------------------------------------------------
(* The end of the split-K GEMM. *)

SplitPlaces == {"add", "fence", "arrive", "finish", "done"}

SplitTyped ==
  /\ workspace \in [Cells -> Seq(Nat \X Warps)]
  /\ counter \in Nat
  /\ flight \in [Warps -> SUBSET Cells]
  /\ pc \in [Warps -> SplitPlaces]
  /\ launch \in Nat

\* Additions are in flight only until the fence.
FencedLanded == \A w \in Warps : flight[w] # {} => pc[w] = "fence"

Arrived == {w \in Warps : pc[w] \in {"finish", "done"}}

CounterCountsArrived == ~AllDone => counter = Cardinality(Arrived)

LastFinishes == \A w \in Warps : pc[w] = "finish" => \A v \in Warps \ {w} : pc[v] = "done"

\* The warps whose addition to an element has landed.
Landed(c) == {w \in Warps : pc[w] # "add" /\ c \notin flight[w]}

\* A sum that holds the contributions of a set of warps, each once.
SumOf(s, W, number) ==
  /\ Len(s) = Cardinality(W)
  /\ {s[i] : i \in DOMAIN s} = {<<number, w>> : w \in W}

SumsOfLanded == ~AllDone => \A c \in Cells : SumOf(workspace[c], Landed(c), launch)

SplitInv ==
  /\ SplitTyped
  /\ FencedLanded
  /\ CounterCountsArrived
  /\ LastFinishes
  /\ SumsOfLanded
  /\ SumsWholeAndScratchClean

LEMMA SubsetsCounted ==
  ASSUME IsFiniteSet(Warps)
  PROVE  \A W \in SUBSET Warps : IsFiniteSet(W) /\ Cardinality(W) \in Nat
BY FS_Subset, FS_CardinalityType

LEMMA AllButOne ==
  ASSUME IsFiniteSet(Warps), NEW W \in SUBSET Warps, NEW w \in Warps, w \notin W
  PROVE  Cardinality(W) = Cardinality(Warps) - 1 <=> W = Warps \ {w}
<1>1. IsFiniteSet(Warps \ {w}) /\ Cardinality(Warps \ {w}) = Cardinality(Warps) - 1
  BY FS_RemoveElement
<1>2. W \subseteq Warps \ {w}
  OBVIOUS
<1>3. Cardinality(W) = Cardinality(Warps \ {w}) => W = Warps \ {w}
  BY <1>1, <1>2, FS_Subset
<1> QED BY <1>1, <1>3

\* One more contribution.
LEMMA AppendedSum ==
  ASSUME IsFiniteSet(Warps), NEW number \in Nat, NEW s \in Seq(Nat \X Warps),
         NEW W \in SUBSET Warps, NEW w \in Warps, w \notin W, SumOf(s, W, number)
  PROVE  SumOf(Append(s, <<number, w>>), W \cup {w}, number)
<1> DEFINE t == Append(s, <<number, w>>)
<1>1. Len(t) = Len(s) + 1 /\ Len(s) \in Nat
  OBVIOUS
<1>2. Cardinality(W \cup {w}) = Cardinality(W) + 1
  BY SubsetsCounted, FS_AddElement
<1>3. DOMAIN s = 1 .. Len(s) /\ DOMAIN t = 1 .. Len(s) + 1
  OBVIOUS
<1>4. t[Len(s) + 1] = <<number, w>> /\ \A i \in 1 .. Len(s) : t[i] = s[i]
  OBVIOUS
<1>5. 1 .. Len(s) + 1 = (1 .. Len(s)) \cup {Len(s) + 1}
  BY <1>1
<1>6. {t[i] : i \in DOMAIN t} = {s[i] : i \in DOMAIN s} \cup {<<number, w>>}
  BY <1>3, <1>4, <1>5
<1>7. {s[i] : i \in DOMAIN s} = {<<number, v>> : v \in W} /\ Len(s) = Cardinality(W)
  BY DEF SumOf
<1>8. {t[i] : i \in DOMAIN t} = {<<number, v>> : v \in W \cup {w}}
  BY <1>6, <1>7
<1> QED BY <1>1, <1>2, <1>7, <1>8 DEF SumOf

LEMMA EmptySum == ASSUME NEW number PROVE SumOf(<<>>, {}, number)
BY FS_EmptySet DEF SumOf

LEMMA SplitInitInv == ASSUME IsFiniteSet(Warps), Warps # {} PROVE Init => SplitInv
<1> SUFFICES ASSUME Init PROVE SplitInv
  OBVIOUS
<1>1. ~AllDone
  BY DEF Init, AllDone
<1>2. SplitTyped
  BY DEF Init, SplitTyped, SplitPlaces
<1>3. Arrived = {} /\ \A c : Landed(c) = {}
  BY DEF Init, Arrived, Landed
<1>4. CounterCountsArrived
  BY <1>3, FS_EmptySet DEF Init, CounterCountsArrived
<1>5. SumsOfLanded
  BY <1>3, EmptySum DEF Init, SumsOfLanded
<1> QED
  BY <1>1, <1>2, <1>4, <1>5
     DEF Init, SplitInv, FencedLanded, LastFinishes, SumsWholeAndScratchClean

LEMMA AddInv == ASSUME SplitInv, NEW w \in Warps, Add(w) PROVE SplitInv'
<1>1. /\ pc[w] = "add" /\ pc' = [pc EXCEPT ![w] = "fence"]
      /\ flight' = [flight EXCEPT ![w] = Cells]
      /\ UNCHANGED <<workspace, counter, output, launch>>
  BY DEF Add, Goto
<1>2. SplitTyped'
  BY <1>1 DEF SplitInv, SplitTyped, SplitPlaces
<1>3. FencedLanded'
  BY <1>1 DEF SplitInv, SplitTyped, FencedLanded
<1>4. ~AllDone /\ ~AllDone'
  BY <1>1 DEF AllDone, SplitInv, SplitTyped
<1>5. Arrived' = Arrived
  BY <1>1 DEF Arrived, SplitInv, SplitTyped
<1>6. \A c \in Cells : Landed(c)' = Landed(c)
  BY <1>1 DEF Landed, SplitInv, SplitTyped
<1>7. LastFinishes'
  BY <1>1 DEF SplitInv, SplitTyped, LastFinishes
<1> QED
  BY <1>1, <1>2, <1>3, <1>4, <1>5, <1>6, <1>7
     DEF SplitInv, CounterCountsArrived, SumsOfLanded, SumsWholeAndScratchClean

LEMMA ReachInv ==
  ASSUME IsFiniteSet(Warps), SplitInv, NEW w \in Warps, NEW c \in Cells, Reach(w, c) PROVE SplitInv'
<1>1. /\ c \in flight[w]
      /\ workspace' = [workspace EXCEPT ![c] = Append(@, <<launch, w>>)]
      /\ flight' = [flight EXCEPT ![w] = @ \ {c}]
      /\ UNCHANGED <<counter, pc, output, launch>>
  BY DEF Reach, Of
<1>2. pc[w] = "fence" /\ ~AllDone /\ ~AllDone'
  BY <1>1 DEF SplitInv, FencedLanded, AllDone
<1>3. SplitTyped'
  BY <1>1 DEF SplitInv, SplitTyped
<1>4. FencedLanded'
  BY <1>1, <1>2 DEF SplitInv, SplitTyped, FencedLanded
<1>5. Landed(c)' = Landed(c) \cup {w} /\ w \notin Landed(c) /\ Landed(c) \subseteq Warps
  BY <1>1, <1>2 DEF Landed, SplitInv, SplitTyped
<1>6. \A d \in Cells \ {c} : Landed(d)' = Landed(d)
  BY <1>1 DEF Landed, SplitInv, SplitTyped
<1>7. SumOf(workspace'[c], Landed(c)', launch')
  <2>1. SumOf(workspace[c], Landed(c), launch)
    BY <1>2 DEF SplitInv, SumsOfLanded
  <2>2. workspace[c] \in Seq(Nat \X Warps) /\ launch \in Nat
        /\ workspace'[c] = Append(workspace[c], <<launch, w>>) /\ launch' = launch
    BY <1>1 DEF SplitInv, SplitTyped
  <2> QED BY <2>1, <2>2, <1>5, AppendedSum
<1>8. \A d \in Cells \ {c} : SumOf(workspace'[d], Landed(d)', launch')
  BY <1>1, <1>2, <1>6 DEF SplitInv, SplitTyped, SumsOfLanded
<1>9. SumsOfLanded'
  BY <1>7, <1>8 DEF SumsOfLanded
<1>10. Arrived' = Arrived
  BY <1>1 DEF Arrived
<1> QED
  BY <1>1, <1>2, <1>3, <1>4, <1>9, <1>10
     DEF SplitInv, LastFinishes, CounterCountsArrived, SumsWholeAndScratchClean

LEMMA SplitFenceInv == ASSUME SplitInv, NEW w \in Warps, Fence(w) PROVE SplitInv'
<1>1. /\ pc[w] = "fence" /\ flight[w] = {} /\ pc' = [pc EXCEPT ![w] = "arrive"]
      /\ UNCHANGED <<workspace, counter, flight, output, launch>>
  BY DEF Fence, Goto
<1>2. SplitTyped'
  BY <1>1 DEF SplitInv, SplitTyped, SplitPlaces
<1>3. FencedLanded'
  BY <1>1 DEF SplitInv, SplitTyped, FencedLanded
<1>4. ~AllDone /\ ~AllDone'
  BY <1>1 DEF AllDone, SplitInv, SplitTyped
<1>5. Arrived' = Arrived /\ \A c : Landed(c)' = Landed(c)
  BY <1>1 DEF Arrived, Landed, SplitInv, SplitTyped
<1>6. LastFinishes'
  BY <1>1 DEF SplitInv, SplitTyped, LastFinishes
<1> QED
  BY <1>1, <1>2, <1>3, <1>4, <1>5, <1>6
     DEF SplitInv, CounterCountsArrived, SumsOfLanded, SumsWholeAndScratchClean

\* The warp that finds all the others counted is the last one, and the only one.
LEMMA ArriveInv == ASSUME IsFiniteSet(Warps), SplitInv, NEW w \in Warps, Arrive(w) PROVE SplitInv'
<1>1. /\ pc[w] = "arrive" /\ counter' = counter + 1
      /\ pc' = [pc EXCEPT ![w] = IF counter = Cardinality(Warps) - 1 THEN "finish" ELSE "done"]
      /\ UNCHANGED <<workspace, flight, output, launch>>
  BY DEF Arrive, Goto
<1>2. ~AllDone /\ counter = Cardinality(Arrived)
  BY <1>1 DEF AllDone, SplitInv, CounterCountsArrived
<1>3. Arrived \subseteq Warps /\ w \notin Arrived
  BY <1>1 DEF Arrived
<1>4. counter = Cardinality(Warps) - 1 <=> Arrived = Warps \ {w}
  BY <1>2, <1>3, AllButOne
<1>5. \A v \in Warps : pc[v] # "finish"
  BY <1>1 DEF SplitInv, LastFinishes
<1>6. Arrived' = Arrived \cup {w}
  BY <1>1 DEF Arrived, SplitInv, SplitTyped
<1>7. ~AllDone'
  <2>1. CASE Arrived = Warps \ {w}
    BY <2>1, <1>1, <1>4 DEF AllDone, SplitInv, SplitTyped
  <2>2. CASE Arrived # Warps \ {w}
    <3>1. PICK v \in Warps : v # w /\ v \notin Arrived
      BY <2>2, <1>3
    <3> QED BY <3>1, <1>1 DEF AllDone, Arrived, SplitInv, SplitTyped
  <2> QED BY <2>1, <2>2
<1>8. counter' = Cardinality(Arrived')
  BY <1>1, <1>2, <1>3, <1>6, SubsetsCounted, FS_AddElement
<1>9. LastFinishes'
  <2>1. CASE Arrived = Warps \ {w}
    BY <2>1, <1>1, <1>5 DEF LastFinishes, Arrived, SplitInv, SplitTyped
  <2>2. CASE Arrived # Warps \ {w}
    BY <2>2, <1>1, <1>4, <1>5 DEF LastFinishes, SplitInv, SplitTyped
  <2> QED BY <2>1, <2>2
<1>10. SplitTyped'
  BY <1>1 DEF SplitInv, SplitTyped, SplitPlaces
<1>11. FencedLanded'
  BY <1>1 DEF SplitInv, SplitTyped, FencedLanded
<1>12. \A c : Landed(c)' = Landed(c)
  BY <1>1 DEF Landed, SplitInv, SplitTyped
<1> QED
  BY <1>1, <1>2, <1>7, <1>8, <1>9, <1>10, <1>11, <1>12
     DEF SplitInv, CounterCountsArrived, SumsOfLanded, SumsWholeAndScratchClean

LEMMA FinishInv == ASSUME SplitInv, NEW w \in Warps, Finish(w) PROVE SplitInv'
<1>1. /\ pc[w] = "finish" /\ output' = workspace
      /\ workspace' = [c \in Cells |-> <<>>] /\ counter' = 0
      /\ pc' = [pc EXCEPT ![w] = "done"] /\ UNCHANGED <<flight, launch>>
  BY DEF Finish, Goto
<1>2. ~AllDone /\ \A v \in Warps \ {w} : pc[v] = "done"
  BY <1>1 DEF AllDone, SplitInv, LastFinishes
<1>3. AllDone'
  BY <1>1, <1>2 DEF AllDone, SplitInv, SplitTyped
<1>4. \A c \in Cells : Landed(c) = Warps
  BY <1>1, <1>2 DEF Landed, SplitInv, FencedLanded
<1>5. \A c \in Cells : SumOf(output'[c], Warps, launch')
  BY <1>1, <1>2, <1>4 DEF SplitInv, SumsOfLanded
<1>6. SumsWholeAndScratchClean'
  BY <1>1, <1>5 DEF SumsWholeAndScratchClean, SumOf, Of
<1>7. SplitTyped'
  BY <1>1 DEF SplitInv, SplitTyped, SplitPlaces
<1>8. FencedLanded' /\ LastFinishes'
  BY <1>1, <1>2, <1>3 DEF SplitInv, SplitTyped, FencedLanded, LastFinishes, AllDone
<1> QED BY <1>3, <1>6, <1>7, <1>8 DEF SplitInv, CounterCountsArrived, SumsOfLanded

LEMMA LaunchInv == ASSUME Warps # {}, SplitInv, Launch PROVE SplitInv'
<1>1. /\ AllDone /\ launch' = launch + 1 /\ pc' = [w \in Warps |-> "add"]
      /\ UNCHANGED <<workspace, counter, flight, output>>
  BY DEF Launch
<1>2. ~AllDone'
  BY <1>1 DEF AllDone
<1>3. counter' = 0 /\ \A c \in Cells : workspace'[c] = <<>>
  BY <1>1 DEF SplitInv, SumsWholeAndScratchClean
<1>4. Arrived' = {} /\ \A c : Landed(c)' = {}
  BY <1>1 DEF Arrived, Landed
<1>5. CounterCountsArrived'
  BY <1>3, <1>4, FS_EmptySet DEF CounterCountsArrived
<1>6. SumsOfLanded'
  BY <1>3, <1>4, EmptySum DEF SumsOfLanded
<1>7. SplitTyped'
  BY <1>1 DEF SplitInv, SplitTyped, SplitPlaces
<1>8. FencedLanded' /\ LastFinishes'
  BY <1>1 DEF SplitInv, FencedLanded, AllDone, LastFinishes
<1> QED BY <1>2, <1>5, <1>6, <1>7, <1>8 DEF SplitInv, SumsWholeAndScratchClean

LEMMA SplitNextInv ==
  ASSUME IsFiniteSet(Warps), Warps # {}, SplitInv, [Next]_vars PROVE SplitInv'
<1>1. CASE UNCHANGED vars
  BY <1>1 DEF vars, SplitInv, SplitTyped, FencedLanded, CounterCountsArrived, LastFinishes, SumsOfLanded,
     SumsWholeAndScratchClean, AllDone, Arrived, Landed, Of
<1>2. ASSUME NEW w \in Warps, Step(w) PROVE SplitInv'
  BY <1>2, AddInv, ReachInv, SplitFenceInv, ArriveInv, FinishInv DEF Step
<1> QED BY <1>1, <1>2, LaunchInv DEF Next

-----------------------------------------------------------------------------
(* Powers of two. *)

\* The powers of two, from the number of subsets of a set.
LEMMA TwoPower ==
  ASSUME NEW w \in Nat
  PROVE  2 ^ w \in Nat \ {0} /\ 2 ^ (w + 1) = 2 * 2 ^ w
<1> DEFINE A == SUBSET (1 .. w)
           B == {T \cup {w + 1} : T \in A}
           AB == SUBSET (1 .. w + 1)
<1>1. /\ IsFiniteSet(1 .. w) /\ Cardinality(1 .. w) = w
      /\ IsFiniteSet(1 .. w + 1) /\ Cardinality(1 .. w + 1) = w + 1
  BY FS_Interval
<1>2. IsFiniteSet(A) /\ Cardinality(A) = 2 ^ w /\ Cardinality(AB) = 2 ^ (w + 1)
  BY <1>1, FS_SUBSET
<1>3. Cardinality(A) \in Nat /\ Cardinality(A) # 0
  <2>1. {} \in A
    OBVIOUS
  <2> HIDE DEF A
  <2> QED BY <2>1, <1>2, FS_CardinalityType, FS_EmptySet
<1>4. IsFiniteSet(B) /\ Cardinality(B) = Cardinality(A)
  <2> DEFINE f == [T \in A |-> T \cup {w + 1}]
  <2>1. f \in Bijection(A, B)
    <3>1. \A T \in A : w + 1 \notin T
      OBVIOUS
    <3>2. \A T, U \in A : f[T] = f[U] => T = U
      BY <3>1
    <3>3. f \in [A -> B] /\ \A b \in B : \E a \in A : f[a] = b
      OBVIOUS
    <3> HIDE DEF A, B, f
    <3> QED BY <3>2, <3>3, Fun_IsBij
  <2> HIDE DEF A, B, f
  <2> QED BY <1>2, <2>1, FS_Bijection DEF ExistsBijection
<1>5. AB = A \cup B
  <2>1. ASSUME NEW T \in AB PROVE T \in A \/ T \in B
    <3>1. CASE w + 1 \in T
      <4>1. T \ {w + 1} \in A /\ T = (T \ {w + 1}) \cup {w + 1}
        BY <3>1
      <4> QED BY <4>1
    <3>2. CASE w + 1 \notin T
      BY <3>2
    <3> QED BY <3>1, <3>2
  <2>2. A \subseteq AB /\ B \subseteq AB
    <3>1. 1 .. w \subseteq 1 .. w + 1 /\ w + 1 \in 1 .. w + 1
      OBVIOUS
    <3> HIDE DEF A
    <3>2. \A T \in A : T \in SUBSET (1 .. w)
      BY DEF A
    <3> QED BY <3>1, <3>2
  <2> HIDE DEF A, B, AB
  <2> QED BY <2>1, <2>2
<1>6. A \cap B = {}
  OBVIOUS
<1> HIDE DEF A, B, AB
<1>7. Cardinality(AB) = Cardinality(A) + Cardinality(B)
  BY <1>2, <1>3, <1>4, <1>5, <1>6, FS_Union, FS_EmptySet
<1> QED BY <1>2, <1>3, <1>4, <1>7

LEMMA PowerExceeds == ASSUME NEW w \in Nat PROVE w < 2 ^ w
<1> DEFINE T == {x \in Nat : x < 2 ^ x}
<1>1. 0 \in T
  <2>1. 2 ^ 0 = 1
    OBVIOUS
  <2> QED BY <2>1
<1>2. \A x \in 0 .. w - 1 : x \in T => x + 1 \in T
  BY TwoPower
<1>3. 0 .. w \subseteq T
  <2> HIDE DEF T
  <2> QED BY <1>1, <1>2, SetInduction
<1> QED BY <1>3

-----------------------------------------------------------------------------
(* The number of leading bits that words share. *)

LEMMA LargestBelow ==
  ASSUME NEW w \in Nat, NEW S \in SUBSET (0 .. w), S # {}
  PROVE  Mesh!Max(S) \in S /\ \A x \in S : x <= Mesh!Max(S)
<1> DEFINE T == {w - x : x \in S}
<1>0. \A x \in S : x \in Nat /\ w - x \in Nat
  OBVIOUS
<1>1. T \in SUBSET Nat /\ T # {}
  BY <1>0
<1>2. PICK t \in T : \A y \in T : t <= y
  BY <1>1, LeastNatural
<1>3. PICK x \in S : t = w - x
  BY <1>2
<1>4. \A y \in S : w - y \in T
  OBVIOUS
<1>5. ASSUME NEW y \in S PROVE x >= y
  <2>1. w - x <= w - y
    BY <1>2, <1>3, <1>4
  <2>2. x \in Nat /\ y \in Nat
    BY <1>0
  <2> QED BY <2>1, <2>2
<1>6. Mesh!Max(S) \in S /\ \A y \in S : Mesh!Max(S) >= y
  BY <1>5 DEF Mesh!Max
<1> QED BY <1>6

\* The leading z of w bits are the same.
Agree(w, z, a, b) == a \div 2 ^ (w - z) = b \div 2 ^ (w - z)

LEMMA DivisionNatural ==
  ASSUME NEW a \in Nat, NEW q \in Nat \ {0} PROVE a \div q \in Nat
OBVIOUS

LEMMA DivisionMonotone ==
  ASSUME NEW a \in Nat, NEW b \in Nat, NEW q \in Nat \ {0}, a <= b PROVE a \div q <= b \div q
OBVIOUS

LEMMA DivisionTwice ==
  ASSUME NEW a \in Nat, NEW q \in Nat \ {0} PROVE a \div (2 * q) = (a \div q) \div 2
OBVIOUS

\* One bit fewer.
LEMMA AgreeFewer ==
  ASSUME NEW w \in Nat, NEW z \in 0 .. w - 1, NEW a \in Nat, NEW b \in Nat, Agree(w, z + 1, a, b)
  PROVE  Agree(w, z, a, b)
<1> DEFINE v == w - (z + 1)
<1>1. v \in Nat /\ w - z = v + 1
  OBVIOUS
<1>2. 2 ^ v \in Nat \ {0} /\ 2 ^ (w - z) = 2 * 2 ^ v
  BY <1>1, TwoPower
<1>3. a \div 2 ^ v = b \div 2 ^ v
  BY DEF Agree
<1>4. /\ a \div 2 ^ (w - z) = (a \div 2 ^ v) \div 2
      /\ b \div 2 ^ (w - z) = (b \div 2 ^ v) \div 2
  BY <1>2, DivisionTwice
<1> QED BY <1>3, <1>4 DEF Agree

LEMMA AgreeNone ==
  ASSUME NEW w \in Nat, NEW a \in 0 .. 2 ^ w - 1, NEW b \in 0 .. 2 ^ w - 1 PROVE Agree(w, 0, a, b)
<1>1. 2 ^ w \in Nat \ {0} /\ w - 0 = w
  BY TwoPower
<1>2. ASSUME NEW q \in Nat \ {0}, NEW x \in 0 .. q - 1 PROVE x \div q = 0
  BY <1>2
<1> QED BY <1>1, <1>2 DEF Agree

LEMMA AgreeAll ==
  ASSUME NEW w \in Nat, NEW a \in Nat, NEW b \in Nat PROVE Agree(w, w, a, b) <=> a = b
<1>1. 2 ^ (w - w) = 1
  OBVIOUS
<1>2. a \div 1 = a /\ b \div 1 = b
  OBVIOUS
<1> QED BY <1>1, <1>2 DEF Agree

\* Words between two that agree agree with them.
LEMMA AgreeBetween ==
  ASSUME NEW w \in Nat, NEW z \in 0 .. w, NEW a \in Nat, NEW b \in Nat, NEW c \in Nat,
         a <= b, b <= c, Agree(w, z, a, c)
  PROVE  Agree(w, z, a, b) /\ Agree(w, z, b, c)
<1> DEFINE q == 2 ^ (w - z)
<1>1. q \in Nat \ {0}
  BY TwoPower
<1> HIDE DEF q
<1>2. /\ a \div q <= b \div q /\ b \div q <= c \div q
      /\ a \div q \in Nat /\ b \div q \in Nat /\ c \div q \in Nat
  BY <1>1, DivisionMonotone, DivisionNatural
<1>3. a \div q = c \div q
  BY DEF Agree, q
<1>4. a \div q = b \div q /\ b \div q = c \div q
  BY <1>2, <1>3
<1> QED BY <1>4 DEF Agree, q

\* The next bit has only two values.
LEMMA AgreeOneMore ==
  ASSUME NEW w \in Nat, NEW z \in 0 .. w - 1, NEW a \in Nat, NEW b \in Nat, NEW c \in Nat,
         a <= b, b <= c, Agree(w, z, a, c)
  PROVE  Agree(w, z + 1, a, b) \/ Agree(w, z + 1, b, c)
<1> DEFINE v == w - (z + 1)
           q == 2 ^ v
<1>1. v \in Nat /\ w - z = v + 1
  OBVIOUS
<1>2. q \in Nat \ {0} /\ 2 ^ (w - z) = 2 * q
  BY <1>1, TwoPower
<1>3. a \div (2 * q) = c \div (2 * q)
  BY <1>2 DEF Agree
<1> HIDE DEF q
<1>4. (a \div q) \div 2 = (c \div q) \div 2
  BY <1>2, <1>3, DivisionTwice
<1>5. /\ a \div q <= b \div q /\ b \div q <= c \div q
      /\ a \div q \in Nat /\ b \div q \in Nat /\ c \div q \in Nat
  BY <1>2, DivisionMonotone, DivisionNatural
<1>6. ASSUME NEW x \in Nat, NEW y \in Nat, NEW u \in Nat, x <= y, y <= u, x \div 2 = u \div 2
      PROVE  x = y \/ y = u
  BY <1>6
<1>7. a \div q = b \div q \/ b \div q = c \div q
  BY <1>4, <1>5, <1>6
<1> QED BY <1>7 DEF Agree, q

LEMMA AgreeDown ==
  ASSUME NEW w \in Nat, NEW z \in 0 .. w, NEW a \in Nat, NEW b \in Nat, Agree(w, z, a, b)
  PROVE  \A y \in 0 .. z : Agree(w, y, a, b)
<1> DEFINE T == {x \in 0 .. z : Agree(w, z - x, a, b)}
<1>1. 0 \in T
  OBVIOUS
<1>2. ASSUME NEW x \in 0 .. z - 1, x \in T PROVE x + 1 \in T
  <2>1. z - (x + 1) \in 0 .. w - 1 /\ (z - (x + 1)) + 1 = z - x
    OBVIOUS
  <2>2. Agree(w, z - x, a, b)
    BY <1>2
  <2>3. Agree(w, z - (x + 1), a, b)
    BY <2>1, <2>2, AgreeFewer
  <2> QED BY <2>3
<1>3. 0 .. z \subseteq T
  <2> HIDE DEF T
  <2> QED BY <1>1, <1>2, SetInduction
<1>4. ASSUME NEW y \in 0 .. z PROVE Agree(w, y, a, b)
  <2>1. z - y \in 0 .. z /\ z - (z - y) = y
    OBVIOUS
  <2>2. z - y \in T
    BY <1>3, <2>1
  <2> QED BY <2>1, <2>2
<1> QED BY <1>4

LEMMA SharedBitsAgree ==
  ASSUME NEW w \in Nat, NEW a \in 0 .. 2 ^ w - 1, NEW b \in 0 .. 2 ^ w - 1
  PROVE  /\ Mesh!SharedBits(w, a, b) \in 0 .. w
         /\ \A z \in 0 .. w : z <= Mesh!SharedBits(w, a, b) <=> Agree(w, z, a, b)
<1> DEFINE S == {z \in 0 .. w : Agree(w, z, a, b)}
           m == Mesh!SharedBits(w, a, b)
<1>1. a \in Nat /\ b \in Nat
  BY TwoPower
<1>2. 0 \in S
  BY AgreeNone
<1>3. m = Mesh!Max(S)
  BY DEF Mesh!SharedBits, Agree
<1>4. m \in S /\ \A x \in S : x <= m
  <2>1. S \in SUBSET (0 .. w) /\ S # {}
    BY <1>2
  <2> HIDE DEF S, m
  <2> QED BY <2>1, <1>3, LargestBelow
<1>5. \A z \in 0 .. m : Agree(w, z, a, b)
  <2>1. m \in 0 .. w /\ Agree(w, m, a, b)
    BY <1>4
  <2> HIDE DEF S, m
  <2> QED BY <1>1, <2>1, AgreeDown
<1>6. ASSUME NEW z \in 0 .. w, Agree(w, z, a, b) PROVE z <= m
  BY <1>4, <1>6
<1>7. m \in 0 .. w
  BY <1>4
<1> HIDE DEF m
<1>8. \A z \in 0 .. w : z <= m <=> Agree(w, z, a, b)
  BY <1>5, <1>6, <1>7
<1> QED BY <1>7, <1>8 DEF m

-----------------------------------------------------------------------------
(* common_prefix of sorted codes, as a table D[i][j]. *)

KeysAssumed(k, codes) ==
  /\ CodeBits \in Nat /\ IndexBits \in Nat
  /\ k \in Nat \ {0} /\ k <= 2 ^ IndexBits
  /\ codes \in Mesh!SortedCodes(k)

LEMMA CodesOrdered ==
  ASSUME NEW k, NEW codes, KeysAssumed(k, codes)
  PROVE  /\ DOMAIN codes = 0 .. k - 1
         /\ \A i \in 0 .. k - 1 : codes[i] \in 0 .. 2 ^ CodeBits - 1 /\ codes[i] \in Nat
         /\ \A i \in 0 .. k - 1 : i \in 0 .. 2 ^ IndexBits - 1
         /\ \A i, j \in 0 .. k - 1 : i <= j => codes[i] <= codes[j]
<1>1. /\ codes \in [0 .. k - 1 -> 0 .. 2 ^ CodeBits - 1]
      /\ \A i \in 1 .. k - 1 : codes[i - 1] <= codes[i]
      /\ k \in Nat \ {0} /\ k <= 2 ^ IndexBits
      /\ 2 ^ CodeBits \in Nat /\ 2 ^ IndexBits \in Nat
  BY TwoPower DEF KeysAssumed, Mesh!SortedCodes
<1>2. \A i \in 0 .. k - 1 : codes[i] \in 0 .. 2 ^ CodeBits - 1 /\ codes[i] \in Nat
  BY <1>1
<1>3. \A i \in 0 .. k - 1 : i \in 0 .. 2 ^ IndexBits - 1
  BY <1>1
<1>4. ASSUME NEW i \in 0 .. k - 1, NEW j \in 0 .. k - 1, i <= j PROVE codes[i] <= codes[j]
  <2> DEFINE T == {d \in 0 .. k - 1 - i : codes[i] <= codes[i + d]}
  <2>1. 0 \in T
    BY <1>1, <1>2
  <2>2. ASSUME NEW d \in 0 .. (j - i) - 1, d \in T PROVE d + 1 \in T
    <3>1. i + (d + 1) \in 1 .. k - 1 /\ i + (d + 1) - 1 = i + d /\ i + d \in 0 .. k - 1
          /\ d + 1 \in 0 .. k - 1 - i
      BY <1>1, <1>4
    <3>2. codes[i + d] <= codes[i + (d + 1)] /\ codes[i] <= codes[i + d]
      BY <1>1, <2>2, <3>1
    <3>3. codes[i] \in Nat /\ codes[i + d] \in Nat /\ codes[i + (d + 1)] \in Nat
      BY <1>1, <1>2, <3>1
    <3> QED BY <3>1, <3>2, <3>3
  <2>3. j - i \in Nat /\ i + (j - i) = j
    BY <1>4
  <2>4. j - i \in 0 .. j - i
    BY <2>3
  <2>5. 0 .. j - i \subseteq T
    <3> HIDE DEF T
    <3> QED BY <2>1, <2>2, <2>3, SetInduction
  <2> QED BY <2>3, <2>4, <2>5
<1> QED BY <1>1, <1>2, <1>3, <1>4

\* Keys i and j, codes with their indices behind them, agree in p bits.
AgreeKeys(codes, p, i, j) ==
  IF p <= CodeBits THEN Agree(CodeBits, p, codes[i], codes[j])
  ELSE codes[i] = codes[j] /\ Agree(IndexBits, p - CodeBits, i, j)

LEMMA PrefixAgrees ==
  ASSUME NEW k, NEW codes, KeysAssumed(k, codes), NEW i \in 0 .. k - 1, NEW j \in 0 .. k - 1
  PROVE  /\ Mesh!common_prefix(codes, i, j) \in 0 .. CodeBits + IndexBits
         /\ \A p \in 0 .. CodeBits + IndexBits :
              p <= Mesh!common_prefix(codes, i, j) <=> AgreeKeys(codes, p, i, j)
<1> DEFINE m == Mesh!common_prefix(codes, i, j)
<1>1. /\ CodeBits \in Nat /\ IndexBits \in Nat
      /\ i \in 0 .. 2 ^ IndexBits - 1 /\ j \in 0 .. 2 ^ IndexBits - 1
      /\ codes[i] \in 0 .. 2 ^ CodeBits - 1 /\ codes[j] \in 0 .. 2 ^ CodeBits - 1
      /\ codes[i] \in Nat /\ codes[j] \in Nat /\ j \in DOMAIN codes
  BY CodesOrdered DEF KeysAssumed
<1>2. CASE codes[i] = codes[j]
  <2> DEFINE b == Mesh!SharedBits(IndexBits, i, j)
  <2>1. m = CodeBits + b
    BY <1>1, <1>2 DEF Mesh!common_prefix
  <2>2. b \in 0 .. IndexBits /\ \A z \in 0 .. IndexBits : z <= b <=> Agree(IndexBits, z, i, j)
    BY <1>1, SharedBitsAgree
  <2>3. \A p \in 0 .. CodeBits : AgreeKeys(codes, p, i, j)
    BY <1>1, <1>2 DEF AgreeKeys, Agree
  <2>4. ASSUME NEW p \in 0 .. CodeBits + IndexBits PROVE p <= CodeBits + b <=> AgreeKeys(codes, p, i, j)
    <3>1. CASE p <= CodeBits
      BY <1>1, <2>2, <2>3, <3>1
    <3>2. CASE ~(p <= CodeBits)
      <4>1. p - CodeBits \in 0 .. IndexBits
        BY <1>1, <3>2
      <4>2. p - CodeBits <= b <=> Agree(IndexBits, p - CodeBits, i, j)
        BY <2>2, <4>1
      <4>3. AgreeKeys(codes, p, i, j) <=> Agree(IndexBits, p - CodeBits, i, j)
        BY <1>2, <3>2 DEF AgreeKeys
      <4> HIDE DEF b
      <4>4. p <= CodeBits + b <=> p - CodeBits <= b
        BY <1>1, <2>2
      <4> QED BY <4>2, <4>3, <4>4
    <3> QED BY <3>1, <3>2
  <2> HIDE DEF b
  <2>5. CodeBits + b \in 0 .. CodeBits + IndexBits
    BY <1>1, <2>2
  <2> QED BY <2>1, <2>4, <2>5
<1>3. CASE codes[i] # codes[j]
  <2>1. m = Mesh!SharedBits(CodeBits, codes[i], codes[j])
    BY <1>1, <1>3 DEF Mesh!common_prefix
  <2>2. m \in 0 .. CodeBits /\ \A z \in 0 .. CodeBits : z <= m <=> Agree(CodeBits, z, codes[i], codes[j])
    BY <1>1, <2>1, SharedBitsAgree
  <2> HIDE DEF m
  <2>3. ASSUME NEW p \in 0 .. CodeBits + IndexBits PROVE p <= m <=> AgreeKeys(codes, p, i, j)
    <3>1. CASE p <= CodeBits
      BY <1>1, <2>2, <3>1 DEF AgreeKeys
    <3>2. CASE ~(p <= CodeBits)
      BY <1>1, <1>3, <2>2, <3>2 DEF AgreeKeys
    <3> QED BY <3>1, <3>2
  <2>4. m \in 0 .. CodeBits + IndexBits
    BY <1>1, <2>2
  <2> QED BY <2>3, <2>4 DEF m
<1> QED BY <1>2, <1>3

LEMMA PrefixSymmetric ==
  ASSUME NEW k, NEW codes, KeysAssumed(k, codes), NEW i \in 0 .. k - 1, NEW j \in 0 .. k - 1
  PROVE  Mesh!common_prefix(codes, i, j) = Mesh!common_prefix(codes, j, i)
<1> DEFINE a == Mesh!common_prefix(codes, i, j)
           b == Mesh!common_prefix(codes, j, i)
           W == CodeBits + IndexBits
<1>1. \A p \in 0 .. W : AgreeKeys(codes, p, i, j) <=> AgreeKeys(codes, p, j, i)
  BY DEF AgreeKeys, Agree
<1>2. a \in 0 .. W /\ \A p \in 0 .. W : p <= a <=> AgreeKeys(codes, p, i, j)
  BY PrefixAgrees
<1>3. b \in 0 .. W /\ \A p \in 0 .. W : p <= b <=> AgreeKeys(codes, p, j, i)
  BY PrefixAgrees
<1>4. W \in Nat
  BY DEF KeysAssumed
<1> HIDE DEF a, b, W
<1>5. a <= b /\ b <= a
  BY <1>1, <1>2, <1>3, <1>4
<1>6. a = b
  BY <1>2, <1>3, <1>4, <1>5
<1> QED BY <1>6 DEF a, b

LEMMA KeysBetween ==
  ASSUME NEW k, NEW codes, KeysAssumed(k, codes), NEW p \in 0 .. CodeBits + IndexBits,
         NEW i \in 0 .. k - 1, NEW j \in 0 .. k - 1, NEW l \in 0 .. k - 1, i <= j, j <= l,
         AgreeKeys(codes, p, i, l)
  PROVE  AgreeKeys(codes, p, i, j) /\ AgreeKeys(codes, p, j, l)
<1>1. /\ CodeBits \in Nat /\ IndexBits \in Nat /\ i \in Nat /\ j \in Nat /\ l \in Nat
      /\ codes[i] \in Nat /\ codes[j] \in Nat /\ codes[l] \in Nat
      /\ codes[i] <= codes[j] /\ codes[j] <= codes[l]
  BY CodesOrdered DEF KeysAssumed
<1>2. CASE p <= CodeBits
  <2>1. p \in 0 .. CodeBits /\ Agree(CodeBits, p, codes[i], codes[l])
    BY <1>1, <1>2 DEF AgreeKeys
  <2>2. Agree(CodeBits, p, codes[i], codes[j]) /\ Agree(CodeBits, p, codes[j], codes[l])
    BY <1>1, <2>1, AgreeBetween
  <2> QED BY <1>2, <2>2 DEF AgreeKeys
<1>3. CASE ~(p <= CodeBits)
  <2>1. p - CodeBits \in 0 .. IndexBits /\ codes[i] = codes[l] /\ Agree(IndexBits, p - CodeBits, i, l)
    BY <1>1, <1>3 DEF AgreeKeys
  <2>2. Agree(IndexBits, p - CodeBits, i, j) /\ Agree(IndexBits, p - CodeBits, j, l)
    BY <1>1, <2>1, AgreeBetween
  <2>3. codes[i] = codes[j] /\ codes[j] = codes[l]
    BY <1>1, <2>1
  <2> QED BY <1>3, <2>2, <2>3 DEF AgreeKeys
<1> QED BY <1>2, <1>3

LEMMA KeysOneMore ==
  ASSUME NEW k, NEW codes, KeysAssumed(k, codes), NEW p \in 0 .. CodeBits + IndexBits - 1,
         NEW i \in 0 .. k - 1, NEW j \in 0 .. k - 1, NEW l \in 0 .. k - 1, i <= j, j <= l,
         AgreeKeys(codes, p, i, l)
  PROVE  AgreeKeys(codes, p + 1, i, j) \/ AgreeKeys(codes, p + 1, j, l)
<1>1. /\ CodeBits \in Nat /\ IndexBits \in Nat /\ i \in Nat /\ j \in Nat /\ l \in Nat
      /\ i \in 0 .. 2 ^ IndexBits - 1 /\ l \in 0 .. 2 ^ IndexBits - 1
      /\ codes[i] \in Nat /\ codes[j] \in Nat /\ codes[l] \in Nat
      /\ codes[i] <= codes[j] /\ codes[j] <= codes[l]
  BY CodesOrdered DEF KeysAssumed
<1>2. CASE p + 1 <= CodeBits
  <2>1. p \in 0 .. CodeBits - 1 /\ Agree(CodeBits, p, codes[i], codes[l])
    BY <1>1, <1>2 DEF AgreeKeys
  <2>2. Agree(CodeBits, p + 1, codes[i], codes[j]) \/ Agree(CodeBits, p + 1, codes[j], codes[l])
    BY <1>1, <2>1, AgreeOneMore
  <2> QED BY <1>2, <2>2 DEF AgreeKeys
<1>3. CASE ~(p + 1 <= CodeBits)
  <2> DEFINE z == p - CodeBits
  <2>1. z \in 0 .. IndexBits - 1 /\ (p + 1) - CodeBits = z + 1
    BY <1>1, <1>3
  <2>2. codes[i] = codes[l] /\ Agree(IndexBits, z, i, l)
    <3>1. CASE p = CodeBits
      <4>1. Agree(CodeBits, CodeBits, codes[i], codes[l])
        BY <1>1, <3>1 DEF AgreeKeys
      <4>2. codes[i] = codes[l]
        BY <1>1, <4>1, AgreeAll
      <4>3. z = 0
        BY <1>1, <3>1
      <4>4. Agree(IndexBits, 0, i, l)
        BY <1>1, AgreeNone
      <4> QED BY <4>2, <4>3, <4>4
    <3>2. CASE p # CodeBits
      BY <1>1, <1>3, <3>2 DEF AgreeKeys
    <3> QED BY <3>1, <3>2
  <2> HIDE DEF z
  <2>3. Agree(IndexBits, z + 1, i, j) \/ Agree(IndexBits, z + 1, j, l)
    BY <1>1, <2>1, <2>2, AgreeOneMore
  <2>4. codes[i] = codes[j] /\ codes[j] = codes[l]
    BY <1>1, <2>2
  <2> QED BY <1>3, <2>1, <2>3, <2>4 DEF AgreeKeys
<1> QED BY <1>2, <1>3

LEMMA KeysDistinct ==
  ASSUME NEW k, NEW codes, KeysAssumed(k, codes), NEW i \in 0 .. k - 1, NEW j \in 0 .. k - 1,
         AgreeKeys(codes, CodeBits + IndexBits, i, j)
  PROVE  i = j
<1>1. /\ CodeBits \in Nat /\ IndexBits \in Nat /\ i \in Nat /\ j \in Nat
      /\ i \in 0 .. 2 ^ IndexBits - 1 /\ j \in 0 .. 2 ^ IndexBits - 1
  BY CodesOrdered DEF KeysAssumed
<1>2. CASE IndexBits = 0
  <2>1. 2 ^ IndexBits = 1
    BY <1>2
  <2> QED BY <1>1, <2>1
<1>3. CASE IndexBits # 0
  <2>1. ~(CodeBits + IndexBits <= CodeBits) /\ (CodeBits + IndexBits) - CodeBits = IndexBits
    BY <1>1, <1>3
  <2>2. Agree(IndexBits, IndexBits, i, j)
    BY <2>1 DEF AgreeKeys
  <2> QED BY <1>1, <2>2, AgreeAll
<1> QED BY <1>2, <1>3

\* Of three keys in order: the outer two share what both pairs share, and the pairs
\* do not share the same.
LEMMA PrefixOfThree ==
  ASSUME NEW k, NEW codes, KeysAssumed(k, codes),
         NEW i \in 0 .. k - 1, NEW j \in 0 .. k - 1, NEW l \in 0 .. k - 1, i < j, j < l,
         NEW a, NEW b, NEW c, a = Mesh!common_prefix(codes, i, j),
         b = Mesh!common_prefix(codes, j, l), c = Mesh!common_prefix(codes, i, l)
  PROVE  c <= a /\ c <= b /\ (a <= c \/ b <= c) /\ a # b
<1> DEFINE W == CodeBits + IndexBits
<1>1. /\ a \in 0 .. W /\ \A p \in 0 .. W : p <= a <=> AgreeKeys(codes, p, i, j)
      /\ b \in 0 .. W /\ \A p \in 0 .. W : p <= b <=> AgreeKeys(codes, p, j, l)
      /\ c \in 0 .. W /\ \A p \in 0 .. W : p <= c <=> AgreeKeys(codes, p, i, l)
  BY PrefixAgrees
<1>2. W \in Nat /\ i <= j /\ j <= l
  BY DEF KeysAssumed
<1>3. c <= a /\ c <= b
  <2>1. AgreeKeys(codes, c, i, l)
    BY <1>1, <1>2
  <2>2. AgreeKeys(codes, c, i, j) /\ AgreeKeys(codes, c, j, l)
    BY <1>1, <1>2, <2>1, KeysBetween
  <2> QED BY <1>1, <2>2
<1>4. ASSUME NEW p \in 0 .. W, p <= a, p <= b PROVE p <= c
  <2>1. AgreeKeys(codes, p, i, j) /\ AgreeKeys(codes, p, j, l)
    BY <1>1, <1>4
  <2>2. AgreeKeys(codes, p, i, l)
    BY <2>1 DEF AgreeKeys, Agree
  <2> QED BY <1>1, <2>2
<1>5. a <= c \/ b <= c
  <2>1. CASE a <= b
    BY <1>1, <1>2, <1>4, <2>1
  <2>2. CASE b <= a
    BY <1>1, <1>2, <1>4, <2>2
  <2> HIDE DEF W
  <2> QED BY <1>1, <1>2, <2>1, <2>2
<1>6. ASSUME a = b PROVE FALSE
  <2>1. AgreeKeys(codes, a, i, l) /\ a # W
    <3>1. a <= c
      BY <1>1, <1>5, <1>6
    <3>2. AgreeKeys(codes, a, i, l) /\ AgreeKeys(codes, a, i, j)
      BY <1>1, <3>1
    <3>3. a # W
      BY <3>2, KeysDistinct
    <3> QED BY <3>2, <3>3
  <2>2. a \in 0 .. W - 1 /\ a + 1 \in 0 .. W
    BY <1>1, <1>2, <2>1
  <2>3. AgreeKeys(codes, a + 1, i, j) \/ AgreeKeys(codes, a + 1, j, l)
    <3>1. a \in 0 .. CodeBits + IndexBits - 1
      BY <2>2 DEF KeysAssumed
    <3>2. AgreeKeys(codes, a, i, l) /\ i <= j /\ j <= l
      BY <1>2, <2>1
    <3> HIDE DEF W
    <3> QED BY <3>1, <3>2, KeysOneMore
  <2>4. a + 1 <= a \/ a + 1 <= b
    BY <1>1, <2>2, <2>3
  <2> QED BY <1>1, <1>2, <1>6, <2>4
<1> QED BY <1>3, <1>5, <1>6

\* What the table says, whatever the codes.
Prefixes(k, D) ==
  /\ k \in Nat \ {0}
  /\ \A i \in 0 .. k - 1, j \in Int : D[i][j] \in Int /\ D[i][j] >= -1
  /\ \A i, j \in 0 .. k - 1 : D[i][j] >= 0 /\ D[i][j] = D[j][i]
  /\ \A i \in 0 .. k - 1 : \A j \in Int \ (0 .. k - 1) : D[i][j] = -1
  /\ \A i, j, l \in 0 .. k - 1 :
       i < j /\ j < l => /\ D[i][l] <= D[i][j] /\ D[i][l] <= D[j][l]
                         /\ D[i][j] <= D[i][l] \/ D[j][l] <= D[i][l]
                         /\ D[i][j] # D[j][l]

PrefixTable(k, codes) == [i \in 0 .. k - 1 |-> [j \in Int |-> Mesh!common_prefix(codes, i, j)]]

LEMMA TableOfPrefixes ==
  ASSUME NEW k, NEW codes, KeysAssumed(k, codes) PROVE Prefixes(k, PrefixTable(k, codes))
<1> DEFINE D == PrefixTable(k, codes)
<1>1. \A i \in 0 .. k - 1, j \in Int : D[i][j] = Mesh!common_prefix(codes, i, j)
  BY DEF PrefixTable
<1>2. k \in Nat \ {0} /\ CodeBits + IndexBits \in Nat /\ DOMAIN codes = 0 .. k - 1
  BY CodesOrdered DEF KeysAssumed
<1> HIDE DEF D
<1>3. \A i \in 0 .. k - 1 : \A j \in Int \ (0 .. k - 1) : D[i][j] = -1
  BY <1>1, <1>2 DEF Mesh!common_prefix
<1>4. ASSUME NEW i \in 0 .. k - 1, NEW j \in 0 .. k - 1
      PROVE  D[i][j] \in Int /\ D[i][j] >= 0 /\ D[i][j] = D[j][i]
  <2>1. D[i][j] = Mesh!common_prefix(codes, i, j) /\ D[j][i] = Mesh!common_prefix(codes, j, i)
    BY <1>1
  <2>2. D[i][j] \in 0 .. CodeBits + IndexBits
    BY <2>1, PrefixAgrees
  <2> QED BY <1>2, <2>1, <2>2, PrefixSymmetric
<1>5. \A i \in 0 .. k - 1, j \in Int : D[i][j] \in Int /\ D[i][j] >= -1
  BY <1>3, <1>4
<1>6. ASSUME NEW i \in 0 .. k - 1, NEW j \in 0 .. k - 1, NEW l \in 0 .. k - 1, i < j, j < l
      PROVE  /\ D[i][l] <= D[i][j] /\ D[i][l] <= D[j][l]
             /\ D[i][j] <= D[i][l] \/ D[j][l] <= D[i][l]
             /\ D[i][j] # D[j][l]
  <2>1. /\ D[i][j] = Mesh!common_prefix(codes, i, j) /\ D[j][l] = Mesh!common_prefix(codes, j, l)
        /\ D[i][l] = Mesh!common_prefix(codes, i, l)
    BY <1>1
  <2> QED BY <1>6, <2>1, PrefixOfThree
<1>7. Prefixes(k, D)
  BY <1>2, <1>3, <1>4, <1>5, <1>6 DEF Prefixes
<1> QED BY <1>7 DEF D

-----------------------------------------------------------------------------
(* The ranges of keys below the nodes. *)

\* Keys lo to hi share more than with a key beside them.
Block(k, D, lo, hi) ==
  /\ lo \in 0 .. k - 1 /\ hi \in 0 .. k - 1 /\ lo < hi
  /\ D[lo][lo - 1] < D[lo][hi] /\ D[hi][hi + 1] < D[lo][hi]

NodeOf(k, D, lo, hi) ==
  IF lo = hi THEN k - 1 + lo ELSE IF D[lo][lo - 1] >= D[hi][hi + 1] THEN lo ELSE hi

\* Keys lo to g and g + 1 to hi are the parts of the block of node i.
SplitsAt(k, D, i, lo, hi, g) ==
  /\ Block(k, D, lo, hi)
  /\ i = NodeOf(k, D, lo, hi)
  /\ g \in lo .. hi - 1 /\ D[g][g + 1] = D[lo][hi]

LEMMA ThreeKeys ==
  ASSUME NEW k, NEW D, Prefixes(k, D), NEW i \in 0 .. k - 1, NEW j \in 0 .. k - 1, NEW l \in 0 .. k - 1,
         i <= j, j <= l
  PROVE  /\ i < j => D[i][l] <= D[i][j]
         /\ j < l => D[i][l] <= D[j][l]
         /\ i < j /\ j < l => D[i][j] # D[j][l] /\ (D[i][j] <= D[i][l] \/ D[j][l] <= D[i][l])
<1>1. /\ D[i][j] \in Int /\ D[j][l] \in Int /\ D[i][l] \in Int /\ k \in Nat
  BY DEF Prefixes
<1>2. CASE i < j /\ j < l
  BY <1>2 DEF Prefixes
<1>3. CASE i = j \/ j = l
  BY <1>1, <1>3
<1> QED BY <1>1, <1>2, <1>3

LEMMA TableValues ==
  ASSUME NEW k, NEW D, Prefixes(k, D), NEW i \in 0 .. k - 1, NEW j \in Int
  PROVE  /\ k \in Nat \ {0} /\ D[i][j] \in Int /\ D[i][j] >= -1
         /\ j \in 0 .. k - 1 => D[i][j] >= 0 /\ D[i][j] = D[j][i]
         /\ j \notin 0 .. k - 1 => D[i][j] = -1
BY DEF Prefixes

LEMMA PartsAreBlocks ==
  ASSUME NEW k, NEW D, Prefixes(k, D), NEW lo, NEW hi, NEW g \in lo .. hi - 1, Block(k, D, lo, hi),
         D[g][g + 1] = D[lo][hi]
  PROVE  /\ lo < g => Block(k, D, lo, g)
         /\ g + 1 < hi => Block(k, D, g + 1, hi)
         /\ NodeOf(k, D, lo, g) = IF lo = g THEN k - 1 + g ELSE g
         /\ NodeOf(k, D, g + 1, hi) = IF g + 1 = hi THEN k + g ELSE g + 1
<1>1. /\ lo \in 0 .. k - 1 /\ hi \in 0 .. k - 1 /\ lo < hi /\ g \in 0 .. k - 1 /\ g + 1 \in 0 .. k - 1
      /\ k \in Nat \ {0} /\ lo <= g /\ g + 1 <= hi
      /\ D[lo][lo - 1] < D[lo][hi] /\ D[hi][hi + 1] < D[lo][hi]
  BY DEF Block, Prefixes
<1>2. /\ D[lo][lo - 1] \in Int /\ D[hi][hi + 1] \in Int /\ D[lo][hi] \in Int /\ D[lo][g] \in Int
      /\ D[g + 1][hi] \in Int /\ D[g + 1][g] = D[lo][hi] /\ D[lo][lo - 1] >= -1
  BY <1>1, TableValues
<1>3. ASSUME lo < g PROVE Block(k, D, lo, g) /\ D[g][g + 1] > D[lo][lo - 1]
  <2>1. D[lo][hi] <= D[lo][g]
    BY <1>1, <1>3, ThreeKeys
  <2>2. D[lo][g] # D[g][g + 1]
    BY <1>1, <1>3, ThreeKeys
  <2>3. D[lo][lo - 1] < D[lo][g] /\ D[g][g + 1] < D[lo][g]
    BY <1>1, <1>2, <2>1, <2>2
  <2> QED BY <1>1, <1>2, <1>3, <2>3 DEF Block
<1>4. ASSUME g + 1 < hi PROVE Block(k, D, g + 1, hi) /\ D[g + 1][g] >= D[hi][hi + 1]
  <2>1. D[lo][hi] <= D[g + 1][hi]
    BY <1>1, <1>4, ThreeKeys
  <2>2. D[g][g + 1] # D[g + 1][hi]
    BY <1>1, <1>4, ThreeKeys
  <2>3. D[g + 1][g] < D[g + 1][hi] /\ D[hi][hi + 1] < D[g + 1][hi]
    BY <1>1, <1>2, <2>1, <2>2
  <2>4. (g + 1) - 1 = g
    BY <1>1
  <2> QED BY <1>1, <1>2, <1>4, <2>3, <2>4 DEF Block
<1>5. NodeOf(k, D, lo, g) = IF lo = g THEN k - 1 + g ELSE g
  <2>1. CASE lo = g
    BY <2>1 DEF NodeOf
  <2>2. CASE lo # g
    <3>1. ~(D[lo][lo - 1] >= D[g][g + 1])
      BY <1>1, <1>2, <1>3, <2>2
    <3> QED BY <2>2, <3>1 DEF NodeOf
  <2> QED BY <2>1, <2>2
<1>6. NodeOf(k, D, g + 1, hi) = IF g + 1 = hi THEN k + g ELSE g + 1
  <2>1. (g + 1) - 1 = g /\ k - 1 + (g + 1) = k + g
    BY <1>1
  <2>2. CASE g + 1 = hi
    BY <2>1, <2>2 DEF NodeOf
  <2>3. CASE g + 1 # hi
    BY <1>1, <1>4, <2>1, <2>3 DEF NodeOf
  <2> QED BY <2>2, <2>3
<1> QED BY <1>3, <1>4, <1>5, <1>6

\* A node has one block.
LEMMA BlockOfNode ==
  ASSUME NEW k, NEW D, Prefixes(k, D), NEW a, NEW b, NEW c, NEW d,
         Block(k, D, a, b), Block(k, D, c, d), NodeOf(k, D, a, b) = NodeOf(k, D, c, d)
  PROVE  a = c /\ b = d
<1>1. /\ a \in 0 .. k - 1 /\ b \in 0 .. k - 1 /\ a < b
      /\ c \in 0 .. k - 1 /\ d \in 0 .. k - 1 /\ c < d
      /\ D[a][a - 1] < D[a][b] /\ D[b][b + 1] < D[a][b]
      /\ D[c][c - 1] < D[c][d] /\ D[d][d + 1] < D[c][d]
      /\ k \in Nat
  BY DEF Block, Prefixes
<1>2. /\ D[a][a - 1] \in Int /\ D[b][b + 1] \in Int /\ D[a][b] \in Int
      /\ D[c][c - 1] \in Int /\ D[d][d + 1] \in Int /\ D[c][d] \in Int
  BY <1>1, TableValues
<1>3. /\ NodeOf(k, D, a, b) = IF D[a][a - 1] >= D[b][b + 1] THEN a ELSE b
      /\ NodeOf(k, D, c, d) = IF D[c][c - 1] >= D[d][d + 1] THEN c ELSE d
  BY <1>1 DEF NodeOf
<1>4. CASE D[a][a - 1] >= D[b][b + 1] /\ D[c][c - 1] >= D[d][d + 1]
  <2>1. a = c
    BY <1>3, <1>4
  <2>2. ASSUME b < d PROVE FALSE
    <3>1. b + 1 \in 0 .. k - 1 /\ b + 1 <= d
      BY <1>1, <2>2
    <3>2. D[a][d] <= D[b][d] /\ D[b][d] <= D[b][b + 1]
      BY <1>1, <2>1, <2>2, <3>1, ThreeKeys
    <3>3. D[b][d] \in Int
      BY <1>1, TableValues
    <3> QED BY <1>1, <1>2, <1>4, <2>1, <3>2, <3>3
  <2>3. ASSUME d < b PROVE FALSE
    <3>1. d + 1 \in 0 .. k - 1 /\ d + 1 <= b
      BY <1>1, <2>3
    <3>2. D[c][b] <= D[d][b] /\ D[d][b] <= D[d][d + 1]
      BY <1>1, <2>1, <2>3, <3>1, ThreeKeys
    <3>3. D[d][b] \in Int
      BY <1>1, TableValues
    <3> QED BY <1>1, <1>2, <1>4, <2>1, <3>2, <3>3
  <2> QED BY <1>1, <2>1, <2>2, <2>3
<1>5. CASE ~(D[a][a - 1] >= D[b][b + 1]) /\ ~(D[c][c - 1] >= D[d][d + 1])
  <2>1. b = d
    BY <1>3, <1>5
  <2>2. ASSUME a < c PROVE FALSE
    <3>1. c - 1 \in 0 .. k - 1 /\ a <= c - 1
      BY <1>1, <2>2
    <3>2. D[a][b] <= D[a][c] /\ D[a][c] <= D[c - 1][c]
      BY <1>1, <2>1, <2>2, <3>1, ThreeKeys
    <3>3. D[a][c] \in Int /\ D[c - 1][c] = D[c][c - 1]
      BY <1>1, <3>1, TableValues
    <3> QED BY <1>1, <1>2, <1>5, <2>1, <3>2, <3>3
  <2>3. ASSUME c < a PROVE FALSE
    <3>1. a - 1 \in 0 .. k - 1 /\ c <= a - 1
      BY <1>1, <2>3
    <3>2. D[c][d] <= D[c][a] /\ D[c][a] <= D[a - 1][a]
      BY <1>1, <2>1, <2>3, <3>1, ThreeKeys
    <3>3. D[c][a] \in Int /\ D[a - 1][a] = D[a][a - 1]
      BY <1>1, <3>1, TableValues
    <3> QED BY <1>1, <1>2, <1>5, <2>1, <3>2, <3>3
  <2> QED BY <1>1, <2>1, <2>2, <2>3
<1>6. ASSUME NEW x, NEW y, NEW z, Block(k, D, y, z), Block(k, D, x, y), D[y][y - 1] >= D[z][z + 1]
      PROVE  FALSE
  <2>1. /\ x \in 0 .. k - 1 /\ y \in 0 .. k - 1 /\ z \in 0 .. k - 1 /\ x < y /\ y < z
        /\ y - 1 \in 0 .. k - 1 /\ y + 1 \in 0 .. k - 1
        /\ D[y][y - 1] < D[y][z] /\ D[y][y + 1] < D[x][y]
    BY <1>1, <1>6 DEF Block
  <2>2. D[y][z] <= D[y][y + 1] /\ D[x][y] <= D[y - 1][y]
    BY <2>1, ThreeKeys
  <2>3. /\ D[y][z] \in Int /\ D[y][y + 1] \in Int /\ D[x][y] \in Int /\ D[y][y - 1] \in Int
        /\ D[y - 1][y] = D[y][y - 1]
    BY <2>1, TableValues
  <2> QED BY <2>1, <2>2, <2>3
<1>7. CASE D[a][a - 1] >= D[b][b + 1] /\ ~(D[c][c - 1] >= D[d][d + 1])
  <2>1. a = d
    BY <1>3, <1>7
  <2> QED BY <1>6, <1>7, <2>1
<1>8. CASE ~(D[a][a - 1] >= D[b][b + 1]) /\ D[c][c - 1] >= D[d][d + 1]
  <2>1. b = c
    BY <1>3, <1>8
  <2> QED BY <1>6, <1>8, <2>1
<1> QED BY <1>4, <1>5, <1>7, <1>8

-----------------------------------------------------------------------------
(* Nodes split that way make a tree. *)

\* The keys below the nodes: of inner node i first[i] to last[i], split behind g[i].
Hierarchy(k, D, first, last, g, ch) ==
  /\ Prefixes(k, D)
  /\ first \in [0 .. 2 * k - 2 -> 0 .. k - 1] /\ last \in [0 .. 2 * k - 2 -> 0 .. k - 1]
  /\ \A i \in 0 .. k - 2 :
       /\ SplitsAt(k, D, i, first[i], last[i], g[i])
       /\ ch[i] = <<NodeOf(k, D, first[i], g[i]), NodeOf(k, D, g[i] + 1, last[i])>>
  /\ \A t \in k - 1 .. 2 * k - 2 : first[t] = t - (k - 1) /\ last[t] = t - (k - 1)

LEMMA NodeOfItsKeys ==
  ASSUME NEW k, NEW D, NEW first, NEW last, NEW g, NEW ch, Hierarchy(k, D, first, last, g, ch),
         NEW m \in 0 .. 2 * k - 2
  PROVE  m = NodeOf(k, D, first[m], last[m]) /\ first[m] <= last[m]
<1>1. k \in Nat \ {0} /\ first[m] \in 0 .. k - 1 /\ last[m] \in 0 .. k - 1
  BY DEF Hierarchy, Prefixes
<1>2. CASE m \in 0 .. k - 2
  BY <1>1, <1>2 DEF Hierarchy, SplitsAt, Block
<1>3. CASE m \in k - 1 .. 2 * k - 2
  <2>1. first[m] = m - (k - 1) /\ last[m] = m - (k - 1)
    BY <1>3 DEF Hierarchy
  <2>2. k - 1 + (m - (k - 1)) = m /\ m - (k - 1) \in Nat
    BY <1>1, <1>3
  <2> QED BY <2>1, <2>2 DEF NodeOf
<1> QED BY <1>1, <1>2, <1>3

\* What the children of an inner node hold.
LEMMA KeysOfChildren ==
  ASSUME NEW k, NEW D, NEW first, NEW last, NEW g, NEW ch, Hierarchy(k, D, first, last, g, ch),
         NEW i \in 0 .. k - 2, NEW a, NEW b, a = ch[i][1], b = ch[i][2]
  PROVE  /\ a \in 1 .. 2 * k - 2 /\ b \in 1 .. 2 * k - 2 /\ ch[i] = <<a, b>>
         /\ first[a] = first[i] /\ last[a] = g[i]
         /\ first[b] = g[i] + 1 /\ last[b] = last[i]
<1> DEFINE lo == first[i]
           hi == last[i]
           s == g[i]
<1>1. /\ Block(k, D, lo, hi) /\ s \in lo .. hi - 1 /\ D[s][s + 1] = D[lo][hi]
      /\ a = NodeOf(k, D, lo, s) /\ b = NodeOf(k, D, s + 1, hi) /\ ch[i] = <<a, b>>
  BY DEF Hierarchy, SplitsAt
<1>2. /\ Prefixes(k, D) /\ k \in Nat \ {0} /\ lo \in 0 .. k - 1 /\ hi \in 0 .. k - 1 /\ lo < hi
      /\ s \in 0 .. k - 2 /\ lo <= s /\ s + 1 <= hi
  <2>1. Prefixes(k, D) /\ k \in Nat \ {0}
    BY DEF Hierarchy, Prefixes
  <2>2. lo \in 0 .. k - 1 /\ hi \in 0 .. k - 1 /\ lo < hi
    BY <1>1 DEF Block
  <2>3. s \in lo .. hi - 1
    BY <1>1
  <2> HIDE DEF lo, hi, s
  <2> QED BY <2>1, <2>2, <2>3
<1> HIDE DEF lo, hi, s
<1>3. /\ lo < s => Block(k, D, lo, s)
      /\ s + 1 < hi => Block(k, D, s + 1, hi)
      /\ a = IF lo = s THEN k - 1 + s ELSE s
      /\ b = IF s + 1 = hi THEN k + s ELSE s + 1
  <2>1. Prefixes(k, D) /\ Block(k, D, lo, hi) /\ s \in lo .. hi - 1 /\ D[s][s + 1] = D[lo][hi]
    BY <1>1, <1>2
  <2>2. /\ lo < s => Block(k, D, lo, s)
        /\ s + 1 < hi => Block(k, D, s + 1, hi)
        /\ NodeOf(k, D, lo, s) = IF lo = s THEN k - 1 + s ELSE s
        /\ NodeOf(k, D, s + 1, hi) = IF s + 1 = hi THEN k + s ELSE s + 1
    BY <2>1, PartsAreBlocks
  <2> QED BY <1>1, <2>2
<1>4. \A x \in 0 .. k - 2 : Block(k, D, first[x], last[x]) /\ x = NodeOf(k, D, first[x], last[x])
  BY DEF Hierarchy, SplitsAt
<1>5. \A t \in k - 1 .. 2 * k - 2 : first[t] = t - (k - 1) /\ last[t] = t - (k - 1)
  BY DEF Hierarchy
<1>6. a \in 1 .. 2 * k - 2 /\ first[a] = lo /\ last[a] = s
  <2>1. CASE lo = s
    <3>1. a = k - 1 + s /\ a \in k - 1 .. 2 * k - 2 /\ a \in 1 .. 2 * k - 2 /\ a - (k - 1) = s
      BY <1>2, <1>3, <2>1
    <3> QED BY <1>5, <2>1, <3>1
  <2>2. CASE lo # s
    <3>1. a = s /\ a \in 0 .. k - 2 /\ a \in 1 .. 2 * k - 2 /\ Block(k, D, lo, s)
      BY <1>2, <1>3, <2>2
    <3>2. Block(k, D, first[a], last[a]) /\ NodeOf(k, D, first[a], last[a]) = NodeOf(k, D, lo, s)
      BY <1>1, <1>4, <3>1
    <3> QED BY <1>2, <3>1, <3>2, BlockOfNode
  <2> QED BY <2>1, <2>2
<1>7. b \in 1 .. 2 * k - 2 /\ first[b] = s + 1 /\ last[b] = hi
  <2>1. CASE s + 1 = hi
    <3>1. b = k + s /\ b \in k - 1 .. 2 * k - 2 /\ b \in 1 .. 2 * k - 2 /\ b - (k - 1) = s + 1
      BY <1>2, <1>3, <2>1
    <3> QED BY <1>5, <2>1, <3>1
  <2>2. CASE s + 1 # hi
    <3>1. b = s + 1 /\ b \in 0 .. k - 2 /\ b \in 1 .. 2 * k - 2 /\ Block(k, D, s + 1, hi)
      BY <1>2, <1>3, <2>2
    <3>2. Block(k, D, first[b], last[b]) /\ NodeOf(k, D, first[b], last[b]) = NodeOf(k, D, s + 1, hi)
      BY <1>1, <1>4, <3>1
    <3> QED BY <1>2, <3>1, <3>2, BlockOfNode
  <2> QED BY <2>1, <2>2
<1> QED BY <1>1, <1>6, <1>7 DEF lo, hi, s

LEMMA KeysOfRoot ==
  ASSUME NEW k, NEW D, NEW first, NEW last, NEW g, NEW ch, Hierarchy(k, D, first, last, g, ch)
  PROVE  first[0] = 0 /\ last[0] = k - 1
<1>1. k \in Nat \ {0} /\ Prefixes(k, D)
  BY DEF Hierarchy, Prefixes
<1>2. CASE k = 1
  <2>1. 0 \in k - 1 .. 2 * k - 2 /\ 0 - (k - 1) = 0 /\ k - 1 = 0
    BY <1>2
  <2> QED BY <2>1 DEF Hierarchy
<1>3. CASE k # 1
  <2>1. 0 \in 0 .. k - 2
    BY <1>1, <1>3
  <2> DEFINE lo == first[0]
             hi == last[0]
  <2>2. Block(k, D, lo, hi) /\ 0 = NodeOf(k, D, lo, hi)
    BY <2>1 DEF Hierarchy, SplitsAt
  <2> HIDE DEF lo, hi
  <2>3. lo \in 0 .. k - 1 /\ hi \in 0 .. k - 1 /\ lo < hi
    BY <2>2 DEF Block
  <2>4. lo = 0 /\ D[lo][lo - 1] >= D[hi][hi + 1]
    BY <1>1, <2>2, <2>3 DEF NodeOf
  <2>5. D[lo][lo - 1] = -1
    <3>1. lo - 1 \in Int /\ lo - 1 \notin 0 .. k - 1
      BY <2>4
    <3> QED BY <1>1, <2>3, <3>1, TableValues
  <2>6. hi + 1 \notin 0 .. k - 1
    <3>1. hi + 1 \in Int
      BY <1>1, <2>3
    <3> QED BY <1>1, <2>3, <2>4, <2>5, <3>1, TableValues
  <2>7. hi = k - 1
    BY <1>1, <2>3, <2>6
  <2> QED BY <2>4, <2>7 DEF lo, hi
<1> QED BY <1>2, <1>3

\* A node in a block, other than the block's own, lies in one of its parts.
LEMMA InOnePart ==
  ASSUME NEW k, NEW D, NEW first, NEW last, NEW g, NEW ch, Hierarchy(k, D, first, last, g, ch),
         NEW m \in 0 .. 2 * k - 2, NEW i \in 0 .. k - 2, m # i,
         first[i] <= first[m], last[m] <= last[i]
  PROVE  last[m] <= g[i] \/ g[i] + 1 <= first[m]
<1> DEFINE lo == first[m]
           hi == last[m]
           a == first[i]
           b == last[i]
           s == g[i]
<1>1. /\ Prefixes(k, D) /\ k \in Nat \ {0} /\ lo \in 0 .. k - 1 /\ hi \in 0 .. k - 1
      /\ a \in 0 .. k - 1 /\ b \in 0 .. k - 1 /\ s \in a .. b - 1 /\ D[s][s + 1] = D[a][b]
  BY DEF Hierarchy, Prefixes, SplitsAt, Block
<1>2. lo # a \/ hi # b
  <2>1. i \in 0 .. 2 * k - 2
    BY <1>1
  <2>2. m = NodeOf(k, D, lo, hi) /\ i = NodeOf(k, D, a, b)
    BY <2>1, NodeOfItsKeys
  <2> HIDE DEF lo, hi, a, b
  <2> QED BY <2>2
<1>3. SUFFICES ASSUME lo <= s, s + 1 <= hi PROVE FALSE
  <2> HIDE DEF lo, hi, s
  <2>1. ~(lo <= s /\ s + 1 <= hi) => hi <= s \/ s + 1 <= lo
    BY <1>1
  <2> QED BY <1>3, <2>1 DEF lo, hi, s
<1>4. m \in 0 .. k - 2
  <2>1. ~(m \in k - 1 .. 2 * k - 2)
    BY <1>1, <1>3 DEF Hierarchy
  <2> QED BY <1>1, <2>1
<1>5. D[lo][lo - 1] < D[lo][hi] /\ D[hi][hi + 1] < D[lo][hi] /\ lo < hi
  BY <1>4 DEF Hierarchy, SplitsAt, Block
<1>6. a <= lo /\ hi <= b
  OBVIOUS
<1> HIDE DEF lo, hi, a, b, s
<1>7. s \in 0 .. k - 1 /\ s + 1 \in 0 .. k - 1
  BY <1>1
<1>8. D[lo][hi] <= D[s][s + 1]
  <2>1. D[lo][hi] <= D[s][hi] /\ D[s][hi] <= D[s][s + 1]
    BY <1>1, <1>3, <1>7, ThreeKeys
  <2>2. D[lo][hi] \in Int /\ D[s][hi] \in Int /\ D[s][s + 1] \in Int
    BY <1>1, <1>7, TableValues
  <2> QED BY <2>1, <2>2
<1>9. ASSUME a < lo PROVE FALSE
  <2>1. lo - 1 \in 0 .. k - 1 /\ a <= lo - 1 /\ lo - 1 < lo /\ lo <= b
    BY <1>1, <1>5, <1>6, <1>9
  <2>2. D[a][b] <= D[a][lo] /\ D[a][lo] <= D[lo - 1][lo]
    BY <1>1, <1>6, <1>9, <2>1, ThreeKeys
  <2>3. D[lo - 1][lo] = D[lo][lo - 1]
    BY <1>1, <2>1, TableValues
  <2>4. D[a][b] \in Int /\ D[a][lo] \in Int /\ D[lo][lo - 1] \in Int /\ D[lo][hi] \in Int
    BY <1>1, TableValues
  <2> QED BY <1>1, <1>5, <1>8, <2>2, <2>3, <2>4
<1>10. ASSUME hi < b PROVE FALSE
  <2>1. hi + 1 \in 0 .. k - 1 /\ hi + 1 <= b /\ a <= hi
    BY <1>1, <1>5, <1>6, <1>10
  <2>2. D[a][b] <= D[hi][b] /\ D[hi][b] <= D[hi][hi + 1]
    BY <1>1, <1>6, <1>10, <2>1, ThreeKeys
  <2>3. D[a][b] \in Int /\ D[hi][b] \in Int /\ D[hi][hi + 1] \in Int /\ D[lo][hi] \in Int
    BY <1>1, TableValues
  <2> QED BY <1>1, <1>5, <1>8, <2>2, <2>3
<1> QED BY <1>1, <1>2, <1>6, <1>9, <1>10

LEMMA HasParent ==
  ASSUME NEW k, NEW D, NEW first, NEW last, NEW g, NEW ch, Hierarchy(k, D, first, last, g, ch),
         NEW m \in 1 .. 2 * k - 2
  PROVE  \E i \in 0 .. k - 2 : m = ch[i][1] \/ m = ch[i][2]
<1>1. /\ k \in Nat \ {0} /\ k # 1 /\ 0 \in 0 .. k - 2 /\ m \in 0 .. 2 * k - 2 /\ m # 0
      /\ first \in [0 .. 2 * k - 2 -> 0 .. k - 1] /\ last \in [0 .. 2 * k - 2 -> 0 .. k - 1]
  BY DEF Hierarchy, Prefixes
<1> DEFINE Around == {i \in 0 .. k - 2 : i # m /\ first[i] <= first[m] /\ last[m] <= last[i]}
           Sizes == {last[i] - first[i] : i \in Around}
<1>2. 0 \in Around
  <2>1. first[m] \in 0 .. k - 1 /\ last[m] \in 0 .. k - 1
    BY <1>1
  <2>2. first[0] = 0 /\ last[0] = k - 1
    BY KeysOfRoot
  <2>3. first[0] <= first[m] /\ last[m] <= last[0]
    BY <1>1, <2>1, <2>2
  <2> QED BY <1>1, <2>3
<1>3. \A i \in 0 .. k - 2 : /\ first[i] \in 0 .. k - 1 /\ last[i] \in 0 .. k - 1
                            /\ i \in 0 .. 2 * k - 2 /\ i = NodeOf(k, D, first[i], last[i])
                            /\ last[i] - first[i] \in Nat
  <2>1. ASSUME NEW i \in 0 .. k - 2
        PROVE  /\ first[i] \in 0 .. k - 1 /\ last[i] \in 0 .. k - 1
               /\ i \in 0 .. 2 * k - 2 /\ i = NodeOf(k, D, first[i], last[i])
               /\ last[i] - first[i] \in Nat
    <3>1. i \in 0 .. 2 * k - 2
      BY <1>1
    <3>2. first[i] \in 0 .. k - 1 /\ last[i] \in 0 .. k - 1
      BY <1>1, <3>1
    <3>3. i = NodeOf(k, D, first[i], last[i]) /\ first[i] <= last[i]
      BY <3>1, NodeOfItsKeys
    <3> QED BY <1>1, <3>1, <3>2, <3>3
  <2> QED BY <2>1
<1>4. Sizes \in SUBSET Nat /\ Sizes # {}
  BY <1>2, <1>3
<1>5. PICK z \in Sizes : \A y \in Sizes : z <= y
  BY <1>4, LeastNatural
<1>6. PICK i \in Around : z = last[i] - first[i]
  BY <1>5
<1>7. last[m] <= g[i] \/ g[i] + 1 <= first[m]
  BY <1>1, <1>6, InOnePart
<1>8. PICK a, b : a = ch[i][1] /\ b = ch[i][2]
  OBVIOUS
<1>9. /\ a \in 1 .. 2 * k - 2 /\ b \in 1 .. 2 * k - 2
      /\ first[a] = first[i] /\ last[a] = g[i] /\ first[b] = g[i] + 1 /\ last[b] = last[i]
  BY <1>6, <1>8, KeysOfChildren
<1>10. first[i] <= g[i] /\ g[i] < last[i] /\ g[i] \in Int
  <2>1. g[i] \in first[i] .. last[i] - 1
    BY <1>6 DEF Hierarchy, SplitsAt
  <2>2. first[i] \in Int /\ last[i] \in Int
    BY <1>3, <1>6
  <2> QED BY <2>1, <2>2
<1>11. first[m] \in Int /\ last[m] \in Int /\ first[i] \in Int /\ last[i] \in Int
       /\ first[i] <= first[m] /\ last[m] <= last[i] /\ first[m] <= last[m]
  <2>1. first[m] \in Int /\ last[m] \in Int
    BY <1>1
  <2>2. first[m] <= last[m]
    BY <1>1, NodeOfItsKeys
  <2>3. first[i] \in Int /\ last[i] \in Int /\ first[i] <= first[m] /\ last[m] <= last[i]
    BY <1>3, <1>6
  <2> QED BY <2>1, <2>2, <2>3
<1>12. m = a \/ m = b
  <2>1. ASSUME NEW c, c = a \/ c = b, m # c, first[c] <= first[m], last[m] <= last[c] PROVE FALSE
    <3>1. c \in 0 .. k - 2
      <4>1. ASSUME c \in k - 1 .. 2 * k - 2 PROVE FALSE
        <5>1. first[c] = c - (k - 1) /\ last[c] = c - (k - 1)
          BY <4>1 DEF Hierarchy
        <5>2. first[m] = first[c] /\ last[m] = last[c]
          BY <1>1, <1>11, <2>1, <4>1, <5>1
        <5>3. c \in 0 .. 2 * k - 2
          BY <1>1, <4>1
        <5>4. c = NodeOf(k, D, first[c], last[c]) /\ m = NodeOf(k, D, first[m], last[m])
          <6>1. c = NodeOf(k, D, first[c], last[c])
            BY <5>3, NodeOfItsKeys
          <6>2. m = NodeOf(k, D, first[m], last[m])
            BY <1>1, NodeOfItsKeys
          <6> QED BY <6>1, <6>2
        <5> QED BY <2>1, <5>2, <5>4
      <4>2. c \in 1 .. 2 * k - 2
        BY <1>9, <2>1
      <4> QED BY <1>1, <4>1, <4>2
    <3>2. c \in Around
      BY <2>1, <3>1
    <3>3. z <= last[c] - first[c]
      <4>1. last[c] - first[c] \in Sizes
        BY <3>2
      <4> QED BY <1>5, <4>1
    <3>4. last[c] - first[c] < last[i] - first[i]
      BY <1>9, <1>10, <1>11, <2>1
    <3>5. last[c] - first[c] \in Int /\ last[i] - first[i] \in Int
      BY <1>3, <1>6, <3>1
    <3> QED BY <1>6, <3>3, <3>4, <3>5
  <2>2. CASE last[m] <= g[i]
    BY <1>9, <1>11, <2>1, <2>2
  <2>3. CASE g[i] + 1 <= first[m]
    BY <1>9, <1>11, <2>1, <2>3
  <2> QED BY <1>7, <2>2, <2>3
<1> QED BY <1>6, <1>8, <1>12

ChildOf(ch, i, m) == m \in {ch[i][1], ch[i][2]}

\* Blocks whose parts meet in a node are one block.
LEMMA PartOfOneBlock ==
  ASSUME NEW k, NEW D, NEW first, NEW last, NEW g, NEW ch, Hierarchy(k, D, first, last, g, ch),
         NEW i \in 0 .. k - 2, NEW j \in 0 .. k - 2,
         NEW m, ChildOf(ch, i, m), ChildOf(ch, j, m)
  PROVE  i = j
<1>1. PICK a, b, c, d : a = ch[i][1] /\ b = ch[i][2] /\ c = ch[j][1] /\ d = ch[j][2]
  OBVIOUS
<1>2. /\ first[a] = first[i] /\ last[a] = g[i] /\ first[b] = g[i] + 1 /\ last[b] = last[i]
      /\ first[c] = first[j] /\ last[c] = g[j] /\ first[d] = g[j] + 1 /\ last[d] = last[j]
  BY <1>1, KeysOfChildren
<1>3. Prefixes(k, D) /\ k \in Nat \ {0}
  BY DEF Hierarchy, Prefixes
<1>4. ASSUME NEW x \in 0 .. k - 2
      PROVE  /\ x = NodeOf(k, D, first[x], last[x])
             /\ first[x] \in 0 .. k - 1 /\ last[x] \in 0 .. k - 1 /\ first[x] < last[x]
             /\ g[x] \in first[x] .. last[x] - 1 /\ D[g[x]][g[x] + 1] = D[first[x]][last[x]]
             /\ D[first[x]][first[x] - 1] < D[first[x]][last[x]]
             /\ D[last[x]][last[x] + 1] < D[first[x]][last[x]]
  BY DEF Hierarchy, SplitsAt, Block
<1>5. ASSUME NEW x \in 0 .. k - 2, NEW y \in 0 .. k - 2, first[x] = first[y], g[x] = g[y],
             last[x] < last[y]
      PROVE  FALSE
  <2>1. PICK lo, p, q, s : lo = first[x] /\ p = last[x] /\ q = last[y] /\ s = g[x]
    OBVIOUS
  <2>2. /\ lo \in 0 .. k - 1 /\ p \in 0 .. k - 1 /\ q \in 0 .. k - 1 /\ lo < p /\ p < q
        /\ D[lo][p] = D[lo][q] /\ D[p][p + 1] < D[lo][p]
    BY <1>4, <1>5, <2>1
  <2>3. p + 1 \in 0 .. k - 1 /\ p + 1 <= q
    BY <1>3, <2>2
  <2>4. D[lo][q] <= D[p][q] /\ D[p][q] <= D[p][p + 1]
    BY <1>3, <2>2, <2>3, ThreeKeys
  <2>5. D[lo][q] \in Int /\ D[p][q] \in Int /\ D[p][p + 1] \in Int
    BY <1>3, <2>2, <2>3, TableValues
  <2> QED BY <2>2, <2>4, <2>5
<1>6. ASSUME NEW x \in 0 .. k - 2, NEW y \in 0 .. k - 2, last[x] = last[y], g[x] = g[y],
             first[x] < first[y]
      PROVE  FALSE
  <2>1. PICK p, q, hi, s : p = first[x] /\ q = first[y] /\ hi = last[x] /\ s = g[x]
    OBVIOUS
  <2>2. /\ hi \in 0 .. k - 1 /\ p \in 0 .. k - 1 /\ q \in 0 .. k - 1 /\ p < q /\ q < hi
        /\ D[p][hi] = D[q][hi] /\ D[q][q - 1] < D[q][hi]
    BY <1>4, <1>6, <2>1
  <2>3. q - 1 \in 0 .. k - 1 /\ p <= q - 1 /\ q - 1 < q
    BY <1>3, <2>2
  <2>4. D[p][hi] <= D[p][q] /\ D[p][q] <= D[q - 1][q]
    BY <1>3, <2>2, <2>3, ThreeKeys
  <2>5. D[p][hi] \in Int /\ D[p][q] \in Int /\ D[q - 1][q] \in Int /\ D[q - 1][q] = D[q][q - 1]
    BY <1>3, <2>2, <2>3, TableValues
  <2> QED BY <2>2, <2>4, <2>5
<1>7. ASSUME NEW x \in 0 .. k - 2, NEW y \in 0 .. k - 2, first[x] = g[y] + 1, g[x] = last[y]
      PROVE  FALSE
  <2>1. PICK lo, hi, p, q : lo = first[x] /\ hi = last[y] /\ p = first[y] /\ q = last[x]
    OBVIOUS
  <2>2. /\ lo \in 0 .. k - 1 /\ hi \in 0 .. k - 1 /\ p \in 0 .. k - 1 /\ q \in 0 .. k - 1
        /\ g[y] = lo - 1 /\ lo - 1 \in 0 .. k - 1 /\ hi + 1 \in 0 .. k - 1
        /\ D[hi][hi + 1] = D[lo][q] /\ D[lo][lo - 1] < D[lo][q]
        /\ D[lo - 1][lo] = D[p][hi] /\ D[hi][hi + 1] < D[p][hi]
    BY <1>3, <1>4, <1>7, <2>1
  <2>3. D[lo - 1][lo] = D[lo][lo - 1] /\ D[lo][lo - 1] \in Int /\ D[hi][hi + 1] \in Int
        /\ D[lo][q] \in Int /\ D[p][hi] \in Int
    BY <1>3, <2>2, TableValues
  <2> QED BY <2>2, <2>3
<1>8. ASSUME first[i] = first[j], last[i] = last[j] PROVE i = j
  <2>1. i = NodeOf(k, D, first[i], last[i]) /\ j = NodeOf(k, D, first[j], last[j])
    BY <1>4
  <2> QED BY <1>8, <2>1
<1>9. /\ first[i] \in Int /\ last[i] \in Int /\ first[j] \in Int /\ last[j] \in Int
      /\ g[i] \in Int /\ g[j] \in Int
  <2>1. ASSUME NEW x \in 0 .. k - 2 PROVE first[x] \in Int /\ last[x] \in Int /\ g[x] \in Int
    BY <1>4
  <2> QED BY <2>1
<1>10. CASE m = a /\ m = c
  <2>1. first[i] = first[j] /\ g[i] = g[j]
    BY <1>2, <1>10
  <2> QED BY <1>5, <1>8, <1>9, <2>1
<1>11. CASE m = b /\ m = d
  <2>1. last[i] = last[j] /\ g[i] = g[j]
    BY <1>2, <1>9, <1>11
  <2> QED BY <1>6, <1>8, <1>9, <2>1
<1>12. CASE m = a /\ m = d
  BY <1>2, <1>7, <1>12
<1>13. CASE m = b /\ m = c
  BY <1>2, <1>7, <1>13
<1> QED BY <1>1, <1>10, <1>11, <1>12, <1>13 DEF ChildOf

-----------------------------------------------------------------------------
(* The search of bvh_hierarchy_kernel. *)

Strides == Seq(Nat \ {0})

IsSearch(at, codes, i, d, p, t) ==
  /\ at \in [0 .. Len(t) -> Nat]
  /\ at[0] = 0
  /\ \A q \in 1 .. Len(t) :
       at[q] = IF Mesh!common_prefix(codes, i, i + (at[q - 1] + t[q]) * d) > p THEN at[q - 1] + t[q]
               ELSE at[q - 1]

LEMMA SearchExists ==
  ASSUME NEW codes, NEW i, NEW d, NEW p, NEW t \in Strides
  PROVE  \E at : IsSearch(at, codes, i, d, p, t) /\ Mesh!Farthest(codes, i, d, p, t) = at[Len(t)]
<1> DEFINE m == Len(t)
           On(q, x) == IF Mesh!common_prefix(codes, i, i + (x + t[q]) * d) > p THEN x + t[q] ELSE x
           G == [q \in 1 .. m |-> [x \in Nat |-> On(q, x)]]
           Eq(f) == f = [q \in 0 .. m |-> IF q = 0 THEN 0 ELSE On(q, f[q - 1])]
           a == CHOOSE f : Eq(f)
<1>1. m \in Nat /\ \A q \in 1 .. m : t[q] \in Nat
  BY DEF Strides
<1>2. \A q \in 1 .. m, x \in Nat : On(q, x) \in Nat
  BY <1>1
<1>3. G \in StepFcns(m, Nat)
  <2> HIDE DEF On, m
  <2> QED BY <1>2 DEF StepFcns
<1>4. PICK f : IsIteration(f, m, Nat, 0, G)
  <2> HIDE DEF G, m
  <2> QED BY <1>1, <1>3, IterationExists
<1>5. f \in [0 .. m -> Nat] /\ f[0] = 0 /\ \A q \in 1 .. m : f[q] = G[q][f[q - 1]]
  BY <1>4 DEF IsIteration
<1>6. \A q \in 1 .. m : f[q] = On(q, f[q - 1])
  <2> TAKE q \in 1 .. m
  <2>1. q - 1 \in 0 .. m
    BY <1>1
  <2>2. f[q - 1] \in Nat
    BY <1>5, <2>1
  <2> HIDE DEF On
  <2>3. G[q][f[q - 1]] = On(q, f[q - 1])
    BY <2>2
  <2> HIDE DEF G
  <2> QED BY <1>5, <2>3
<1>7. Eq(f)
  <2> HIDE DEF On, G, m
  <2>1. f = [q \in 0 .. m |-> f[q]]
    BY <1>5
  <2>2. \A q \in 0 .. m : f[q] = IF q = 0 THEN 0 ELSE On(q, f[q - 1])
    BY <1>1, <1>5, <1>6
  <2> QED BY <2>1, <2>2
<1>8. Eq(a)
  <2> HIDE DEF Eq
  <2> QED BY <1>7
<1>9. Mesh!Farthest(codes, i, d, p, t) = a[m]
  BY DEF Mesh!Farthest
<1> HIDE DEF a
<1>10. DOMAIN a = 0 .. m /\ a[0] = 0 /\ \A q \in 1 .. m : a[q] = On(q, a[q - 1])
  <2> HIDE DEF On, m
  <2> QED BY <1>1, <1>8
<1>11. ASSUME NEW q \in 0 .. m PROVE a[q] \in Nat
  <2> DEFINE T == {x \in 0 .. m : a[x] \in Nat}
  <2> HIDE DEF On, m
  <2>1. 0 \in T
    BY <1>1, <1>10
  <2>2. ASSUME NEW x \in 0 .. m - 1, x \in T PROVE x + 1 \in T
    <3>1. x + 1 \in 1 .. m /\ x + 1 \in 0 .. m /\ (x + 1) - 1 = x /\ a[x] \in Nat
      BY <1>1, <2>2
    <3>2. a[x + 1] = On(x + 1, a[x])
      BY <1>10, <3>1
    <3> QED BY <1>2, <3>1, <3>2
  <2>3. 0 .. m \subseteq T
    <3> HIDE DEF T
    <3> QED BY <1>1, <2>1, <2>2, SetInduction
  <2> QED BY <2>3
<1>12. a \in [0 .. m -> Nat]
  <2>1. a = [q \in 0 .. m |-> a[q]]
    <3> HIDE DEF On, m
    <3> QED BY <1>8
  <2> HIDE DEF m
  <2> QED BY <1>11, <2>1
<1>13. IsSearch(a, codes, i, d, p, t)
  BY <1>10, <1>12 DEF IsSearch
<1> QED BY <1>9, <1>13

\* The strides never shrink to less than half, and end with 1: the search finds the
\* last of the positions that share more than p bits, which are all up to some one.
LEMMA SearchFindsLast ==
  ASSUME NEW codes, NEW i, NEW d, NEW p, NEW t \in Strides, Len(t) # 0, t[Len(t)] = 1,
         \A q \in 2 .. Len(t) : t[q - 1] <= 2 * t[q],
         NEW X \in SUBSET Nat,
         \A x \in Nat : x \in X <=> Mesh!common_prefix(codes, i, i + x * d) > p,
         \A x \in X : x < 2 * t[1] /\ \A y \in 1 .. x : y \in X
  PROVE  LET s == Mesh!Farthest(codes, i, d, p, t)
         IN  s \in Nat /\ (s = 0 \/ s \in X) /\ \A x \in X : x <= s
<1>1. PICK at : IsSearch(at, codes, i, d, p, t) /\ Mesh!Farthest(codes, i, d, p, t) = at[Len(t)]
  BY SearchExists
<1> DEFINE m == Len(t)
           R(q) == IF q = 0 THEN 2 * t[1] ELSE t[q]
           T == {q \in 0 .. m : (at[q] = 0 \/ at[q] \in X) /\ \A x \in X : x < at[q] + R(q)}
<1>2. m \in Nat \ {0} /\ \A q \in 1 .. m : t[q] \in Nat \ {0}
  BY DEF Strides
<1>3. at \in [0 .. m -> Nat] /\ at[0] = 0
  BY <1>1 DEF IsSearch
<1>4. \A q \in 1 .. m : at[q] = IF at[q - 1] + t[q] \in X THEN at[q - 1] + t[q] ELSE at[q - 1]
  <2> TAKE q \in 1 .. m
  <2>1. q - 1 \in 0 .. m
    BY <1>2
  <2>2. at[q - 1] + t[q] \in Nat
    <3>1. at[q - 1] \in Nat
      BY <1>3, <2>1
    <3>2. t[q] \in Nat
      BY <1>2
    <3> QED BY <3>1, <3>2
  <2>3. at[q] = IF Mesh!common_prefix(codes, i, i + (at[q - 1] + t[q]) * d) > p THEN at[q - 1] + t[q]
                ELSE at[q - 1]
    BY <1>1 DEF IsSearch
  <2> QED BY <2>2, <2>3
<1> HIDE DEF m
<1>5. 0 \in T
  <2>1. 0 \in 0 .. m /\ 1 \in 1 .. m
    BY <1>2
  <2>2. \A x \in X : x < 0 + 2 * t[1]
    BY <1>2, <2>1
  <2> QED BY <1>3, <2>1, <2>2
<1>6. ASSUME NEW x \in 0 .. m - 1, x \in T PROVE x + 1 \in T
  <2>1. x + 1 \in 1 .. m /\ x + 1 \in 0 .. m /\ (x + 1) - 1 = x /\ x \in 0 .. m /\ x + 1 # 0
    BY <1>2
  <2>2. PICK a, b, u : a = at[x] /\ b = at[x + 1] /\ u = t[x + 1]
    OBVIOUS
  <2>3. a \in Nat /\ u \in Nat \ {0} /\ b = IF a + u \in X THEN a + u ELSE a
    BY <1>2, <1>3, <1>4, <2>1, <2>2
  <2>4. (a = 0 \/ a \in X) /\ \A y \in X : y < a + R(x)
    BY <1>6, <2>2
  <2>5. R(x) <= 2 * u /\ R(x) \in Nat /\ R(x + 1) = u
    <3>1. CASE x = 0
      BY <1>2, <2>1, <2>2, <2>3, <3>1
    <3>2. CASE x # 0
      <4>1. x + 1 \in 2 .. m /\ x \in 1 .. m
        BY <1>2, <2>1, <3>2
      <4>2. t[(x + 1) - 1] <= 2 * t[x + 1]
        BY <4>1 DEF m
      <4> QED BY <1>2, <2>1, <2>2, <3>2, <4>1, <4>2
    <3> QED BY <3>1, <3>2
  <2>6. b = 0 \/ b \in X
    BY <2>3, <2>4
  <2>7. ASSUME NEW y \in X PROVE y < b + u
    <3>1. CASE a + u \in X
      BY <2>3, <2>4, <2>5, <3>1
    <3>2. CASE a + u \notin X
      <4>1. ~(a + u \in 1 .. y)
        BY <3>2
      <4> QED BY <2>3, <3>2, <4>1
    <3> QED BY <3>1, <3>2
  <2> HIDE DEF R
  <2> QED BY <2>1, <2>2, <2>5, <2>6, <2>7
<1>7. 0 .. m \subseteq T
  <2> HIDE DEF T
  <2> QED BY <1>2, <1>5, <1>6, SetInduction
<1>8. m \in T /\ m # 0 /\ t[m] = 1
  BY <1>2, <1>7 DEF m
<1>9. at[m] \in Nat /\ (at[m] = 0 \/ at[m] \in X) /\ \A x \in X : x < at[m] + 1
  BY <1>2, <1>3, <1>8
<1>10. \A x \in X : x <= at[m]
  BY <1>9
<1> QED BY <1>1, <1>9, <1>10 DEF m

LEMMA SameCount == ASSUME NEW S PROVE Mesh!Cardinality(S) = Cardinality(S)
BY DEF Mesh!Cardinality, Cardinality

LEMMA SmallestOf ==
  ASSUME NEW S \in SUBSET Nat, S # {}
  PROVE  Mesh!Min(S) \in S /\ \A x \in S : Mesh!Min(S) <= x
<1>1. PICK x \in S : \A y \in S : x <= y
  BY LeastNatural
<1> QED BY <1>1 DEF Mesh!Min

\* A halving search starts within a factor of two of where it must end.
Searches(t, bound) ==
  /\ t \in Strides
  /\ Len(t) # 0
  /\ t[Len(t)] = 1
  /\ \A q \in 2 .. Len(t) : t[q - 1] <= 2 * t[q]
  /\ bound <= 2 * t[1]

LEMMA StridesHalved ==
  ASSUME NEW w \in Nat \ {0}
  PROVE  Searches([q \in 1 .. w |-> 2 ^ (w - q)], 2 ^ w)
<1> DEFINE t == [q \in 1 .. w |-> 2 ^ (w - q)]
<1>1. \A q \in 1 .. w : w - q \in Nat /\ 2 ^ (w - q) \in Nat \ {0}
  BY TwoPower
<1>2. t \in Strides /\ Len(t) = w
  BY <1>1 DEF Strides
<1>3. t[w] = 1
  <2>1. w - w = 0 /\ 2 ^ 0 = 1 /\ w \in 1 .. w
    OBVIOUS
  <2> QED BY <2>1
<1>4. ASSUME NEW q \in 2 .. w PROVE t[q - 1] <= 2 * t[q]
  <2>1. w - q \in Nat /\ w - (q - 1) = (w - q) + 1 /\ q - 1 \in 1 .. w /\ q \in 1 .. w
    OBVIOUS
  <2>2. 2 ^ ((w - q) + 1) = 2 * 2 ^ (w - q) /\ 2 ^ (w - q) \in Nat
    BY <2>1, TwoPower
  <2>3. t[q - 1] = 2 ^ ((w - q) + 1) /\ t[q] = 2 ^ (w - q)
    BY <2>1
  <2> HIDE DEF t
  <2> QED BY <2>2, <2>3
<1>5. 2 ^ w = 2 * t[1]
  <2>1. w - 1 \in Nat /\ w = (w - 1) + 1 /\ 1 \in 1 .. w
    OBVIOUS
  <2>2. 2 ^ ((w - 1) + 1) = 2 * 2 ^ (w - 1)
    BY <2>1, TwoPower
  <2> QED BY <2>1, <2>2
<1>6. 2 * t[1] \in Nat
  BY <1>1, TwoPower, <1>5
<1> HIDE DEF t
<1>7. Searches(t, 2 ^ w)
  BY <1>2, <1>3, <1>4, <1>5, <1>6 DEF Searches
<1> QED BY <1>7 DEF t

LEMMA HalvingsSearch ==
  ASSUME NEW k, NEW codes, KeysAssumed(k, codes), NEW i \in 0 .. k - 1, NEW d \in {1, -1},
         NEW p \in Int, p >= -1
  PROVE  \E b \in Nat \ {0} : /\ Searches(Mesh!Halvings(codes, i, d, p), b)
                              /\ ~(Mesh!common_prefix(codes, i, i + b * d) > p)
<1> DEFINE S == {q \in 1 .. Cardinality(DOMAIN codes) :
                   ~(Mesh!common_prefix(codes, i, i + 2 ^ q * d) > p)}
           w == Mesh!Min(S)
<1>1. k \in Nat \ {0} /\ DOMAIN codes = 0 .. k - 1 /\ Cardinality(DOMAIN codes) = k
  <2>1. k \in Nat \ {0} /\ DOMAIN codes = 0 .. k - 1
    BY CodesOrdered DEF KeysAssumed
  <2>2. Cardinality(0 .. k - 1) = (k - 1) - 0 + 1
    BY <2>1, FS_Interval
  <2> QED BY <2>1, <2>2
<1>2. k \in S
  <2>1. 2 ^ k \in Nat /\ k < 2 ^ k
    BY <1>1, TwoPower, PowerExceeds
  <2>2. i + 2 ^ k * d \notin 0 .. k - 1
    BY <1>1, <2>1
  <2>3. Mesh!common_prefix(codes, i, i + 2 ^ k * d) = -1
    BY <1>1, <2>2 DEF Mesh!common_prefix
  <2> QED BY <1>1, <2>3
<1>3. S \in SUBSET Nat
  BY <1>1
<1>4. w \in S
  <2> HIDE DEF S
  <2> QED BY <1>2, <1>3, SmallestOf
<1>5. w \in Nat \ {0} /\ ~(Mesh!common_prefix(codes, i, i + 2 ^ w * d) > p)
  <2> HIDE DEF w
  <2> QED BY <1>1, <1>4
<1>6. Mesh!Halvings(codes, i, d, p) = [q \in 1 .. w |-> 2 ^ (w - q)]
  BY SameCount, Zenon DEF Mesh!Halvings
<1> HIDE DEF w, S
<1>7. 2 ^ w \in Nat \ {0}
  BY <1>5, TwoPower
<1> QED BY <1>5, <1>6, <1>7, StridesHalved

\* The shares of l are halved rounding up.
LEMMA SharesSearch ==
  ASSUME NEW k, NEW codes, KeysAssumed(k, codes), NEW l \in 1 .. k - 1
  PROVE  Searches(Mesh!Shares(codes, l), l)
<1> DEFINE share(q) == (l + 2 ^ q - 1) \div 2 ^ q
           S == {q \in 1 .. Cardinality(DOMAIN codes) : share(q) <= 1}
           w == Mesh!Min(S)
           t == [q \in 1 .. w |-> share(q)]
<1>1. k \in Nat \ {0} /\ l \in Nat \ {0} /\ l < k /\ Cardinality(DOMAIN codes) = k
  <2>1. k \in Nat \ {0} /\ DOMAIN codes = 0 .. k - 1
    BY CodesOrdered DEF KeysAssumed
  <2>2. Cardinality(0 .. k - 1) = (k - 1) - 0 + 1
    BY <2>1, FS_Interval
  <2> QED BY <2>1, <2>2
<1>2. \A q \in Nat : share(q) \in Nat \ {0}
  <2> TAKE q \in Nat
  <2>1. PICK b : b = 2 ^ q
    OBVIOUS
  <2>2. b \in Nat \ {0}
    BY <2>1, TwoPower
  <2>3. (l + b - 1) \div b \in Nat \ {0}
    BY <1>1, <2>2
  <2> QED BY <2>1, <2>3
<1>3. k \in S
  <2>1. PICK b : b = 2 ^ k
    OBVIOUS
  <2>2. b \in Nat \ {0} /\ l < b
    BY <1>1, <2>1, TwoPower, PowerExceeds
  <2>3. (l + b - 1) \div b <= 1
    BY <1>1, <2>2
  <2> QED BY <1>1, <2>1, <2>3
<1>4. w \in S
  <2>1. S \in SUBSET Nat
    BY <1>1
  <2> HIDE DEF S
  <2> QED BY <1>3, <2>1, SmallestOf
<1>5. w \in Nat \ {0} /\ share(w) <= 1
  <2> HIDE DEF w, share
  <2> QED BY <1>1, <1>4
<1>6. Mesh!Shares(codes, l) = t
  BY SameCount, Zenon DEF Mesh!Shares
<1>7. t \in Strides /\ Len(t) = w
  <2> HIDE DEF w, share
  <2> QED BY <1>2, <1>5 DEF Strides
<1>8. t[w] = 1
  <2>1. share(w) \in Nat \ {0}
    BY <1>2, <1>5
  <2> HIDE DEF w, share
  <2> QED BY <1>5, <2>1
<1>9. ASSUME NEW q \in 2 .. w PROVE t[q - 1] <= 2 * t[q]
  <2>1. q - 1 \in Nat /\ q = (q - 1) + 1 /\ q - 1 \in 1 .. w /\ q \in 1 .. w
    <3> HIDE DEF w
    <3> QED BY <1>5
  <2>2. PICK b, c : b = 2 ^ (q - 1) /\ c = 2 ^ q
    OBVIOUS
  <2>3. b \in Nat \ {0} /\ c = 2 * b
    <3>1. 2 ^ ((q - 1) + 1) = 2 * 2 ^ (q - 1) /\ 2 ^ (q - 1) \in Nat \ {0}
      BY <2>1, TwoPower
    <3> QED BY <2>1, <2>2, <3>1
  <2>4. (l + b - 1) \div b <= 2 * ((l + 2 * b - 1) \div (2 * b))
    <3> DEFINE x == (l + 2 * b - 1) \div (2 * b)
               y == (l + b - 1) \div b
    <3>1. PICK z : z = x
      OBVIOUS
    <3>2. PICK u : u = y
      OBVIOUS
    <3>3. z \in Nat /\ u \in Nat
      BY <1>1, <2>3, <3>1, <3>2
    <3>4. l <= (2 * b) * z
      <4>1. l + 2 * b - 1 < (2 * b) * (z + 1)
        BY <1>1, <2>3, <3>1
      <4>2. (2 * b) * (z + 1) = (2 * b) * z + 2 * b
        BY <1>1, <2>3, <3>3
      <4>3. (2 * b) * z \in Nat
        BY <2>3, <3>3
      <4> QED BY <1>1, <2>3, <4>1, <4>2, <4>3
    <3>5. b * u <= l + b - 1
      BY <1>1, <2>3, <3>2
    <3>6. b * u < b * (2 * z + 1)
      <4>1. b * (2 * z + 1) = (2 * b) * z + b
        BY <2>3, <3>3
      <4>2. (2 * b) * z \in Nat /\ b * u \in Nat
        BY <2>3, <3>3
      <4> QED BY <1>1, <2>3, <3>4, <3>5, <4>1, <4>2
    <3>7. u < 2 * z + 1
      BY <2>3, <3>3, <3>6
    <3> QED BY <3>1, <3>2, <3>3, <3>7
  <2>5. t[q - 1] = (l + b - 1) \div b /\ t[q] = (l + 2 * b - 1) \div (2 * b)
    <3> HIDE DEF w
    <3> QED BY <2>1, <2>2, <2>3
  <2> HIDE DEF t
  <2> QED BY <2>4, <2>5
<1>10. l <= 2 * t[1]
  <2>1. 2 ^ 1 = 2 /\ 1 \in 1 .. w
    <3>1. 2 ^ (0 + 1) = 2 * 2 ^ 0 /\ 2 ^ 0 = 1 /\ 0 + 1 = 1
      BY TwoPower
    <3> HIDE DEF w
    <3> QED BY <1>5, <3>1
  <2>2. l <= 2 * ((l + 2 - 1) \div 2)
    BY <1>1
  <2>3. t[1] = (l + 2 - 1) \div 2
    <3> HIDE DEF w
    <3> QED BY <2>1
  <2> HIDE DEF t
  <2> QED BY <2>2, <2>3
<1> HIDE DEF t, w
<1> QED BY <1>5, <1>6, <1>7, <1>8, <1>9, <1>10 DEF Searches

\* How many keys from i on, towards d, share more than p bits with key i.
Sharing(D, i, d, p) == {x \in Nat : D[i][i + x * d] > p}

LEMMA SharingDownward ==
  ASSUME NEW k, NEW D, Prefixes(k, D), NEW i \in 0 .. k - 1, NEW d \in {1, -1}, NEW p \in Int, p >= -1,
         NEW x \in Sharing(D, i, d, p)
  PROVE  i + x * d \in 0 .. k - 1 /\ \A y \in 1 .. x : y \in Sharing(D, i, d, p)
<1>1. x \in Nat /\ D[i][i + x * d] > p /\ i + x * d \in Int /\ k \in Nat \ {0}
  BY DEF Sharing, Prefixes
<1>2. i + x * d \in 0 .. k - 1
  BY <1>1, TableValues
<1>3. ASSUME NEW y \in 1 .. x PROVE D[i][i + y * d] > p
  <2>1. CASE d = 1
    <3>1. i + y * d = i + y /\ i + x * d = i + x /\ i + y \in 0 .. k - 1 /\ i < i + y /\ i + y <= i + x
      BY <1>1, <1>2, <2>1
    <3>2. D[i][i + x] <= D[i][i + y]
      BY <1>2, <3>1, ThreeKeys
    <3>3. D[i][i + x] \in Int /\ D[i][i + y] \in Int
      BY <1>2, <3>1, TableValues
    <3> QED BY <1>1, <3>1, <3>2, <3>3
  <2>2. CASE d = -1
    <3>1. i + y * d = i - y /\ i + x * d = i - x /\ i - y \in 0 .. k - 1 /\ i - y < i /\ i - x <= i - y
          /\ i - x \in 0 .. k - 1
      BY <1>1, <1>2, <2>2
    <3>2. D[i - x][i] <= D[i - y][i]
      BY <3>1, ThreeKeys
    <3>3. D[i - x][i] = D[i][i - x] /\ D[i - y][i] = D[i][i - y] /\ D[i][i - x] \in Int /\ D[i][i - y] \in Int
      BY <3>1, TableValues
    <3> QED BY <1>1, <3>1, <3>2, <3>3
  <2> QED BY <2>1, <2>2
<1>4. \A y \in 1 .. x : y \in Nat
  BY <1>1
<1> QED BY <1>2, <1>3, <1>4 DEF Sharing

LEMMA FarthestFinds ==
  ASSUME NEW k, NEW codes, KeysAssumed(k, codes), NEW i \in 0 .. k - 1, NEW d \in {1, -1},
         NEW p \in Int, p >= -1, NEW t, NEW b \in Nat \ {0}, Searches(t, b),
         ~(Mesh!common_prefix(codes, i, i + b * d) > p),
         NEW X, X = Sharing(PrefixTable(k, codes), i, d, p)
  PROVE  LET s == Mesh!Farthest(codes, i, d, p, t)
         IN  s \in Nat /\ (s = 0 \/ s \in X) /\ \A x \in X : x <= s
<1> DEFINE D == PrefixTable(k, codes)
<1>1. Prefixes(k, D)
  BY TableOfPrefixes
<1>2. \A j \in Int : D[i][j] = Mesh!common_prefix(codes, i, j)
  BY DEF PrefixTable
<1>3. \A x \in Nat : i + x * d \in Int
  OBVIOUS
<1>4. X \in SUBSET Nat /\ \A x \in Nat : x \in X <=> Mesh!common_prefix(codes, i, i + x * d) > p
  BY <1>2, <1>3 DEF Sharing
<1>5. b \notin X
  BY <1>4
<1> HIDE DEF D
<1>6. \A x \in X : \A y \in 1 .. x : y \in X
  BY <1>1, SharingDownward DEF D
<1>7. /\ t \in Strides /\ Len(t) # 0 /\ t[Len(t)] = 1
      /\ \A q \in 2 .. Len(t) : t[q - 1] <= 2 * t[q]
      /\ b <= 2 * t[1] /\ t[1] \in Nat
  BY DEF Searches, Strides
<1>8. ASSUME NEW x \in X PROVE x < 2 * t[1] /\ \A y \in 1 .. x : y \in X
  <2>1. ~(b \in 1 .. x) /\ x \in Nat
    BY <1>4, <1>5, <1>6
  <2>2. x < 2 * t[1]
    BY <1>7, <2>1
  <2> QED BY <1>6, <2>2
<1> QED BY <1>4, <1>7, <1>8, SearchFindsLast

\* The range of node i starts at i and goes where the neighbour shares more.
LEMMA RangeDirection ==
  ASSUME NEW k, NEW D, Prefixes(k, D), NEW i \in 0 .. k - 2, NEW d,
         d = IF D[i][i + 1] > D[i][i - 1] THEN 1 ELSE -1
  PROVE  d \in {1, -1} /\ i + d \in 0 .. k - 1 /\ D[i][i + d] > D[i][i - d] /\ D[i][i - d] \in Int
         /\ D[i][i - d] >= -1
<1>1. k \in Nat \ {0} /\ i \in 0 .. k - 1 /\ i + 1 \in 0 .. k - 1 /\ i - 1 \in Int /\ i + 1 \in Int
  BY DEF Prefixes
<1>2. /\ D[i][i + 1] \in Int /\ D[i][i + 1] >= 0 /\ D[i][i - 1] \in Int /\ D[i][i - 1] >= -1
      /\ i = 0 => D[i][i - 1] = -1
  BY <1>1, TableValues
<1>3. CASE i = 0
  BY <1>1, <1>2, <1>3
<1>4. CASE i # 0
  <2>1. i - 1 \in 0 .. k - 1 /\ i - 1 < i /\ i < i + 1
    BY <1>1, <1>4
  <2>2. D[i - 1][i] # D[i][i + 1] /\ D[i - 1][i] = D[i][i - 1]
    BY <1>1, <2>1, ThreeKeys, TableValues
  <2>3. D[i][i + 1] > D[i][i - 1] \/ D[i][i - 1] > D[i][i + 1]
    BY <1>2, <2>2
  <2>4. CASE d = 1
    BY <1>1, <1>2, <2>3, <2>4
  <2>5. CASE d = -1
    <3>1. i + d = i - 1 /\ i - d = i + 1
      BY <1>1, <2>5
    <3> QED BY <1>1, <1>2, <2>1, <2>3, <2>5, <3>1
  <2> QED BY <2>4, <2>5
<1> QED BY <1>3, <1>4

\* A range that goes up, l long, and its parts.
LEMMA RangeUp ==
  ASSUME NEW k, NEW D, Prefixes(k, D), NEW i \in 0 .. k - 2, NEW l \in Nat \ {0}, NEW s \in Nat,
         i + l \in 0 .. k - 1, D[i][i + l] > D[i][i - 1], D[i][i + l + 1] <= D[i][i - 1],
         s < l, s = 0 \/ D[i][i + s] > D[i][i + l], D[i][i + s + 1] <= D[i][i + l]
  PROVE  SplitsAt(k, D, i, i, i + l, i + s)
<1> DEFINE hi == i + l
           g == i + s
<1>1. /\ k \in Nat \ {0} /\ i \in 0 .. k - 1 /\ hi \in 0 .. k - 1 /\ g \in 0 .. k - 1 /\ g + 1 \in 0 .. k - 1
      /\ i < hi /\ g \in i .. hi - 1 /\ i <= g /\ g + 1 <= hi /\ i < g + 1 /\ i - 1 \in Int /\ hi + 1 \in Int
      /\ i + l + 1 = hi + 1 /\ i + s + 1 = g + 1 /\ i \in Int /\ (s # 0 => i < g)
  BY DEF Prefixes
<1> HIDE DEF hi, g
<1>2. /\ D[i][i - 1] \in Int /\ D[i][i - 1] >= -1 /\ D[i][hi] \in Int /\ D[hi][hi + 1] \in Int
      /\ D[i][hi + 1] \in Int /\ D[i][g] \in Int /\ D[i][g + 1] \in Int /\ D[g][g + 1] \in Int
      /\ hi + 1 \notin 0 .. k - 1 => D[hi][hi + 1] = -1
  BY <1>1, TableValues
<1>3. /\ D[i][hi] > D[i][i - 1] /\ D[i][hi + 1] <= D[i][i - 1]
      /\ s = 0 \/ D[i][g] > D[i][hi]
      /\ D[i][g + 1] <= D[i][hi]
  BY <1>1 DEF hi, g
<1>4. D[hi][hi + 1] <= D[i][i - 1]
  <2>1. CASE hi + 1 \in 0 .. k - 1
    <3>1. D[i][hi] <= D[i][hi + 1] \/ D[hi][hi + 1] <= D[i][hi + 1]
      BY <1>1, <2>1, ThreeKeys
    <3> QED BY <1>2, <1>3, <3>1
  <2> QED BY <1>2, <2>1
<1>5. Block(k, D, i, hi)
  BY <1>1, <1>2, <1>3, <1>4 DEF Block
<1>6. i = NodeOf(k, D, i, hi)
  BY <1>1, <1>2, <1>4 DEF NodeOf
<1>7. D[g][g + 1] = D[i][hi]
  <2>1. D[i][hi] <= D[i][g + 1]
    BY <1>1, ThreeKeys
  <2>2. CASE s = 0
    <3>1. g = i
      BY <1>1, <2>2 DEF g
    <3> QED BY <1>2, <1>3, <2>1, <3>1
  <2>3. CASE s # 0
    <3>1. D[i][g + 1] <= D[g][g + 1] /\ (D[i][g] <= D[i][g + 1] \/ D[g][g + 1] <= D[i][g + 1])
      BY <1>1, <2>3, ThreeKeys
    <3> QED BY <1>2, <1>3, <2>1, <2>3, <3>1
  <2> QED BY <2>2, <2>3
<1> QED BY <1>1, <1>5, <1>6, <1>7 DEF SplitsAt, hi, g

\* A range that goes down.
LEMMA RangeDown ==
  ASSUME NEW k, NEW D, Prefixes(k, D), NEW i \in 0 .. k - 2, NEW l \in Nat \ {0}, NEW s \in Nat,
         i - l \in 0 .. k - 1, D[i][i - l] > D[i][i + 1], D[i][i - l - 1] <= D[i][i + 1],
         s < l, s = 0 \/ D[i][i - s] > D[i][i - l], D[i][i - s - 1] <= D[i][i - l]
  PROVE  SplitsAt(k, D, i, i - l, i, i - s - 1)
<1> DEFINE lo == i - l
           g == i - s - 1
<1>1. /\ k \in Nat \ {0} /\ i \in 0 .. k - 1 /\ lo \in 0 .. k - 1 /\ g \in 0 .. k - 1 /\ g + 1 \in 0 .. k - 1
      /\ lo < i /\ g \in lo .. i - 1 /\ lo <= g /\ g < i /\ g + 1 <= i /\ lo - 1 \in Int /\ i + 1 \in 0 .. k - 1
      /\ i - l - 1 = lo - 1 /\ g + 1 = i - s /\ i \in Int /\ (s # 0 => g + 1 < i)
      /\ i < i + 1 /\ lo - 1 < lo /\ g < g + 1 /\ i + 1 \in Int /\ lo \in Int
  BY DEF Prefixes
<1> HIDE DEF lo, g
<1>2. /\ D[i][i + 1] \in Int /\ D[i][i + 1] >= 0 /\ D[i][lo] \in Int /\ D[lo][i] = D[i][lo]
      /\ D[lo][lo - 1] \in Int
      /\ lo - 1 \notin 0 .. k - 1 => D[lo][lo - 1] = -1
      /\ D[i][lo - 1] \in Int /\ D[i][g] \in Int /\ D[g][i] = D[i][g]
      /\ D[i][g + 1] \in Int /\ D[g + 1][i] = D[i][g + 1] /\ D[g][g + 1] \in Int
  BY <1>1, TableValues
<1>3. /\ D[lo][i] > D[i][i + 1] /\ D[i][lo - 1] <= D[i][i + 1]
      /\ s = 0 \/ D[i][g + 1] > D[lo][i]
      /\ D[i][g] <= D[lo][i]
  BY <1>1, <1>2 DEF lo, g
<1>4. D[lo][lo - 1] < D[i][i + 1]
  <2>1. CASE lo - 1 \in 0 .. k - 1
    <3> DEFINE j == lo - 1
    <3>1. j \in 0 .. k - 1 /\ j < lo /\ lo < i /\ i < i + 1 /\ lo <= i /\ j <= lo /\ i <= i + 1 /\ lo <= i + 1
          /\ lo < i + 1
      BY <1>1, <2>1
    <3>2. /\ D[j][lo] \in Int /\ D[j][lo] = D[lo][j] /\ D[j][i] = D[i][j] /\ D[lo][i + 1] \in Int /\ D[j][i] \in Int
          /\ D[i][j] <= D[i][i + 1]
      <4> HIDE DEF j
      <4>1. D[j][lo] \in Int /\ D[j][lo] = D[lo][j] /\ D[j][i] = D[i][j] /\ D[lo][i + 1] \in Int /\ D[j][i] \in Int
        BY <1>1, <3>1, TableValues
      <4> QED BY <1>3, <4>1 DEF j
    <3> HIDE DEF j
    <3>3. D[j][i] <= D[lo][i] /\ (D[j][lo] <= D[j][i] \/ D[lo][i] <= D[j][i])
      BY <1>1, <3>1, ThreeKeys
    <3>4. D[lo][i + 1] <= D[i][i + 1] /\ (D[lo][i] <= D[lo][i + 1] \/ D[i][i + 1] <= D[lo][i + 1])
      BY <1>1, <3>1, ThreeKeys
    <3>5. D[j][lo] # D[lo][i + 1]
      BY <1>1, <3>1, ThreeKeys
    <3>6. D[j][lo] < D[i][i + 1]
      BY <1>2, <1>3, <3>2, <3>3, <3>4, <3>5
    <3> QED BY <3>2, <3>6 DEF j
  <2> QED BY <1>2, <2>1
<1>5. Block(k, D, lo, i)
  BY <1>1, <1>2, <1>3, <1>4 DEF Block
<1>6. i = NodeOf(k, D, lo, i)
  BY <1>1, <1>2, <1>4 DEF NodeOf
<1>7. D[g][g + 1] = D[lo][i]
  <2>1. D[lo][i] <= D[g][i]
    BY <1>1, ThreeKeys
  <2>2. CASE s = 0
    <3>1. g + 1 = i
      BY <1>1, <2>2
    <3> QED BY <1>2, <1>3, <2>1, <3>1
  <2>3. CASE s # 0
    <3>1. D[g][i] <= D[g][g + 1] /\ (D[g][g + 1] <= D[g][i] \/ D[g + 1][i] <= D[g][i])
      BY <1>1, <2>3, ThreeKeys
    <3> QED BY <1>2, <1>3, <2>1, <2>3, <3>1
  <2> QED BY <2>2, <2>3
<1> QED BY <1>1, <1>5, <1>6, <1>7 DEF SplitsAt, lo, g

\* s is the last position that shares.
LastSharing(k, D, i, d, p, s) ==
  /\ s \in Nat
  /\ s = 0 \/ (i + s * d \in 0 .. k - 1 /\ D[i][i + s * d] > p)
  /\ D[i][i + (s + 1) * d] <= p
  /\ \A x \in Nat : D[i][i + x * d] > p => x <= s
  /\ \A x \in Nat : D[i][i + x * d] > p => \A y \in 1 .. x : D[i][i + y * d] > p

\* What a search finds is the last position that shares, when the first one does.
LEMMA SearchEnds ==
  ASSUME NEW k, NEW codes, KeysAssumed(k, codes), NEW i \in 0 .. k - 1, NEW d \in {1, -1},
         NEW p \in Int, p >= -1, NEW t, NEW b \in Nat \ {0}, Searches(t, b),
         ~(Mesh!common_prefix(codes, i, i + b * d) > p),
         NEW D, D = PrefixTable(k, codes), NEW s, s = Mesh!Farthest(codes, i, d, p, t)
  PROVE  LastSharing(k, D, i, d, p, s)
<1> DEFINE X == Sharing(D, i, d, p)
<1>1. Prefixes(k, D)
  BY TableOfPrefixes
<1>2. s \in Nat /\ (s = 0 \/ s \in X) /\ \A x \in X : x <= s
  BY FarthestFinds
<1>3. s + 1 \in Nat /\ ~(s + 1 <= s) /\ i + (s + 1) * d \in Int
  BY <1>2
<1>4. ~(D[i][i + (s + 1) * d] > p)
  BY <1>2, <1>3 DEF Sharing
<1>5. D[i][i + (s + 1) * d] <= p
  BY <1>1, <1>3, <1>4, TableValues
<1>6. s = 0 \/ (i + s * d \in 0 .. k - 1 /\ D[i][i + s * d] > p)
  <2> SUFFICES ASSUME s # 0 PROVE i + s * d \in 0 .. k - 1 /\ D[i][i + s * d] > p
    OBVIOUS
  <2>1. s \in Sharing(D, i, d, p)
    BY <1>2
  <2>2. i + s * d \in 0 .. k - 1
    BY <1>1, <2>1, SharingDownward
  <2> QED BY <2>1, <2>2 DEF Sharing
<1>7. ASSUME NEW x \in Nat, D[i][i + x * d] > p PROVE x <= s /\ \A y \in 1 .. x : D[i][i + y * d] > p
  <2>1. x \in Sharing(D, i, d, p)
    BY <1>7 DEF Sharing
  <2>2. \A y \in 1 .. x : y \in Sharing(D, i, d, p)
    BY <1>1, <2>1, SharingDownward
  <2>3. x <= s
    BY <1>2, <2>1
  <2> QED BY <2>2, <2>3 DEF Sharing
<1> HIDE DEF X
<1> QED BY <1>2, <1>5, <1>6, <1>7 DEF LastSharing

\* Split halves the range of a node where its two parts share least.
LEMMA SplitOfRange ==
  ASSUME NEW k, NEW codes, KeysAssumed(k, codes), NEW i \in 0 .. k - 2, NEW D, D = PrefixTable(k, codes)
  PROVE  \E lo, hi, g : /\ SplitsAt(k, D, i, lo, hi, g)
                        /\ Mesh!Split(codes, i) = <<NodeOf(k, D, lo, g), NodeOf(k, D, g + 1, hi)>>
<1>1. Prefixes(k, D)
  BY TableOfPrefixes
<1>2. \A j \in Int : D[i][j] = Mesh!common_prefix(codes, i, j)
  <2>1. i \in 0 .. k - 1
    BY <1>1 DEF Prefixes
  <2> QED BY <2>1 DEF PrefixTable
<1>3. k \in Nat \ {0} /\ i \in 0 .. k - 1 /\ i \in Int /\ Cardinality(DOMAIN codes) = k
  <2>1. k \in Nat \ {0} /\ DOMAIN codes = 0 .. k - 1
    BY CodesOrdered DEF KeysAssumed
  <2>2. Cardinality(0 .. k - 1) = (k - 1) - 0 + 1
    BY <2>1, FS_Interval
  <2> QED BY <2>1, <2>2
<1>4. PICK d : d = IF Mesh!common_prefix(codes, i, i + 1) > Mesh!common_prefix(codes, i, i - 1) THEN 1 ELSE -1
  OBVIOUS
<1>5. d \in {1, -1} /\ i + d \in 0 .. k - 1 /\ D[i][i + d] > D[i][i - d] /\ D[i][i - d] \in Int
      /\ D[i][i - d] >= -1
  <2>1. d = IF D[i][i + 1] > D[i][i - 1] THEN 1 ELSE -1
    BY <1>2, <1>3, <1>4
  <2> QED BY <1>1, <2>1, RangeDirection
<1>6. PICK dmin : dmin = Mesh!common_prefix(codes, i, i - d)
  OBVIOUS
<1>7. dmin = D[i][i - d] /\ dmin \in Int /\ dmin >= -1
  BY <1>2, <1>3, <1>5, <1>6
<1>8. PICK l : l = Mesh!Farthest(codes, i, d, dmin, Mesh!Halvings(codes, i, d, dmin))
  OBVIOUS
<1>9. PICK b \in Nat \ {0} : /\ Searches(Mesh!Halvings(codes, i, d, dmin), b)
                             /\ ~(Mesh!common_prefix(codes, i, i + b * d) > dmin)
  BY <1>3, <1>5, <1>7, HalvingsSearch
<1>10. /\ l \in Nat
       /\ l = 0 \/ (i + l * d \in 0 .. k - 1 /\ D[i][i + l * d] > dmin)
       /\ D[i][i + (l + 1) * d] <= dmin
       /\ \A x \in Nat : D[i][i + x * d] > dmin => x <= l
  <2>1. PICK t : t = Mesh!Halvings(codes, i, d, dmin)
    OBVIOUS
  <2>2. Searches(t, b) /\ l = Mesh!Farthest(codes, i, d, dmin, t)
    BY <1>8, <1>9, <2>1
  <2>3. LastSharing(k, D, i, d, dmin, l)
    <3>1. /\ i \in 0 .. k - 1 /\ d \in {1, -1} /\ dmin \in Int /\ dmin >= -1
          /\ b \in Nat \ {0} /\ ~(Mesh!common_prefix(codes, i, i + b * d) > dmin)
      BY <1>3, <1>5, <1>7, <1>9
    <3> QED BY <2>2, <3>1, SearchEnds
  <2> QED BY <2>3 DEF LastSharing
<1>11. l \in Nat \ {0} /\ i + l * d \in 0 .. k - 1 /\ D[i][i + l * d] > dmin /\ l \in 1 .. k - 1
  <2>1. i + 1 * d = i + d /\ 1 \in Nat
    BY <1>3, <1>5
  <2>2. D[i][i + 1 * d] > dmin
    BY <1>5, <1>7, <2>1
  <2>3. 1 <= l
    BY <1>10, <2>1, <2>2
  <2>4. l # 0 /\ i + l * d \in 0 .. k - 1 /\ D[i][i + l * d] > dmin
    BY <1>10, <2>3
  <2>5. l <= k - 1
    BY <1>3, <1>5, <1>10, <2>4
  <2> QED BY <1>3, <1>10, <2>3, <2>4, <2>5
<1>12. PICK j : j = i + l * d
  OBVIOUS
<1>13. PICK dnode : dnode = Mesh!common_prefix(codes, i, j)
  OBVIOUS
<1>14. dnode = D[i][j] /\ dnode \in Int /\ dnode >= -1 /\ j \in 0 .. k - 1 /\ dnode > dmin
  <2>1. j \in 0 .. k - 1 /\ j \in Int
    BY <1>3, <1>11, <1>12
  <2>2. dnode = D[i][j]
    BY <1>2, <1>13, <2>1
  <2> QED BY <1>1, <1>3, <1>11, <1>12, <2>1, <2>2, TableValues
<1>15. PICK s : s = Mesh!Farthest(codes, i, d, dnode, Mesh!Shares(codes, l))
  OBVIOUS
<1>16. Searches(Mesh!Shares(codes, l), l) /\ ~(Mesh!common_prefix(codes, i, i + l * d) > dnode)
  BY <1>11, <1>12, <1>13, <1>14, SharesSearch
<1>17. /\ s \in Nat
       /\ s = 0 \/ (i + s * d \in 0 .. k - 1 /\ D[i][i + s * d] > dnode)
       /\ D[i][i + (s + 1) * d] <= dnode
       /\ \A x \in Nat : D[i][i + x * d] > dnode => \A y \in 1 .. x : D[i][i + y * d] > dnode
  <2>1. /\ i \in 0 .. k - 1 /\ d \in {1, -1} /\ dnode \in Int /\ dnode >= -1
        /\ l \in Nat \ {0} /\ ~(Mesh!common_prefix(codes, i, i + l * d) > dnode)
    BY <1>3, <1>5, <1>11, <1>14, <1>16
  <2>2. PICK t : t = Mesh!Shares(codes, l)
    OBVIOUS
  <2>3. Searches(t, l) /\ s = Mesh!Farthest(codes, i, d, dnode, t)
    BY <1>15, <1>16, <2>2
  <2>4. LastSharing(k, D, i, d, dnode, s)
    BY <2>1, <2>3, SearchEnds
  <2> QED BY <2>4 DEF LastSharing
<1>18. s < l
  <2>1. ~(l \in 1 .. s)
    <3>1. CASE s = 0
      BY <1>11, <3>1
    <3>2. CASE s # 0
      <4>1. \A y \in 1 .. s : D[i][i + y * d] > dnode
        BY <1>17, <3>2
      <4>2. ~(D[i][i + l * d] > dnode)
        BY <1>12, <1>14
      <4> QED BY <4>1, <4>2
    <3> QED BY <3>1, <3>2
  <2> QED BY <1>11, <1>17, <2>1
<1>19. PICK gamma : gamma = i + s * d + (IF d = 1 THEN 0 ELSE -1)
  OBVIOUS
<1>20. Mesh!Split(codes, i) = <<IF Mesh!Min({i, j}) = gamma THEN k - 1 + gamma ELSE gamma,
                               IF Mesh!Max({i, j}) = gamma + 1 THEN k + gamma ELSE gamma + 1>>
  <2> DEFINE kk == Mesh!Cardinality(DOMAIN codes)
             dd == IF Mesh!common_prefix(codes, i, i + 1) > Mesh!common_prefix(codes, i, i - 1) THEN 1 ELSE -1
             mm == Mesh!common_prefix(codes, i, i - dd)
             ll == Mesh!Farthest(codes, i, dd, mm, Mesh!Halvings(codes, i, dd, mm))
             jj == i + ll * dd
             ss == Mesh!Farthest(codes, i, dd, Mesh!common_prefix(codes, i, jj), Mesh!Shares(codes, ll))
             gg == i + ss * dd + (IF dd = 1 THEN 0 ELSE -1)
  <2>1. Mesh!Split(codes, i) = <<IF Mesh!Min({i, jj}) = gg THEN kk - 1 + gg ELSE gg,
                                 IF Mesh!Max({i, jj}) = gg + 1 THEN kk + gg ELSE gg + 1>>
    BY DEF Mesh!Split
  <2>2. kk = k
    BY <1>3, SameCount
  <2>3. dd = d
    BY <1>4
  <2> HIDE DEF kk, dd
  <2>4. mm = dmin
    BY <1>6, <2>3
  <2> HIDE DEF mm
  <2>5. ll = l
    BY <1>8, <2>3, <2>4
  <2> HIDE DEF ll
  <2>6. jj = j
    BY <1>12, <2>3, <2>5
  <2> HIDE DEF jj
  <2>7. ss = s
    BY <1>13, <1>15, <2>3, <2>5, <2>6
  <2> HIDE DEF ss
  <2>8. gg = gamma
    BY <1>19, <2>3, <2>7
  <2> HIDE DEF gg
  <2> QED BY <2>1, <2>2, <2>6, <2>8
<1> DEFINE lo == IF d = 1 THEN i ELSE j
           hi == IF d = 1 THEN j ELSE i
<1>21. SplitsAt(k, D, i, lo, hi, gamma)
  <2>1. ASSUME d = 1 PROVE SplitsAt(k, D, i, i, j, gamma)
    <3>1. j = i + l /\ gamma = i + s /\ i + (l + 1) * d = i + l + 1 /\ i + (s + 1) * d = i + s + 1
          /\ i - d = i - 1 /\ i + s * d = i + s
      BY <1>3, <1>11, <1>12, <1>17, <1>19, <2>1
    <3>2. /\ i + l \in 0 .. k - 1 /\ D[i][i + l] > D[i][i - 1] /\ D[i][i + l + 1] <= D[i][i - 1]
          /\ s = 0 \/ D[i][i + s] > D[i][i + l]
          /\ D[i][i + s + 1] <= D[i][i + l]
      BY <1>7, <1>10, <1>14, <1>17, <3>1
    <3>3. SplitsAt(k, D, i, i, i + l, i + s)
      BY <1>1, <1>11, <1>17, <1>18, <3>2, RangeUp
    <3> QED BY <3>1, <3>3
  <2>2. ASSUME d = -1 PROVE SplitsAt(k, D, i, j, i, gamma)
    <3>1. j = i - l /\ gamma = i - s - 1 /\ i + (l + 1) * d = i - l - 1 /\ i + (s + 1) * d = i - s - 1
          /\ i - d = i + 1 /\ i + s * d = i - s
      BY <1>3, <1>11, <1>12, <1>17, <1>19, <2>2
    <3>2. /\ i - l \in 0 .. k - 1 /\ D[i][i - l] > D[i][i + 1] /\ D[i][i - l - 1] <= D[i][i + 1]
          /\ s = 0 \/ D[i][i - s] > D[i][i - l]
          /\ D[i][i - s - 1] <= D[i][i - l]
      BY <1>7, <1>10, <1>14, <1>17, <3>1
    <3>3. SplitsAt(k, D, i, i - l, i, i - s - 1)
      BY <1>1, <1>11, <1>17, <1>18, <3>2, RangeDown
    <3> QED BY <3>1, <3>3
  <2> QED BY <1>5, <2>1, <2>2
<1>22. Mesh!Min({i, j}) = lo /\ Mesh!Max({i, j}) = hi
  <2>1. lo < hi /\ {lo, hi} = {i, j} /\ lo \in Int /\ hi \in Int
    <3>1. lo < hi
      <4> HIDE DEF lo, hi
      <4> QED BY <1>21 DEF SplitsAt, Block
    <3> QED BY <1>3, <1>14, <3>1
  <2> HIDE DEF lo, hi
  <2>2. \A x \in {lo, hi} : (\A y \in {lo, hi} : x <= y) => x = lo
    BY <2>1
  <2>3. lo \in {lo, hi} /\ \A y \in {lo, hi} : lo <= y
    BY <2>1
  <2>4. \A x \in {lo, hi} : (\A y \in {lo, hi} : x >= y) => x = hi
    BY <2>1
  <2>5. hi \in {lo, hi} /\ \A y \in {lo, hi} : hi >= y
    BY <2>1
  <2>6. Mesh!Min({lo, hi}) = lo
    BY <2>2, <2>3 DEF Mesh!Min
  <2>7. Mesh!Max({lo, hi}) = hi
    BY <2>4, <2>5 DEF Mesh!Max
  <2> QED BY <2>1, <2>6, <2>7
<1> HIDE DEF lo, hi
<1>23. /\ NodeOf(k, D, lo, gamma) = IF lo = gamma THEN k - 1 + gamma ELSE gamma
       /\ NodeOf(k, D, gamma + 1, hi) = IF gamma + 1 = hi THEN k + gamma ELSE gamma + 1
  BY <1>1, <1>21, PartsAreBlocks DEF SplitsAt
<1>24. Mesh!Split(codes, i) = <<NodeOf(k, D, lo, gamma), NodeOf(k, D, gamma + 1, hi)>>
  BY <1>20, <1>22, <1>23
<1> QED BY <1>21, <1>24

\* The kernel builds a hierarchy over the keys.
LEMMA HierarchyBuilt ==
  ASSUME NEW k, NEW codes, KeysAssumed(k, codes), NEW D, D = PrefixTable(k, codes),
         NEW ch, ch = [i \in 0 .. k - 2 |-> Mesh!Split(codes, i)]
  PROVE  \E first, last, g : Hierarchy(k, D, first, last, g, ch)
<1> DEFINE Halves(i, w) ==
             /\ SplitsAt(k, D, i, w[1], w[2], w[3])
             /\ ch[i] = <<NodeOf(k, D, w[1], w[3]), NodeOf(k, D, w[3] + 1, w[2])>>
           half == [i \in 0 .. k - 2 |-> CHOOSE w : Halves(i, w)]
           first == [m \in 0 .. 2 * k - 2 |-> IF m \in 0 .. k - 2 THEN half[m][1] ELSE m - (k - 1)]
           last == [m \in 0 .. 2 * k - 2 |-> IF m \in 0 .. k - 2 THEN half[m][2] ELSE m - (k - 1)]
           g == [m \in 0 .. k - 2 |-> half[m][3]]
<1>1. Prefixes(k, D) /\ k \in Nat \ {0}
  <2>1. Prefixes(k, D)
    BY TableOfPrefixes
  <2> QED BY <2>1 DEF Prefixes
<1>2. ASSUME NEW i \in 0 .. k - 2 PROVE Halves(i, half[i])
  <2>1. PICK lo, hi, s : /\ SplitsAt(k, D, i, lo, hi, s)
                         /\ Mesh!Split(codes, i) = <<NodeOf(k, D, lo, s), NodeOf(k, D, s + 1, hi)>>
    BY SplitOfRange
  <2>2. Halves(i, <<lo, hi, s>>)
    BY <2>1
  <2> HIDE DEF Halves
  <2> QED BY <2>2
<1> HIDE DEF half
<1>3. ASSUME NEW i \in 0 .. k - 2
      PROVE  /\ SplitsAt(k, D, i, first[i], last[i], g[i])
             /\ ch[i] = <<NodeOf(k, D, first[i], g[i]), NodeOf(k, D, g[i] + 1, last[i])>>
             /\ first[i] \in 0 .. k - 1 /\ last[i] \in 0 .. k - 1
  <2>1. i \in 0 .. 2 * k - 2
    BY <1>1
  <2>2. first[i] = half[i][1] /\ last[i] = half[i][2] /\ g[i] = half[i][3]
    BY <2>1
  <2>3. half[i][1] \in 0 .. k - 1 /\ half[i][2] \in 0 .. k - 1
    BY <1>2 DEF SplitsAt, Block
  <2> HIDE DEF first, last, g
  <2> QED BY <1>2, <2>2, <2>3
<1>4. ASSUME NEW t \in k - 1 .. 2 * k - 2
      PROVE  first[t] = t - (k - 1) /\ last[t] = t - (k - 1) /\ t - (k - 1) \in 0 .. k - 1
  <2>1. t \in 0 .. 2 * k - 2 /\ t \notin 0 .. k - 2
    BY <1>1
  <2> QED BY <1>1, <2>1
<1>5. first \in [0 .. 2 * k - 2 -> 0 .. k - 1] /\ last \in [0 .. 2 * k - 2 -> 0 .. k - 1]
  <2>1. \A m \in 0 .. 2 * k - 2 : m \in 0 .. k - 2 \/ m \in k - 1 .. 2 * k - 2
    BY <1>1
  <2>2. \A m \in 0 .. 2 * k - 2 : first[m] \in 0 .. k - 1 /\ last[m] \in 0 .. k - 1
    <3> HIDE DEF first, last
    <3> QED BY <1>3, <1>4, <2>1
  <2>3. first = [m \in 0 .. 2 * k - 2 |-> first[m]] /\ last = [m \in 0 .. 2 * k - 2 |-> last[m]]
    OBVIOUS
  <2> HIDE DEF first, last
  <2> QED BY <2>2, <2>3
<1> HIDE DEF first, last, g
<1>6. Hierarchy(k, D, first, last, g, ch)
  BY <1>1, <1>3, <1>4, <1>5 DEF Hierarchy
<1> QED BY <1>6

-----------------------------------------------------------------------------
(* The boxes: the threads that climb a tree. *)

\* The leaves below each node, in a binary tree over all the leaves.
Labels(under) ==
  /\ under \in [Mesh!Nodes -> SUBSET Mesh!Leaves]
  /\ \A t \in Mesh!Leaves : under[t] = {t}
  /\ \A m \in Mesh!Nodes : under[m] # {}
  /\ under[Mesh!Root] = Mesh!Leaves
  /\ \A i \in Mesh!Inner :
       /\ under[i] = under[child[i][1]] \cup under[child[i][2]]
       /\ under[child[i][1]] \cap under[child[i][2]] = {}

IsTree ==
  /\ n \in Nat \ {0}
  /\ child \in [Mesh!Inner -> (Mesh!Nodes \ {Mesh!Root}) \X (Mesh!Nodes \ {Mesh!Root})]
  /\ \A m \in Mesh!Nodes \ {Mesh!Root} : \E i \in Mesh!Inner : m \in Mesh!Children(i)
  /\ \A i, j \in Mesh!Inner : i # j => Mesh!Children(i) \cap Mesh!Children(j) = {}
  /\ \E under : Labels(under)

Under == CHOOSE under : Labels(under)

Stages == {"leaf", "fence", "climb", "unite", "done"}

MeshTyped ==
  /\ box \in [Mesh!Nodes -> SUBSET Mesh!Leaves]
  /\ stored \in [Mesh!Leaves -> SUBSET [node : Mesh!Nodes, box : SUBSET Mesh!Leaves]]
  /\ visits \in [Mesh!Inner -> 0 .. 2]
  /\ node \in [Mesh!Leaves -> Mesh!Nodes]
  /\ leaf_pc \in [Mesh!Leaves -> Stages]

\* A thread is at a node until it leaves it to its sibling.
Busy(m) == \E t \in Mesh!Leaves : node[t] = m /\ leaf_pc[t] # "done"
Reached(m) == m \in Mesh!Leaves \/ (m \in Mesh!Inner /\ visits[m] = 2)
LeftBehind(m) == Reached(m) /\ ~Busy(m)
Count(m) == IF LeftBehind(m) THEN 1 ELSE 0

StagesPlaced ==
  \A t \in Mesh!Leaves :
    /\ leaf_pc[t] = "leaf" => node[t] = t
    /\ leaf_pc[t] = "unite" => node[t] \in Mesh!Inner
    /\ leaf_pc[t] \in {"fence", "climb"} => node[t] # Mesh!Root
    /\ leaf_pc[t] \in {"leaf", "climb", "unite"} => stored[t] = {}
    /\ leaf_pc[t] # "done" => Reached(node[t])
    /\ leaf_pc[t] = "done" /\ stored[t] # {} => node[t] = Mesh!Root

OneAtANode ==
  \A t, u \in Mesh!Leaves :
    leaf_pc[t] # "done" /\ leaf_pc[u] # "done" /\ node[t] = node[u] => t = u

VisitsCounted ==
  \A i \in Mesh!Inner : visits[i] = Count(child[i][1]) + Count(child[i][2])

StoredWhole ==
  \A t \in Mesh!Leaves : \A s \in stored[t] : s = [node |-> node[t], box |-> Under[node[t]]]

\* Either the thread at a node has still to store its box, or a whole box is there
\* or on its way.
BoxFollows(m) ==
  \/ box[m] = Under[m]
  \/ \E t \in Mesh!Leaves : node[t] = m /\ (leaf_pc[t] \in {"leaf", "unite"} \/ stored[t] # {})
BoxesFollow == \A m \in Mesh!Nodes : Reached(m) => BoxFollows(m)

MeshInv ==
  /\ IsTree
  /\ MeshTyped
  /\ StagesPlaced
  /\ OneAtANode
  /\ VisitsCounted
  /\ StoredWhole
  /\ BoxesFollow

LEMMA MeshNodes ==
  ASSUME IsTree
  PROVE  /\ Mesh!Leaves \subseteq Mesh!Nodes /\ Mesh!Inner \subseteq Mesh!Nodes
         /\ Mesh!Inner \cap Mesh!Leaves = {}
         /\ Mesh!Nodes = Mesh!Inner \cup Mesh!Leaves
         /\ Mesh!Root \in Mesh!Nodes
BY DEF IsTree, Mesh!Leaves, Mesh!Nodes, Mesh!Inner, Mesh!Root

LEMMA UnderLabels == ASSUME IsTree PROVE Labels(Under)
<1>1. PICK under : Labels(under)
  BY DEF IsTree
<1> QED BY <1>1 DEF Under

LEMMA InnerChildren ==
  ASSUME IsTree, NEW i \in Mesh!Inner
  PROVE  /\ child[i][1] \in Mesh!Nodes \ {Mesh!Root}
         /\ child[i][2] \in Mesh!Nodes \ {Mesh!Root}
         /\ child[i][1] # child[i][2]
         /\ Mesh!Children(i) = {child[i][1], child[i][2]}
<1>1. child[i] \in (Mesh!Nodes \ {Mesh!Root}) \X (Mesh!Nodes \ {Mesh!Root})
  BY DEF IsTree
<1>2. child[i][1] \in Mesh!Nodes \ {Mesh!Root} /\ child[i][2] \in Mesh!Nodes \ {Mesh!Root}
  BY <1>1
<1>3. /\ Under[child[i][1]] # {}
      /\ Under[child[i][1]] \cap Under[child[i][2]] = {}
  BY <1>2, UnderLabels DEF Labels
<1> QED BY <1>2, <1>3 DEF Mesh!Children

LEMMA ParentOf ==
  ASSUME IsTree, NEW m \in Mesh!Nodes, m # Mesh!Root
  PROVE  /\ Mesh!Parent(m) \in Mesh!Inner
         /\ m \in Mesh!Children(Mesh!Parent(m))
         /\ \A i \in Mesh!Inner : m \in Mesh!Children(i) => i = Mesh!Parent(m)
<1>1. PICK i \in Mesh!Inner : m \in Mesh!Children(i)
  BY DEF IsTree
<1>2. Mesh!Parent(m) \in Mesh!Inner /\ m \in Mesh!Children(Mesh!Parent(m))
  BY <1>1 DEF Mesh!Parent
<1>3. \A j \in Mesh!Inner : m \in Mesh!Children(j) => j = Mesh!Parent(m)
  BY <1>2 DEF IsTree
<1> QED BY <1>2, <1>3

LEMMA ParentDiffers ==
  ASSUME IsTree, NEW i \in Mesh!Inner, NEW m \in Mesh!Children(i)
  PROVE  m # i
<1>1. Under[i] = Under[child[i][1]] \cup Under[child[i][2]]
      /\ Under[child[i][1]] \cap Under[child[i][2]] = {}
      /\ Under[child[i][1]] # {} /\ Under[child[i][2]] # {}
  BY InnerChildren, UnderLabels DEF Labels
<1> QED BY <1>1 DEF Mesh!Children

\* Nothing the tree is made of changes.
LEMMA SameTree ==
  ASSUME UNCHANGED <<n, child>>
  PROVE  /\ IsTree' = IsTree /\ Under' = Under
         /\ Mesh!Leaves' = Mesh!Leaves /\ Mesh!Inner' = Mesh!Inner /\ Mesh!Nodes' = Mesh!Nodes
         /\ \A i : Mesh!Children(i)' = Mesh!Children(i)
BY DEF IsTree, Under, Labels, Mesh!Leaves, Mesh!Inner, Mesh!Nodes, Mesh!Children, Mesh!Root

\* A thread that stores the whole box of its node, and goes on.
LEMMA BoxStored ==
  ASSUME MeshInv, NEW t \in Mesh!Leaves, leaf_pc[t] \in {"leaf", "unite"},
         UNCHANGED <<n, child, box, visits, node>>,
         Mesh!StoreBox(t, node[t], Under[node[t]]),
         Mesh!Goto(t, IF node[t] = Mesh!Root THEN "done" ELSE "fence")
  PROVE  MeshInv'
<1> DEFINE m == node[t]
<1>1. /\ stored' = [stored EXCEPT ![t] = @ \cup {[node |-> m, box |-> Under[m]]}]
      /\ leaf_pc' = [leaf_pc EXCEPT ![t] = IF m = Mesh!Root THEN "done" ELSE "fence"]
  BY DEF Mesh!StoreBox, Mesh!Goto
<1>2. /\ IsTree' = IsTree /\ Under' = Under
      /\ Mesh!Leaves' = Mesh!Leaves /\ Mesh!Inner' = Mesh!Inner /\ Mesh!Nodes' = Mesh!Nodes
  BY SameTree
<1>3. /\ m \in Mesh!Nodes /\ Under[m] \in SUBSET Mesh!Leaves /\ stored[t] = {}
      /\ Reached(m)
  BY UnderLabels DEF MeshInv, MeshTyped, Labels, StagesPlaced
<1>4. MeshTyped'
  BY <1>1, <1>2, <1>3 DEF MeshInv, MeshTyped, Stages
<1>5. \A x \in Mesh!Nodes : Reached(x)' = Reached(x)
  BY <1>2 DEF Reached
<1>6. /\ \A u \in Mesh!Leaves \ {t} : leaf_pc'[u] = leaf_pc[u] /\ stored'[u] = stored[u]
      /\ leaf_pc'[t] = IF m = Mesh!Root THEN "done" ELSE "fence"
      /\ stored'[t] = {[node |-> m, box |-> Under[m]]}
  BY <1>1, <1>3 DEF MeshInv, MeshTyped
<1>7. StagesPlaced'
  BY <1>2, <1>3, <1>5, <1>6 DEF MeshInv, MeshTyped, StagesPlaced, Mesh!Root
<1>8. OneAtANode'
  BY <1>2, <1>6 DEF MeshInv, OneAtANode
<1>9. \A x \in Mesh!Nodes \ {Mesh!Root} : Busy(x)' = Busy(x)
  BY <1>2, <1>6 DEF Busy
<1>10. \A x \in Mesh!Nodes \ {Mesh!Root} : Count(x)' = Count(x)
  BY <1>5, <1>9 DEF Count, LeftBehind
<1>11. VisitsCounted'
  BY <1>2, <1>10, InnerChildren DEF MeshInv, VisitsCounted
<1>12. StoredWhole'
  BY <1>2, <1>6 DEF MeshInv, StoredWhole
<1>13. ASSUME NEW x \in Mesh!Nodes, Reached(x) PROVE BoxFollows(x)'
  <2>1. BoxFollows(x)
    BY <1>13 DEF MeshInv, BoxesFollow
  <2>2. CASE x = m
    BY <2>2, <1>2, <1>6 DEF BoxFollows
  <2>3. CASE x # m
    BY <2>1, <2>3, <1>2, <1>6 DEF BoxFollows
  <2> QED BY <2>2, <2>3
<1>14. BoxesFollow'
  BY <1>2, <1>5, <1>13 DEF BoxesFollow
<1> QED BY <1>2, <1>4, <1>7, <1>8, <1>11, <1>12, <1>14 DEF MeshInv

LEMMA StoreLeafInv ==
  ASSUME MeshInv, NEW t \in Mesh!Leaves, Mesh!StoreLeaf(t) PROVE MeshInv'
<1>1. node[t] = t /\ leaf_pc[t] = "leaf"
  BY DEF MeshInv, StagesPlaced, Mesh!StoreLeaf
<1>2. Under[node[t]] = {t}
  BY <1>1, UnderLabels DEF MeshInv, Labels
<1>3. /\ Mesh!StoreBox(t, node[t], Under[node[t]])
      /\ Mesh!Goto(t, IF node[t] = Mesh!Root THEN "done" ELSE "fence")
      /\ UNCHANGED <<n, child, box, visits, node>>
  BY <1>1, <1>2 DEF Mesh!StoreLeaf
<1> QED BY <1>1, <1>3, BoxStored

\* The box of a node that its thread has left behind.
LEMMA LeftBehindBox ==
  ASSUME MeshInv, NEW m \in Mesh!Nodes, m # Mesh!Root, LeftBehind(m) PROVE box[m] = Under[m]
<1>1. BoxFollows(m) /\ ~Busy(m)
  BY DEF MeshInv, BoxesFollow, LeftBehind
<1>2. ASSUME NEW t \in Mesh!Leaves, node[t] = m, leaf_pc[t] \in {"leaf", "unite"} \/ stored[t] # {}
      PROVE  FALSE
  BY <1>1, <1>2 DEF Busy, MeshInv, StagesPlaced
<1> QED BY <1>1, <1>2 DEF BoxFollows

LEMMA UniteInv ==
  ASSUME MeshInv, NEW t \in Mesh!Leaves, Mesh!Unite(t) PROVE MeshInv'
<1> DEFINE i == node[t]
<1>1. leaf_pc[t] = "unite" /\ i \in Mesh!Inner /\ Reached(i)
  BY DEF MeshInv, StagesPlaced, Mesh!Unite
<1>2. visits[i] = 2
  BY <1>1, MeshNodes DEF Reached, MeshInv
<1>3. LeftBehind(child[i][1]) /\ LeftBehind(child[i][2])
  <2>1. 2 = Count(child[i][1]) + Count(child[i][2])
    BY <1>1, <1>2 DEF MeshInv, VisitsCounted
  <2> QED BY <2>1 DEF Count
<1>4. /\ box[child[i][1]] = Under[child[i][1]]
      /\ box[child[i][2]] = Under[child[i][2]]
  BY <1>1, <1>3, InnerChildren, LeftBehindBox DEF MeshInv
<1>5. UNION {box[c] : c \in Mesh!Children(i)} = Under[i]
  <2>1. Under[i] = Under[child[i][1]] \cup Under[child[i][2]]
    BY <1>1, UnderLabels DEF MeshInv, Labels
  <2>2. Mesh!Children(i) = {child[i][1], child[i][2]}
    BY DEF Mesh!Children
  <2> QED BY <2>1, <2>2, <1>4
<1>6. /\ Mesh!StoreBox(t, i, Under[i])
      /\ Mesh!Goto(t, IF i = Mesh!Root THEN "done" ELSE "fence")
      /\ UNCHANGED <<n, child, box, visits, node>>
  BY <1>5 DEF Mesh!Unite
<1> QED BY <1>1, <1>6, BoxStored

LEMMA MeshFenceInv ==
  ASSUME MeshInv, NEW t \in Mesh!Leaves, Mesh!Fence(t) PROVE MeshInv'
<1>1. /\ leaf_pc[t] = "fence" /\ stored[t] = {}
      /\ leaf_pc' = [leaf_pc EXCEPT ![t] = "climb"]
      /\ UNCHANGED <<n, child, box, stored, visits, node>>
  BY DEF Mesh!Fence, Mesh!Goto
<1>2. /\ IsTree' = IsTree /\ Under' = Under
      /\ Mesh!Leaves' = Mesh!Leaves /\ Mesh!Inner' = Mesh!Inner /\ Mesh!Nodes' = Mesh!Nodes
  BY <1>1, SameTree
<1>3. MeshTyped'
  BY <1>1, <1>2 DEF MeshInv, MeshTyped, Stages
<1>4. /\ \A u \in Mesh!Leaves \ {t} : leaf_pc'[u] = leaf_pc[u]
      /\ leaf_pc'[t] = "climb"
  BY <1>1 DEF MeshInv, MeshTyped
<1>5. \A x : Reached(x)' = Reached(x)
  BY <1>1, <1>2 DEF Reached
<1>6. \A x : Busy(x)' = Busy(x)
  BY <1>1, <1>2, <1>4 DEF Busy
<1>7. VisitsCounted'
  BY <1>1, <1>2, <1>5, <1>6 DEF MeshInv, VisitsCounted, Count, LeftBehind
<1>8. StagesPlaced'
  BY <1>1, <1>2, <1>4, <1>5 DEF MeshInv, StagesPlaced, Mesh!Root
<1>9. OneAtANode'
  BY <1>1, <1>2, <1>4 DEF MeshInv, OneAtANode
<1>10. StoredWhole'
  BY <1>1, <1>2 DEF MeshInv, StoredWhole
<1>11. \A x : BoxFollows(x) => BoxFollows(x)'
  BY <1>1, <1>2, <1>4 DEF BoxFollows
<1>12. BoxesFollow'
  BY <1>2, <1>5, <1>11 DEF MeshInv, BoxesFollow
<1> QED BY <1>2, <1>3, <1>7, <1>8, <1>9, <1>10, <1>12 DEF MeshInv

LEMMA VisibleInv ==
  ASSUME MeshInv, NEW t \in Mesh!Leaves, NEW s \in stored[t], Mesh!Visible(t, s) PROVE MeshInv'
<1> DEFINE m == node[t]
<1>1. /\ box' = [box EXCEPT ![s.node] = s.box]
      /\ stored' = [stored EXCEPT ![t] = @ \ {s}]
      /\ UNCHANGED <<n, child, visits, node, leaf_pc>>
  BY DEF Mesh!Visible
<1>2. s = [node |-> m, box |-> Under[m]] /\ stored[t] = {s}
  BY DEF MeshInv, StoredWhole
<1>3. s.node = m /\ s.box = Under[m]
  BY <1>2
<1>4. m \in Mesh!Nodes /\ Under[m] \in SUBSET Mesh!Leaves
  BY UnderLabels DEF MeshInv, MeshTyped, Labels
<1>5. /\ IsTree' = IsTree /\ Under' = Under
      /\ Mesh!Leaves' = Mesh!Leaves /\ Mesh!Inner' = Mesh!Inner /\ Mesh!Nodes' = Mesh!Nodes
  BY <1>1, SameTree
<1>6. /\ box'[m] = Under[m] /\ \A x \in Mesh!Nodes \ {m} : box'[x] = box[x]
      /\ stored'[t] = {} /\ \A u \in Mesh!Leaves \ {t} : stored'[u] = stored[u]
  BY <1>1, <1>2, <1>3, <1>4 DEF MeshInv, MeshTyped
<1>7. MeshTyped'
  BY <1>1, <1>3, <1>4, <1>5 DEF MeshInv, MeshTyped
<1>8. \A x : Reached(x)' = Reached(x) /\ Busy(x)' = Busy(x)
  BY <1>1, <1>5 DEF Reached, Busy
<1>9. VisitsCounted'
  BY <1>1, <1>5, <1>8 DEF MeshInv, VisitsCounted, Count, LeftBehind
<1>10. StagesPlaced' /\ OneAtANode'
  BY <1>1, <1>5, <1>6, <1>8 DEF MeshInv, StagesPlaced, OneAtANode, Mesh!Root
<1>11. StoredWhole'
  BY <1>1, <1>5, <1>6 DEF MeshInv, StoredWhole
<1>12. ASSUME NEW x \in Mesh!Nodes, Reached(x) PROVE BoxFollows(x)'
  <2>1. BoxFollows(x)
    BY <1>12 DEF MeshInv, BoxesFollow
  <2>2. CASE x = m
    BY <2>2, <1>5, <1>6 DEF BoxFollows
  <2>3. CASE x # m
    BY <2>1, <2>3, <1>1, <1>5, <1>6 DEF BoxFollows
  <2> QED BY <2>2, <2>3
<1>13. BoxesFollow'
  BY <1>5, <1>8, <1>12 DEF BoxesFollow
<1> QED BY <1>5, <1>7, <1>9, <1>10, <1>11, <1>13 DEF MeshInv

\* The first to arrive at a parent stops; the second finds both children left behind.
LEMMA ClimbInv ==
  ASSUME MeshInv, NEW t \in Mesh!Leaves, Mesh!Climb(t) PROVE MeshInv'
<1>a. PICK m : m = node[t]
  OBVIOUS
<1>b. PICK p : p = Mesh!Parent(m)
  OBVIOUS
<1>1. /\ leaf_pc[t] = "climb"
      /\ node' = [node EXCEPT ![t] = p]
      /\ visits' = [visits EXCEPT ![p] = @ + 1]
      /\ leaf_pc' = [leaf_pc EXCEPT ![t] = IF visits[p] = 0 THEN "done" ELSE "unite"]
      /\ UNCHANGED <<n, child, box, stored>>
  BY <1>a, <1>b DEF Mesh!Climb, Mesh!Goto
<1>2. /\ m \in Mesh!Nodes /\ m # Mesh!Root /\ Reached(m) /\ stored[t] = {}
      /\ Busy(m)
  BY <1>1, <1>a DEF MeshInv, MeshTyped, StagesPlaced, Busy
<1>3. /\ p \in Mesh!Inner /\ m \in Mesh!Children(p)
      /\ \A i \in Mesh!Inner : m \in Mesh!Children(i) => i = p
  BY <1>2, <1>b, ParentOf DEF MeshInv
<1>4. m # p /\ p \in Mesh!Nodes /\ p \notin Mesh!Leaves
  BY <1>3, ParentDiffers, MeshNodes DEF MeshInv
<1>5. /\ IsTree' = IsTree /\ Under' = Under
      /\ Mesh!Leaves' = Mesh!Leaves /\ Mesh!Inner' = Mesh!Inner /\ Mesh!Nodes' = Mesh!Nodes
  BY <1>1, SameTree
<1>6. visits[p] = 0 \/ visits[p] = 1
  <2>1. visits[p] = Count(child[p][1]) + Count(child[p][2])
    BY <1>3 DEF MeshInv, VisitsCounted
  <2>2. m = child[p][1] \/ m = child[p][2]
    BY <1>3 DEF Mesh!Children
  <2>3. Count(m) = 0
    BY <1>2 DEF Count, LeftBehind
  <2> QED BY <2>1, <2>2, <2>3 DEF Count
<1>7. ~Reached(p)
  BY <1>4, <1>6 DEF Reached
<1>8. \A u \in Mesh!Leaves : node[u] = p => leaf_pc[u] = "done"
  BY <1>7 DEF MeshInv, StagesPlaced
<1>9. \A u \in Mesh!Leaves \ {t} : node[u] = m => leaf_pc[u] = "done"
  BY <1>1, <1>a DEF MeshInv, OneAtANode
<1>10. /\ node'[t] = p /\ \A u \in Mesh!Leaves \ {t} : node'[u] = node[u]
       /\ leaf_pc'[t] = IF visits[p] = 0 THEN "done" ELSE "unite"
       /\ \A u \in Mesh!Leaves \ {t} : leaf_pc'[u] = leaf_pc[u]
       /\ visits'[p] = visits[p] + 1 /\ \A i \in Mesh!Inner \ {p} : visits'[i] = visits[i]
  BY <1>1, <1>3 DEF MeshInv, MeshTyped
<1>11. MeshTyped'
  <2>1. visits[p] + 1 \in 0 .. 2
    BY <1>6
  <2> QED BY <2>1, <1>1, <1>3, <1>4, <1>5 DEF MeshInv, MeshTyped, Stages
<1>12. \A x \in Mesh!Nodes \ {p} : Reached(x)' = Reached(x)
  BY <1>5, <1>10 DEF Reached
<1>13. Reached(p)' <=> visits[p] = 1
  BY <1>3, <1>4, <1>5, <1>6, <1>10 DEF Reached
<1>14. \A x \in Mesh!Nodes \ {m, p} : Busy(x)' = Busy(x)
  BY <1>a, <1>5, <1>10 DEF Busy
<1>15. ~Busy(m)'
  BY <1>4, <1>5, <1>9, <1>10 DEF Busy
<1>16. visits[p] = 1 => Busy(p)'
  BY <1>5, <1>10 DEF Busy
<1>17. \A x \in Mesh!Nodes \ {m} : Count(x)' = Count(x)
  <2>1. Count(p) = 0 /\ Count(p)' = 0
    BY <1>7, <1>13, <1>16 DEF Count, LeftBehind
  <2>2. \A x \in Mesh!Nodes \ {m, p} : Count(x)' = Count(x)
    BY <1>12, <1>14 DEF Count, LeftBehind
  <2> QED BY <2>1, <2>2
<1>18. Count(m) = 0 /\ Count(m)' = 1
  BY <1>2, <1>4, <1>12, <1>15 DEF Count, LeftBehind
<1>19. VisitsCounted'
  <2>1. ASSUME NEW i \in Mesh!Inner, NEW a, NEW b, a = child[i][1], b = child[i][2]
        PROVE  visits'[i] = Count(a)' + Count(b)'
    <3>1. a \in Mesh!Nodes /\ b \in Mesh!Nodes /\ a # b /\ Mesh!Children(i) = {a, b}
      BY <2>1, InnerChildren DEF MeshInv
    <3>2. visits[i] = Count(a) + Count(b)
      BY <2>1 DEF MeshInv, VisitsCounted
    <3>3. CASE i # p
      BY <3>1, <3>2, <3>3, <1>3, <1>10, <1>17
    <3>4. CASE i = p
      <4>1. CASE m = a
        BY <3>1, <3>2, <3>4, <4>1, <1>10, <1>17, <1>18 DEF Count
      <4>2. CASE m = b
        BY <3>1, <3>2, <3>4, <4>2, <1>10, <1>17, <1>18 DEF Count
      <4> QED BY <3>1, <3>4, <4>1, <4>2, <1>3
    <3> QED BY <3>3, <3>4
  <2>2. ASSUME NEW i \in Mesh!Inner
        PROVE  visits'[i] = Count(child[i][1])' + Count(child[i][2])'
    <3>1. PICK a, b : a = child[i][1] /\ b = child[i][2]
      OBVIOUS
    <3>2. visits'[i] = Count(a)' + Count(b)'
      BY <2>1, <3>1
    <3>3. a = child'[i][1] /\ b = child'[i][2]
      BY <3>1, <1>1
    <3> QED BY <3>2, <3>3
  <2> QED BY <2>2, <1>5 DEF VisitsCounted
<1>20. StagesPlaced'
  <2>1. ASSUME NEW u \in Mesh!Leaves, u # t
        PROVE  leaf_pc[u] # "done" => Reached(node[u])'
    <3>1. ASSUME leaf_pc[u] # "done" PROVE Reached(node[u])'
      <4>1. Reached(node[u]) /\ node[u] # p /\ node[u] \in Mesh!Nodes
        BY <3>1, <1>8 DEF MeshInv, StagesPlaced, MeshTyped
      <4>2. node'[u] = node[u]
        BY <1>10, <2>1
      <4>3. \A x \in Mesh!Nodes \ {p} : Reached(x)' = Reached(x)
        BY <1>12
      <4> QED BY <4>1, <4>2, <4>3 DEF Reached, Mesh!Leaves, Mesh!Inner
    <3> QED BY <3>1
  <2>2. leaf_pc'[t] # "done" => Reached(node[t])'
    BY <1>10, <1>13, <1>6 DEF Reached
  <2>3. ASSUME NEW u \in Mesh!Leaves
        PROVE  /\ leaf_pc'[u] = "leaf" => node'[u] = u
               /\ leaf_pc'[u] = "unite" => node'[u] \in Mesh!Inner
               /\ leaf_pc'[u] \in {"fence", "climb"} => node'[u] # Mesh!Root
               /\ leaf_pc'[u] \in {"leaf", "climb", "unite"} => stored[u] = {}
               /\ leaf_pc'[u] = "done" /\ stored[u] # {} => node'[u] = Mesh!Root
    <3>1. CASE u = t
      BY <3>1, <1>2, <1>3, <1>10
    <3>2. CASE u # t
      BY <3>2, <1>10 DEF MeshInv, StagesPlaced
    <3> QED BY <3>1, <3>2
  <2> QED BY <1>1, <1>5, <1>10, <2>1, <2>2, <2>3 DEF StagesPlaced, Mesh!Root
<1>21. OneAtANode'
  BY <1>5, <1>8, <1>10 DEF MeshInv, OneAtANode
<1>22. StoredWhole'
  BY <1>1, <1>2, <1>5, <1>10 DEF MeshInv, StoredWhole
<1>23. ASSUME NEW x \in Mesh!Nodes, x # p, Reached(x) PROVE BoxFollows(x)'
  <2>1. CASE box[x] = Under[x]
    BY <2>1, <1>1, <1>5 DEF BoxFollows
  <2>2. CASE box[x] # Under[x]
    <3>1. PICK u \in Mesh!Leaves :
            node[u] = x /\ (leaf_pc[u] \in {"leaf", "unite"} \/ stored[u] # {})
      BY <1>23, <2>2 DEF MeshInv, BoxesFollow, BoxFollows
    <3>2. u # t
      BY <1>1, <1>2, <3>1
    <3> QED BY <3>1, <3>2, <1>1, <1>5, <1>10 DEF BoxFollows
  <2> QED BY <2>1, <2>2
<1>24. Reached(p)' => BoxFollows(p)'
  BY <1>5, <1>10, <1>13 DEF BoxFollows
<1>25. BoxesFollow'
  BY <1>5, <1>12, <1>23, <1>24 DEF BoxesFollow
<1> QED BY <1>5, <1>11, <1>19, <1>20, <1>21, <1>22, <1>25 DEF MeshInv

LEMMA MeshInitInv == ASSUME Mesh!Init, IsTree PROVE MeshInv
<1>1. /\ box = [m \in Mesh!Nodes |-> {}] /\ stored = [t \in Mesh!Leaves |-> {}]
      /\ visits = [m \in Mesh!Inner |-> 0] /\ node = [t \in Mesh!Leaves |-> t]
      /\ leaf_pc = [t \in Mesh!Leaves |-> "leaf"]
  BY DEF Mesh!Init
<1>2. MeshTyped
  BY <1>1, MeshNodes DEF MeshTyped, Stages
<1>3. /\ \A t \in Mesh!Leaves : node[t] = t /\ leaf_pc[t] = "leaf" /\ stored[t] = {}
      /\ \A i \in Mesh!Inner : visits[i] = 0
  BY <1>1
<1>4. StagesPlaced
  BY <1>3 DEF StagesPlaced, Reached
<1>5. \A m \in Mesh!Nodes : Reached(m) <=> m \in Mesh!Leaves
  BY <1>3, MeshNodes DEF Reached
<1>6. \A m \in Mesh!Nodes : Count(m) = 0
  BY <1>3, <1>5 DEF Count, LeftBehind, Busy
<1>7. VisitsCounted
  BY <1>3, <1>6, InnerChildren DEF VisitsCounted
<1>8. BoxesFollow
  BY <1>3, <1>5 DEF BoxesFollow, BoxFollows
<1> QED BY <1>2, <1>3, <1>4, <1>7, <1>8 DEF MeshInv, OneAtANode, StoredWhole

LEMMA MeshNextInv == ASSUME MeshInv, [Mesh!Next]_mesh_vars PROVE MeshInv'
<1>1. CASE UNCHANGED mesh_vars
  <2>1. UNCHANGED <<n, child, box, stored, visits, node, leaf_pc>>
    BY <1>1 DEF mesh_vars
  <2>2. /\ IsTree' = IsTree /\ Under' = Under
        /\ Mesh!Leaves' = Mesh!Leaves /\ Mesh!Inner' = Mesh!Inner /\ Mesh!Nodes' = Mesh!Nodes
    BY <2>1, SameTree
  <2>3. \A x : Reached(x)' = Reached(x) /\ Busy(x)' = Busy(x) /\ BoxFollows(x)' = BoxFollows(x)
    BY <2>1, <2>2 DEF Reached, Busy, BoxFollows
  <2>4. MeshTyped' /\ StagesPlaced' /\ OneAtANode' /\ StoredWhole'
    BY <2>1, <2>2, <2>3 DEF MeshInv, MeshTyped, StagesPlaced, OneAtANode, StoredWhole, Mesh!Root
  <2>5. VisitsCounted' /\ BoxesFollow'
    BY <2>1, <2>2, <2>3 DEF MeshInv, VisitsCounted, BoxesFollow, Count, LeftBehind
  <2> QED BY <2>2, <2>4, <2>5 DEF MeshInv
<1>2. ASSUME NEW t \in Mesh!Leaves, Mesh!Step(t) PROVE MeshInv'
  BY <1>2, StoreLeafInv, MeshFenceInv, ClimbInv, UniteInv, VisibleInv DEF Mesh!Step
<1> QED BY <1>1, <1>2 DEF Mesh!Next

\* Once every thread is done, every node was reached: of those that were not, one
\* with the fewest leaves has children that were, and that nobody is at.
LEMMA AllReached ==
  ASSUME MeshInv, Mesh!KernelOver, NEW m \in Mesh!Nodes PROVE Reached(m)
<1>1. \A x \in Mesh!Nodes : ~Busy(x)
  BY DEF Mesh!KernelOver, Busy
<1>2. IsFiniteSet(Mesh!Leaves)
  BY FS_Interval DEF MeshInv, IsTree, Mesh!Leaves
<1>3. \A x \in Mesh!Nodes : IsFiniteSet(Under[x]) /\ Cardinality(Under[x]) \in Nat
  BY <1>2, FS_Subset, FS_CardinalityType, UnderLabels DEF MeshInv, Labels
<1> DEFINE Sizes == {Cardinality(Under[x]) : x \in {x \in Mesh!Nodes : ~Reached(x)}}
<1>4. SUFFICES ASSUME ~Reached(m) PROVE FALSE
  OBVIOUS
<1>5. Sizes \in SUBSET Nat /\ Sizes # {}
  BY <1>3, <1>4
<1>6. PICK z \in Sizes : \A y \in Sizes : z <= y
  BY <1>5, LeastNatural
<1>7. PICK i \in Mesh!Nodes : ~Reached(i) /\ z = Cardinality(Under[i])
  BY <1>6
<1>8. i \in Mesh!Inner
  BY <1>7, MeshNodes DEF MeshInv, Reached
<1>9. PICK a, b : a = child[i][1] /\ b = child[i][2]
  OBVIOUS
<1>10. /\ a \in Mesh!Nodes /\ b \in Mesh!Nodes
       /\ Under[i] = Under[a] \cup Under[b] /\ Under[a] \cap Under[b] = {}
       /\ Under[a] # {} /\ Under[b] # {}
  BY <1>8, <1>9, InnerChildren, UnderLabels DEF MeshInv, Labels
<1>11. ASSUME NEW c \in {a, b} PROVE Reached(c)
  <2>1. c \in Mesh!Nodes /\ Under[c] \subseteq Under[i] /\ Under[c] # Under[i]
    BY <1>10
  <2>2. Cardinality(Under[c]) < Cardinality(Under[i])
    BY <1>3, <2>1, FS_Subset
  <2>3. Cardinality(Under[c]) \in Nat /\ Cardinality(Under[i]) \in Nat
    BY <1>3, <2>1
  <2>4. Cardinality(Under[c]) \notin Sizes
    BY <1>6, <1>7, <2>2, <2>3
  <2> QED BY <2>1, <2>4
<1>12. Count(a) = 1 /\ Count(b) = 1
  BY <1>1, <1>10, <1>11 DEF Count, LeftBehind
<1>13. visits[i] = 2
  BY <1>8, <1>9, <1>12 DEF MeshInv, VisitsCounted
<1> QED BY <1>7, <1>8, <1>13 DEF Reached

LEMMA MeshBoxes == ASSUME MeshInv PROVE Mesh!BoxesEnclose
<1> SUFFICES ASSUME Mesh!KernelOver
             PROVE  /\ box[Mesh!Root] = Mesh!Leaves
                    /\ \A i \in Mesh!Inner :
                         /\ box[i] = box[child[i][1]] \cup box[child[i][2]]
                         /\ box[child[i][1]] \cap box[child[i][2]] = {}
                    /\ \A t \in Mesh!Leaves : box[t] = {t}
  BY DEF Mesh!BoxesEnclose
<1>1. \A m \in Mesh!Nodes : box[m] = Under[m]
  <2>1. \A t \in Mesh!Leaves : leaf_pc[t] = "done" /\ stored[t] = {}
    BY DEF Mesh!KernelOver
  <2> QED BY <2>1, AllReached DEF MeshInv, BoxesFollow, BoxFollows
<1>2. \A i \in Mesh!Inner : i \in Mesh!Nodes /\ child[i][1] \in Mesh!Nodes /\ child[i][2] \in Mesh!Nodes
  BY InnerChildren, MeshNodes DEF MeshInv
<1>3. Mesh!Root \in Mesh!Nodes /\ \A t \in Mesh!Leaves : t \in Mesh!Nodes
  BY MeshNodes DEF MeshInv
<1> QED BY <1>1, <1>2, <1>3, UnderLabels DEF MeshInv, Labels

LEMMA MeshTypes == ASSUME MeshInv, n <= MaxLeaves, MaxLeaves \in Nat PROVE Mesh!TypeOK
<1>1. \A t \in Mesh!Leaves : stored[t] \subseteq [node : Mesh!Nodes, box : SUBSET Mesh!Leaves]
  BY DEF MeshInv, MeshTyped
<1> QED BY <1>1 DEF MeshInv, MeshTyped, IsTree, Mesh!TypeOK, Stages

-----------------------------------------------------------------------------
(* The tree that is built. *)

\* The leaves of the keys below each node label the tree.
LEMMA HierarchyLabels ==
  ASSUME n \in Nat \ {0}, NEW D, NEW first, NEW last, NEW g, Hierarchy(n, D, first, last, g, child)
  PROVE  \E under : Labels(under)
<1> DEFINE Below(m) == {t \in Mesh!Leaves : first[m] <= t - (n - 1) /\ t - (n - 1) <= last[m]}
           under == [m \in Mesh!Nodes |-> Below(m)]
<1>1. /\ Mesh!Nodes = 0 .. 2 * n - 2 /\ Mesh!Inner = 0 .. n - 2 /\ Mesh!Leaves = n - 1 .. 2 * n - 2
      /\ Mesh!Root = 0
  BY DEF Mesh!Nodes, Mesh!Inner, Mesh!Leaves, Mesh!Root
<1>2. /\ first \in [0 .. 2 * n - 2 -> 0 .. n - 1] /\ last \in [0 .. 2 * n - 2 -> 0 .. n - 1]
      /\ \A t \in n - 1 .. 2 * n - 2 : first[t] = t - (n - 1) /\ last[t] = t - (n - 1)
  BY DEF Hierarchy
<1>3. \A t \in Mesh!Leaves : t - (n - 1) \in 0 .. n - 1 /\ t \in 0 .. 2 * n - 2
  BY <1>1
<1>4. under \in [Mesh!Nodes -> SUBSET Mesh!Leaves]
  OBVIOUS
<1>5. ASSUME NEW t \in Mesh!Leaves PROVE under[t] = {t}
  <2>1. under[t] = Below(t)
    BY <1>1, <1>3
  <2>2. first[t] = t - (n - 1) /\ last[t] = t - (n - 1) /\ t \in Int
    BY <1>1, <1>2
  <2>3. ASSUME NEW u \in Mesh!Leaves PROVE u \in Below(t) <=> u = t
    <3>1. u \in Int
      BY <1>1
    <3> QED BY <2>2, <3>1
  <2> HIDE DEF under
  <2> QED BY <2>1, <2>3
<1>6. ASSUME NEW m \in Mesh!Nodes PROVE under[m] # {}
  <2>1. m \in 0 .. 2 * n - 2 /\ first[m] \in 0 .. n - 1 /\ last[m] \in 0 .. n - 1 /\ first[m] <= last[m]
    BY <1>1, <1>2, NodeOfItsKeys
  <2>2. n - 1 + first[m] \in Mesh!Leaves /\ (n - 1 + first[m]) - (n - 1) = first[m]
    BY <1>1, <2>1
  <2> QED BY <2>1, <2>2
<1>7. under[Mesh!Root] = Mesh!Leaves
  <2>1. first[0] = 0 /\ last[0] = n - 1 /\ Mesh!Root \in Mesh!Nodes
    BY <1>1, KeysOfRoot
  <2> QED BY <1>1, <1>3, <2>1
<1>8. ASSUME NEW i \in Mesh!Inner
      PROVE  /\ under[i] = under[child[i][1]] \cup under[child[i][2]]
             /\ under[child[i][1]] \cap under[child[i][2]] = {}
  <2>1. PICK a, b : a = child[i][1] /\ b = child[i][2]
    OBVIOUS
  <2>2. /\ a \in 1 .. 2 * n - 2 /\ b \in 1 .. 2 * n - 2
        /\ first[a] = first[i] /\ last[a] = g[i]
        /\ first[b] = g[i] + 1 /\ last[b] = last[i]
    BY <1>1, <2>1, KeysOfChildren
  <2>3. a \in Mesh!Nodes /\ b \in Mesh!Nodes /\ i \in Mesh!Nodes
    BY <1>1, <2>2
  <2>4. g[i] \in Int /\ first[i] \in Int /\ last[i] \in Int /\ first[i] <= g[i] /\ g[i] < last[i]
    <3>1. g[i] \in first[i] .. last[i] - 1 /\ first[i] \in 0 .. n - 1 /\ last[i] \in 0 .. n - 1
      BY <1>1, <1>2, <2>3 DEF Hierarchy, SplitsAt
    <3> QED BY <3>1
  <2>5. under[a] = Below(a) /\ under[b] = Below(b) /\ under[i] = Below(i)
    BY <2>3
  <2>6. ASSUME NEW t \in Mesh!Leaves
        PROVE  /\ t \in Below(i) <=> t \in Below(a) \/ t \in Below(b)
               /\ ~(t \in Below(a) /\ t \in Below(b))
    <3>1. PICK x \in Int : x = t - (n - 1)
      BY <1>3
    <3> QED BY <2>2, <2>4, <3>1
  <2>7. Below(i) = Below(a) \cup Below(b) /\ Below(a) \cap Below(b) = {}
    BY <2>6
  <2> HIDE DEF under, Below
  <2> QED BY <2>1, <2>5, <2>7
<1> HIDE DEF under
<1>9. Labels(under)
  BY <1>4, <1>5, <1>6, <1>7, <1>8 DEF Labels
<1> QED BY <1>9

\* bvh_hierarchy_kernel builds a tree.
LEMMA TreeBuilt == ASSUME Mesh!Init PROVE IsTree /\ n \in 1 .. MaxLeaves
<1>1. PICK codes \in Mesh!SortedCodes(n) : child = [i \in Mesh!Inner |-> Mesh!Split(codes, i)]
  BY DEF Mesh!Init
<1>2. n \in 1 .. MaxLeaves /\ n \in Nat \ {0} /\ 2 ^ IndexBits \in Nat
  BY TwoPower, MeshAssumption DEF Mesh!Init
<1>3. KeysAssumed(n, codes)
  BY <1>1, <1>2, MeshAssumption DEF KeysAssumed
<1>4. child = [i \in 0 .. n - 2 |-> Mesh!Split(codes, i)]
  BY <1>1 DEF Mesh!Inner
<1>5. PICK D : D = PrefixTable(n, codes)
  OBVIOUS
<1>6. PICK first, last, g : Hierarchy(n, D, first, last, g, child)
  BY <1>3, <1>4, <1>5, HierarchyBuilt
<1>7. /\ Mesh!Nodes = 0 .. 2 * n - 2 /\ Mesh!Inner = 0 .. n - 2 /\ Mesh!Root = 0
      /\ Mesh!Nodes \ {Mesh!Root} = 1 .. 2 * n - 2
  BY <1>2 DEF Mesh!Nodes, Mesh!Inner, Mesh!Leaves, Mesh!Root
<1>8. child \in [Mesh!Inner -> (Mesh!Nodes \ {Mesh!Root}) \X (Mesh!Nodes \ {Mesh!Root})]
  <2>1. ASSUME NEW i \in 0 .. n - 2 PROVE child[i] \in (1 .. 2 * n - 2) \X (1 .. 2 * n - 2)
    <3>1. PICK a, b : a = child[i][1] /\ b = child[i][2]
      OBVIOUS
    <3>2. a \in 1 .. 2 * n - 2 /\ b \in 1 .. 2 * n - 2 /\ child[i] = <<a, b>>
      BY <1>6, <3>1, KeysOfChildren
    <3> QED BY <3>2
  <2>2. child = [i \in 0 .. n - 2 |-> child[i]]
    BY <1>4
  <2> QED BY <1>7, <2>1, <2>2
<1>9. \A m \in Mesh!Nodes \ {Mesh!Root} : \E i \in Mesh!Inner : m \in Mesh!Children(i)
  BY <1>6, <1>7, HasParent DEF Mesh!Children
<1>10. \A i, j \in Mesh!Inner : i # j => Mesh!Children(i) \cap Mesh!Children(j) = {}
  <2> SUFFICES ASSUME NEW i \in Mesh!Inner, NEW j \in Mesh!Inner, NEW m,
                      m \in Mesh!Children(i), m \in Mesh!Children(j)
               PROVE  i = j
    OBVIOUS
  <2>1. ChildOf(child, i, m) /\ ChildOf(child, j, m)
    BY DEF ChildOf, Mesh!Children
  <2>2. i \in 0 .. n - 2 /\ j \in 0 .. n - 2
    BY <1>7
  <2>3. Hierarchy(n, D, first, last, g, child)
    BY <1>6
  <2> QED BY <2>1, <2>2, <2>3, PartOfOneBlock
<1>11. \E under : Labels(under)
  BY <1>2, <1>6, HierarchyLabels
<1> QED BY <1>2, <1>8, <1>9, <1>10, <1>11 DEF IsTree

-----------------------------------------------------------------------------
(* Behaviours of ReductionsSpec. *)

MeshPart == kernel = "mesh" => MeshInv /\ n \in 1 .. MaxLeaves

LEMMA SplitsInit == ASSUME IsFiniteSet(Warps), Warps # {} PROVE ReductionsInit => SplitInv
BY SplitInitInv DEF ReductionsInit

LEMMA SplitsNext ==
  ASSUME IsFiniteSet(Warps), Warps # {}, SplitInv, [ReductionsNext]_reductions_vars PROVE SplitInv'
<1>1. [Next]_vars
  BY DEF ReductionsNext, reductions_vars
<1> QED BY <1>1, SplitNextInv

LEMMA MeshPartInit == ReductionsInit => MeshPart
<1> SUFFICES ASSUME ReductionsInit, kernel = "mesh" PROVE MeshInv /\ n \in 1 .. MaxLeaves
  BY DEF MeshPart
<1>1. Mesh!Init
  BY DEF ReductionsInit
<1> QED BY <1>1, TreeBuilt, MeshInitInv

LEMMA MeshPartNext == ASSUME MeshPart, [ReductionsNext]_reductions_vars PROVE MeshPart'
<1> SUFFICES ASSUME kernel' = "mesh" PROVE MeshInv' /\ n' \in 1 .. MaxLeaves
  BY DEF MeshPart
<1>1. kernel = "mesh"
  BY DEF ReductionsNext, reductions_vars
<1>2. [Mesh!Next]_mesh_vars
  BY <1>1 DEF ReductionsNext, reductions_vars
<1>3. MeshInv /\ n \in 1 .. MaxLeaves
  BY <1>1 DEF MeshPart
<1>4. n' = n
  BY <1>2 DEF mesh_vars, Mesh!Next, Mesh!Step, Mesh!StoreLeaf, Mesh!Fence, Mesh!Climb, Mesh!Unite, Mesh!Visible
<1> QED BY <1>2, <1>3, <1>4, MeshNextInv

\* Whatever the number of splits and however their additions, fences and arrivals
\* interleave, a finished launch wrote every split's sum once to every element and
\* left the scratch zero (w4a8_gemm.cu:255-262).
THEOREM EverySplitSummedOnce ==
  ASSUME IsFiniteSet(Warps), Warps # {} PROVE ReductionsSpec => []SumsWholeAndScratchClean
<1>1. ReductionsInit => SplitInv
  BY SplitsInit
<1>2. SplitInv /\ [ReductionsNext]_reductions_vars => SplitInv'
  BY SplitsNext
<1>3. SplitInv => SumsWholeAndScratchClean
  BY DEF SplitInv
<1> QED BY <1>1, <1>2, <1>3, PTL DEF ReductionsSpec

\* Whatever the number of triangles, their codes and the order in which the threads
\* arrive, the kernels build a binary tree over the leaves and end with the box of
\* every node made up of its children's, the root's of the mesh
\* (mesh_bvh.cu:21-23, 48-99).
THEOREM BoxesOfTree == ReductionsSpec => []BoxesEnclose
<1>1. ReductionsInit => MeshPart
  BY MeshPartInit
<1>2. MeshPart /\ [ReductionsNext]_reductions_vars => MeshPart'
  BY MeshPartNext
<1>3. MeshPart => BoxesEnclose
  BY MeshBoxes DEF MeshPart, BoxesEnclose
<1> QED BY <1>1, <1>2, <1>3, PTL DEF ReductionsSpec

-----------------------------------------------------------------------------
(* Sums of strides: the place of an element in memory. *)

\* The sums of RopeInPlace are those the lemmas on sums speak of.
LEMMA RopeTotals == \A m, f : Rope!Total(m, f) = Total(m, f)
BY DEF Rope!Total, Total

\* Facts about products of naturals, which the arithmetic solver takes one at a time.
LEMMA Products ==
  ASSUME NEW a \in Nat, NEW b \in Nat, NEW c \in Nat
  PROVE  /\ a * c \in Nat /\ (a + 1) * c = a * c + c
         /\ a <= b => a * c <= b * c
<1>1. a * c \in Nat /\ b * c \in Nat /\ (a + 1) * c = a * c + c
  OBVIOUS
<1>2. ASSUME a <= b PROVE a * c <= b * c
  <2>1. PICK x \in Nat : b = a + x
    <3>1. b - a \in Nat /\ b = a + (b - a)
      BY <1>2
    <3> QED BY <3>1
  <2>2. (a + x) * c = a * c + x * c /\ x * c \in Nat
    OBVIOUS
  <2> QED BY <1>1, <2>1, <2>2
<1> QED BY <1>1, <1>2

\* A sum with one more term.
LEMMA OneTermMore ==
  ASSUME NEW m \in Nat, NEW f, NEW g, NEW k \in 1 .. m, \A d \in 1 .. m : f[d] \in Int,
         f[k] = 0, g[k] \in Int, \A d \in 1 .. m : d # k => g[d] = f[d]
  PROVE  Total(m, g) = Total(m, f) + g[k]
<1>1. g[k] = f[k] + g[k]
  OBVIOUS
<1> QED BY <1>1, SumShifted

\* m dimensions with their sizes and strides, an index and where it is.
Dims(m, sh, st) == m \in Nat /\ sh \in [1 .. m -> Nat] /\ st \in [1 .. m -> Nat]
Index(m, sh, i) == i \in [1 .. m -> Nat] /\ \A d \in 1 .. m : i[d] < sh[d]
Terms(m, st, i) == [d \in 1 .. m |-> i[d] * st[d]]
Place(m, st, i) == Total(m, Terms(m, st, i))

\* Of two dimensions with several entries one steps over the other.
Nested(m, sh, st) ==
  /\ \A d \in 1 .. m : sh[d] > 1 => st[d] >= 1
  /\ \A d, o \in 1 .. m : sh[d] > 1 /\ sh[o] > 1 /\ d # o =>
       st[d] * sh[d] <= st[o] \/ st[o] * sh[o] <= st[d]

\* The most that dimensions of smaller strides than x add.
Below(m, sh, st, x) ==
  [d \in 1 .. m |-> IF sh[d] > 1 /\ st[d] < x THEN (sh[d] - 1) * st[d] ELSE 0]

\* The places of an index in memory are naturals.
LEMMA TermsNatural ==
  ASSUME NEW m, NEW sh, NEW st, Dims(m, sh, st)
  PROVE  /\ \A i : Index(m, sh, i) => \A d \in 1 .. m :
              Terms(m, st, i)[d] \in Nat /\ Terms(m, st, i)[d] <= (sh[d] - 1) * st[d]
         /\ \A x : \A d \in 1 .. m : Below(m, sh, st, x)[d] \in Nat
<1>1. ASSUME NEW i, Index(m, sh, i), NEW d \in 1 .. m
      PROVE  Terms(m, st, i)[d] \in Nat /\ Terms(m, st, i)[d] <= (sh[d] - 1) * st[d]
  <2>1. i[d] \in Nat /\ sh[d] - 1 \in Nat /\ i[d] <= sh[d] - 1 /\ st[d] \in Nat
    BY <1>1 DEF Dims, Index
  <2>2. i[d] * st[d] \in Nat /\ i[d] * st[d] <= (sh[d] - 1) * st[d]
    BY <2>1, Products
  <2> QED BY <2>2 DEF Terms
<1>2. ASSUME NEW x, NEW d \in 1 .. m PROVE Below(m, sh, st, x)[d] \in Nat
  <2>1. sh[d] \in Nat /\ st[d] \in Nat
    BY DEF Dims
  <2>2. sh[d] > 1 => sh[d] - 1 \in Nat
    BY <2>1
  <2>3. sh[d] > 1 => (sh[d] - 1) * st[d] \in Nat
    BY <2>1, <2>2, Products
  <2> QED BY <2>3 DEF Below
<1> QED BY <1>1, <1>2

\* Of two spans that do not overlap and hold two elements or more each, the one
\* that is not the longer is the shorter.
LEMMA ShorterSpan ==
  ASSUME NEW a \in Nat, NEW p \in Nat, NEW b \in Nat, NEW q \in Nat,
         1 <= a, 1 <= b, p > 1, q > 1, a <= b, a * p <= b \/ b * q <= a
  PROVE  a # b
<1>1. 2 * a <= p * a
  BY Products
<1>2. 2 * b <= q * b
  BY Products
<1>3. p * a = a * p /\ q * b = b * q /\ a * p \in Nat /\ b * q \in Nat
  OBVIOUS
<1>4. PICK u, v : u = a * p /\ v = b * q
  OBVIOUS
<1>5. u \in Nat /\ v \in Nat /\ 2 * a <= u /\ 2 * b <= v /\ (u <= b \/ v <= a)
  BY <1>1, <1>2, <1>3, <1>4
<1> QED BY ONLY <1>5, a \in Nat, b \in Nat, 1 <= a, 1 <= b, a <= b

\* What dimensions of smaller strides add stays below the stride.
LEMMA BelowFits ==
  ASSUME NEW m, NEW sh, NEW st, Dims(m, sh, st), Nested(m, sh, st),
         NEW o \in 1 .. m, sh[o] > 1
  PROVE  Total(m, Below(m, sh, st, st[o])) <= st[o] - 1
<1> DEFINE P(z) == \A x \in 1 .. m : sh[x] > 1 /\ st[x] <= z => Total(m, Below(m, sh, st, st[x])) <= st[x] - 1
           T == {z \in 0 .. st[o] : P(z)}
<1>1. m \in Nat /\ sh \in [1 .. m -> Nat] /\ st \in [1 .. m -> Nat] /\ st[o] \in Nat
  BY DEF Dims
<1>2. P(0)
  BY <1>1 DEF Nested
<1>3. ASSUME NEW z \in 0 .. st[o] - 1, P(z) PROVE P(z + 1)
  <2> SUFFICES ASSUME NEW x \in 1 .. m, sh[x] > 1, st[x] <= z + 1
               PROVE  Total(m, Below(m, sh, st, st[x])) <= st[x] - 1
    OBVIOUS
  <2> DEFINE S == {d \in 1 .. m : sh[d] > 1 /\ st[d] < st[x]}
             B == Below(m, sh, st, st[x])
  <2>1. st[x] \in Nat /\ st[x] >= 1 /\ \A d \in 1 .. m : B[d] \in Nat
    BY <1>1, TermsNatural DEF Nested
  <2>2. CASE S = {}
    <3>1. \A d \in 1 .. m : B[d] = 0
      BY <2>2 DEF Below
    <3>2. Total(m, B) = 0
      <4> HIDE DEF B
      <4> QED BY <1>1, <3>1, SumZero
    <3> QED BY <2>1, <3>2
  <2>3. CASE S # {}
    <3> DEFINE Spans == {st[d] : d \in S}
    <3>1. PICK s \in Spans : \A t \in Spans : t <= s
      <4>1. Spans \in SUBSET (0 .. st[x])
        <5>1. \A d \in S : st[d] \in 0 .. st[x]
          BY <1>1, <2>1
        <5> HIDE DEF S
        <5> QED BY <5>1
      <4>2. Spans # {}
        <5>1. PICK d \in S : TRUE
          BY <2>3
        <5>2. st[d] \in Spans
          BY <5>1
        <5> QED BY <5>2
      <4> HIDE DEF Spans
      <4> QED BY <2>1, <4>1, <4>2, GreatestNatural
    <3>2. PICK k \in S : s = st[k]
      OBVIOUS
    <3>0. \A d \in S : st[d] <= st[k]
      <4>1. \A d \in S : st[d] \in Spans
        OBVIOUS
      <4> HIDE DEF S, Spans
      <4> QED BY <3>1, <3>2, <4>1
    <3> DEFINE C == Below(m, sh, st, st[k])
    <3>3. k \in 1 .. m /\ sh[k] > 1 /\ st[k] < st[x] /\ k # x /\ \A d \in S : st[d] <= st[k]
      <4>1. k \in 1 .. m /\ sh[k] > 1 /\ st[k] < st[x]
        BY <3>2
      <4>2. k # x
        <5>1. ASSUME k = x PROVE FALSE
          <6>1. st[x] < st[x]
            BY <4>1, <5>1
          <6> HIDE DEF S, Spans
          <6> QED BY <2>1, <6>1
        <5> QED BY <5>1
      <4> HIDE DEF S, Spans, C
      <4> QED BY <3>0, <4>1, <4>2
    <3>4. st[k] \in Nat /\ sh[k] \in Nat /\ st[k] <= z /\ st[k] >= 1
      BY <1>1, <2>1, <3>3 DEF Nested
    <3>5. Total(m, C) <= st[k] - 1
      BY <1>3, <3>3, <3>4
    <3>6. st[k] * sh[k] <= st[x]
      <4>1. st[k] * sh[k] <= st[x] \/ st[x] * sh[x] <= st[k]
        BY <3>3 DEF Nested
      <4>2. sh[x] \in Nat /\ 1 <= sh[x]
        BY <1>1
      <4>3. 1 * st[x] <= sh[x] * st[x]
        BY <2>1, <4>2, Products
      <4>4. st[x] <= st[x] * sh[x]
        BY <2>1, <4>2, <4>3
      <4> QED BY <2>1, <3>3, <3>4, <4>1, <4>2, <4>4
    <3>7. ASSUME NEW d \in 1 .. m, d # k PROVE B[d] = C[d]
      <4>1. d \in S => st[d] < st[k]
        <5>1. ASSUME d \in S PROVE st[d] <= st[k] /\ st[d] # st[k]
          <6>1. st[d] <= st[k] /\ sh[d] > 1 /\ st[d] \in Nat /\ st[d] >= 1 /\ sh[d] \in Nat
            BY <1>1, <3>3, <5>1 DEF Nested
          <6>2. st[d] * sh[d] <= st[k] \/ st[k] * sh[k] <= st[d]
            BY <3>3, <3>7, <6>1 DEF Nested
          <6> HIDE DEF S, Spans, B, C
          <6> QED BY <3>3, <3>4, <6>1, <6>2, ShorterSpan
        <5>2. st[k] \in Nat /\ st[d] \in Int
          BY <1>1, <3>4
        <5> HIDE DEF S, Spans, B, C
        <5> QED BY <5>1, <5>2
      <4>2. st[d] < st[k] => st[d] < st[x]
        <5>1. st[d] \in Nat /\ st[k] \in Nat /\ st[x] \in Nat /\ st[k] < st[x]
          BY <1>1, <2>1, <3>3, <3>4
        <5> HIDE DEF S, Spans, B, C
        <5> QED BY ONLY <5>1
      <4> QED BY <4>1, <4>2 DEF Below
    <3>8. B[k] = (sh[k] - 1) * st[k] /\ C[k] = 0
      BY <3>3, <3>4 DEF Below
    <3>9. B[k] \in Nat /\ B[k] = C[k] + B[k]
      BY <2>1, <3>3, <3>8
    <3>10. Total(m, B) = Total(m, C) + B[k]
      <4>1. \A d \in 1 .. m : C[d] \in Int
        BY TermsNatural
      <4>2. \A d \in 1 .. m : d # k => B[d] = C[d]
        BY <3>7
      <4>3. k \in 1 .. m /\ B[k] \in Int
        BY <3>3, <3>9
      <4>4. C[k] = 0
        BY <3>8
      <4>5. PICK f, g : f = C /\ g = B
        OBVIOUS
      <4>6. (\A d \in 1 .. m : f[d] \in Int) /\ f[k] = 0 /\ g[k] \in Int
        BY <4>1, <4>3, <4>4, <4>5
      <4>7. \A d \in 1 .. m : d # k => g[d] = f[d]
        BY <4>2, <4>5
      <4>8. m \in Nat /\ k \in 1 .. m
        BY <1>1, <4>3
      <4> HIDE DEF B, C, S, Spans
      <4>9. Total(m, g) = Total(m, f) + g[k]
        BY ONLY <4>6, <4>7, <4>8, OneTermMore
      <4> QED BY <4>5, <4>9
    <3>11. (sh[k] - 1) * st[k] + st[k] = st[k] * sh[k]
      <4>1. sh[k] - 1 \in Nat /\ (sh[k] - 1) + 1 = sh[k]
        BY <3>3, <3>4
      <4>2. ((sh[k] - 1) + 1) * st[k] = (sh[k] - 1) * st[k] + st[k]
        BY <3>4, <4>1, Products
      <4> QED BY <3>4, <4>1, <4>2
    <3>12. Total(m, C) \in Int
      <4>1. \A d \in 1 .. m : C[d] \in Nat
        BY TermsNatural
      <4> HIDE DEF C
      <4> QED BY <1>1, <4>1, SumNatural
    <3>13. PICK y, w : y = (sh[k] - 1) * st[k] /\ w = st[k] * sh[k]
      OBVIOUS
    <3>14. y \in Nat /\ y + st[k] = w /\ Total(m, B) = Total(m, C) + y /\ w <= st[x]
      BY <3>6, <3>8, <3>9, <3>10, <3>11, <3>13
    <3>15. PICK b, c : b = Total(m, B) /\ c = Total(m, C)
      OBVIOUS
    <3>16. b <= st[x] - 1
      BY <2>1, <3>4, <3>5, <3>12, <3>14, <3>15
    <3> QED BY <3>15, <3>16
  <2> QED BY <2>2, <2>3
<1>4. 0 .. st[o] \subseteq T
  <2> HIDE DEF P
  <2>1. 0 \in T
    BY <1>1, <1>2
  <2>2. ASSUME NEW z \in 0 .. st[o] - 1, z \in T PROVE z + 1 \in T
    <3>1. P(z) /\ z + 1 \in 0 .. st[o]
      BY <1>1, <2>2
    <3>2. P(z + 1)
      BY <1>3, <3>1
    <3> QED BY <3>1, <3>2
  <2> HIDE DEF T
  <2> QED BY <1>1, <2>1, <2>2, SetInduction
<1>5. P(st[o])
  <2> HIDE DEF P
  <2> QED BY <1>1, <1>4
<1> QED BY <1>1, <1>5

\* A family is the difference of two others.
Differs(m, f, g, w) == \A s \in 1 .. m : f[s] \in Int /\ g[s] \in Int /\ w[s] = f[s] - g[s]

\* The sum of a difference, of a named hypothesis.
LEMMA DifferenceTotal ==
  ASSUME NEW m, NEW f, NEW g, NEW w, m \in Nat /\ Differs(m, f, g, w)
  PROVE  Total(m, w) = Total(m, f) - Total(m, g)
<1>1. m \in Nat /\ \A s \in 1 .. m : f[s] \in Int /\ g[s] \in Int /\ w[s] = f[s] - g[s]
  BY DEF Differs
<1> QED BY ONLY <1>1, TotalDifference

\* Of two indices the one with more in the widest dimension in which they differ comes later.
LEMMA WidestDecides ==
  ASSUME NEW m, NEW sh, NEW st, Dims(m, sh, st), Nested(m, sh, st),
         NEW i, Index(m, sh, i), NEW k, Index(m, sh, k), NEW o \in 1 .. m, i[o] > k[o],
         \A d \in 1 .. m : i[d] # k[d] => st[d] <= st[o]
  PROVE  Place(m, st, i) > Place(m, st, k)
<1> DEFINE f == Terms(m, st, i)
           g == Terms(m, st, k)
           b == Below(m, sh, st, st[o])
           u == [d \in 1 .. m |-> f[d] - g[d]]
           w == [d \in 1 .. m |-> IF d = o THEN 0 ELSE f[d] - g[d]]
           z == [d \in 1 .. m |-> 0]
           v == [d \in 1 .. m |-> z[d] - b[d]]
<1>1. m \in Nat /\ sh \in [1 .. m -> Nat] /\ st \in [1 .. m -> Nat]
  BY DEF Dims
<1>2. i \in [1 .. m -> Nat] /\ k \in [1 .. m -> Nat] /\ i[o] < sh[o]
  BY DEF Index
<1>3. \A d \in 1 .. m : /\ f[d] \in Nat /\ f[d] <= (sh[d] - 1) * st[d]
                        /\ g[d] \in Nat /\ g[d] <= (sh[d] - 1) * st[d]
                        /\ b[d] \in Nat
  BY TermsNatural
<1>4. sh[o] > 1 /\ st[o] \in Nat /\ st[o] >= 1
  <2>1. sh[o] > 1 /\ st[o] \in Nat
    BY <1>1, <1>2
  <2> QED BY <2>1 DEF Nested
<1>5. Total(m, b) <= st[o] - 1 /\ Total(m, b) \in Int
  <2>1. Total(m, b) <= st[o] - 1
    BY <1>4, BelowFits
  <2>2. Total(m, b) \in Nat
    <3> HIDE DEF b
    <3> QED BY <1>1, <1>3, SumNatural
  <2> QED BY <2>1, <2>2
<1>6. ASSUME NEW d \in 1 .. m, d # o PROVE 0 - b[d] <= f[d] - g[d]
  <2>1. CASE i[d] = k[d]
    <3>1. f[d] = g[d]
      BY <2>1 DEF Terms
    <3> QED BY <1>3, <3>1
  <2>2. CASE i[d] # k[d]
    <3>1. sh[d] > 1 /\ sh[d] \in Nat /\ st[d] \in Nat /\ st[d] >= 1 /\ st[d] <= st[o]
      <4>1. i[d] < sh[d] /\ k[d] < sh[d]
        BY DEF Index
      <4>2. sh[d] > 1 /\ sh[d] \in Nat /\ st[d] \in Nat
        BY <1>1, <1>2, <2>2, <4>1
      <4> QED BY <2>2, <4>2 DEF Nested
    <3>2. st[d] # st[o]
      <4>1. st[d] * sh[d] <= st[o] \/ st[o] * sh[o] <= st[d]
        BY <1>4, <1>6, <3>1 DEF Nested
      <4>2. 2 * st[d] <= sh[d] * st[d]
        BY <3>1, Products
      <4>3. 2 * st[o] <= sh[o] * st[o]
        <5>1. sh[o] \in Nat /\ 2 <= sh[o]
          BY <1>1, <1>4
        <5> QED BY <1>4, <5>1, Products
      <4> QED BY <1>1, <1>4, <3>1, <4>1, <4>2, <4>3
    <3>3. b[d] = (sh[d] - 1) * st[d]
      BY <1>4, <3>1, <3>2 DEF Below
    <3>4. PICK y : y = (sh[d] - 1) * st[d]
      OBVIOUS
    <3>5. f[d] \in Nat /\ g[d] \in Nat /\ g[d] <= b[d] /\ b[d] \in Nat
      BY <1>3, <3>3
    <3> HIDE DEF f, g, b
    <3> QED BY <3>5
  <2> QED BY <2>1, <2>2
<1>7. f[o] - g[o] >= st[o] /\ f[o] - g[o] \in Int
  <2>1. (k[o] + 1) * st[o] = k[o] * st[o] + st[o] /\ (k[o] + 1) * st[o] <= i[o] * st[o]
        /\ k[o] * st[o] \in Nat /\ i[o] * st[o] \in Nat
    <3>1. k[o] + 1 \in Nat /\ k[o] \in Nat /\ i[o] \in Nat /\ k[o] + 1 <= i[o]
      BY <1>2
    <3> QED BY <1>4, <3>1, Products
  <2>2. f[o] = i[o] * st[o] /\ g[o] = k[o] * st[o]
    BY DEF Terms
  <2>3. PICK x, y : x = i[o] * st[o] /\ y = k[o] * st[o]
    OBVIOUS
  <2>4. x \in Nat /\ y \in Nat /\ y + st[o] <= x /\ f[o] = x /\ g[o] = y
    BY <2>1, <2>2, <2>3
  <2> HIDE DEF f, g
  <2> QED BY <1>4, <2>4
<1>8. Total(m, u) = Total(m, w) + (f[o] - g[o])
  <2>1. m \in Nat /\ o \in 1 .. m
    BY <1>1
  <2>2. \A d \in 1 .. m : w[d] \in Int
    BY <1>3
  <2>3. w[o] = 0 /\ u[o] \in Int /\ u[o] = f[o] - g[o]
    BY <1>7
  <2>4. \A d \in 1 .. m : d # o => u[d] = w[d]
    OBVIOUS
  <2> HIDE DEF u, w, f, g
  <2>5. Total(m, u) = Total(m, w) + u[o]
    BY ONLY <2>1, <2>2, <2>3, <2>4, OneTermMore
  <2> QED BY <2>3, <2>5
<1>9. Total(m, u) = Total(m, f) - Total(m, g) /\ Total(m, f) \in Int /\ Total(m, g) \in Int
  <2>1. \A d \in 1 .. m : f[d] \in Nat /\ g[d] \in Nat /\ u[d] = f[d] - g[d]
    BY <1>3
  <2> HIDE DEF f, g, u
  <2>2. m \in Nat /\ Differs(m, f, g, u)
    BY <1>1, <2>1 DEF Differs
  <2>3. Total(m, u) = Total(m, f) - Total(m, g)
    BY ONLY <2>2, DifferenceTotal
  <2>4. Total(m, f) \in Nat /\ Total(m, g) \in Nat
    BY <1>1, <2>1, SumNatural
  <2> QED BY <2>3, <2>4
<1>10. Total(m, v) = 0 - Total(m, b)
  <2>1. \A d \in 1 .. m : z[d] \in Int /\ b[d] \in Int /\ v[d] = z[d] - b[d] /\ z[d] = 0
    BY <1>3
  <2> HIDE DEF b, z, v
  <2>2. m \in Nat /\ Differs(m, z, b, v)
    BY <1>1, <2>1 DEF Differs
  <2>3. Total(m, v) = Total(m, z) - Total(m, b)
    BY ONLY <2>2, DifferenceTotal
  <2>4. Total(m, z) = 0
    BY <1>1, <2>1, SumZero
  <2> QED BY <2>3, <2>4
<1>11. Total(m, v) <= Total(m, w) /\ Total(m, w) \in Int
  <2>1. \A d \in 1 .. m : v[d] \in Int /\ w[d] \in Int /\ v[d] <= w[d]
    <3> TAKE d \in 1 .. m
    <3>1. v[d] = 0 - b[d] /\ b[d] \in Nat /\ f[d] \in Nat /\ g[d] \in Nat
      BY <1>3
    <3>2. w[d] = IF d = o THEN 0 ELSE f[d] - g[d]
      OBVIOUS
    <3>3. d # o => 0 - b[d] <= f[d] - g[d]
      BY <1>6
    <3> HIDE DEF v, w, f, g, b
    <3> QED BY <3>1, <3>2, <3>3
  <2> HIDE DEF v, w
  <2> QED BY <1>1, <2>1, TotalMonotone
<1>12. Place(m, st, i) = Total(m, f) /\ Place(m, st, k) = Total(m, g)
  BY DEF Place
<1>13. PICK a, c, q, y : a = Total(m, f) /\ c = Total(m, g) /\ q = Total(m, b) /\ y = Total(m, w)
  OBVIOUS
<1>14. PICK t : t = f[o] - g[o]
  OBVIOUS
<1>15. a \in Int /\ c \in Int /\ q \in Int /\ y \in Int /\ t \in Int /\ q <= st[o] - 1 /\ t >= st[o]
       /\ a - c = y + t /\ 0 - q <= y
  BY <1>5, <1>7, <1>8, <1>9, <1>10, <1>11, <1>13, <1>14
<1>16. a > c
  BY <1>4, <1>15
<1> QED BY <1>12, <1>13, <1>16

\* Dimensions that do not interfere place indices apart.
LEMMA PlacesDiffer ==
  ASSUME NEW m, NEW sh, NEW st, Dims(m, sh, st), Nested(m, sh, st),
         NEW i, Index(m, sh, i), NEW k, Index(m, sh, k), Place(m, st, i) = Place(m, st, k)
  PROVE  i = k
<1> SUFFICES ASSUME i # k PROVE FALSE
  OBVIOUS
<1>1. m \in Nat /\ st \in [1 .. m -> Nat] /\ i \in [1 .. m -> Nat] /\ k \in [1 .. m -> Nat]
  BY DEF Dims, Index
<1> DEFINE S == {d \in 1 .. m : i[d] # k[d]}
           Spans == {st[d] : d \in S}
<1>2. PICK c \in S : TRUE
  BY <1>1
<1>3. PICK o \in S : \A d \in S : st[d] <= st[o]
  <2> DEFINE U == {y \in Nat : \E d \in S : y = st[d]}
  <2>1. \A d \in S : st[d] \in U
    BY <1>1
  <2>2. PICK w \in Nat : \A d \in S : st[d] <= w
    <3>1. \A d \in 1 .. m : st[d] \in Nat
      BY <1>1
    <3>2. Total(m, st) \in Nat /\ \A d \in 1 .. m : st[d] <= Total(m, st)
      BY <1>1, <3>1, SumNatural
    <3> QED BY <3>2
  <2>3. U \in SUBSET (0 .. w)
    BY <2>2
  <2>4. U # {}
    BY <1>2, <2>1
  <2>5. PICK x \in U : \A y \in U : y <= x
    <3> HIDE DEF U
    <3> QED BY <2>3, <2>4, GreatestNatural
  <2>6. PICK o \in S : x = st[o]
    OBVIOUS
  <2> HIDE DEF S, U
  <2> QED BY <2>1, <2>5, <2>6
<1>4. o \in 1 .. m /\ i[o] # k[o] /\ i[o] \in Nat /\ k[o] \in Nat
  BY <1>1
<1>5. \A d \in 1 .. m : i[d] # k[d] => st[d] <= st[o]
  BY <1>3
<1>6. Place(m, st, i) \in Int /\ Place(m, st, k) \in Int
  <2>1. \A d \in 1 .. m : Terms(m, st, i)[d] \in Nat /\ Terms(m, st, k)[d] \in Nat
    BY TermsNatural
  <2> QED BY <1>1, <2>1, SumNatural DEF Place
<1>7. CASE i[o] > k[o]
  <2>1. Place(m, st, i) > Place(m, st, k)
    BY <1>4, <1>5, <1>7, WidestDecides
  <2> QED BY <1>6, <2>1
<1>8. CASE k[o] > i[o]
  <2>1. Place(m, st, k) > Place(m, st, i)
    BY <1>4, <1>5, <1>8, WidestDecides
  <2> QED BY <1>6, <2>1
<1> QED BY <1>4, <1>7, <1>8

Strided(v) == v.offset \in Nat /\ DOMAIN v.sh = 1 .. Len(v.sh) /\ Dims(Len(v.sh), v.sh, v.st)

\* A tensor of a call has a stride for each dimension.
LEMMA ViewStrided ==
  ASSUME NEW v, RopeView(v)
  PROVE  Strided(v)
<1>1. MaxExtent \in Nat
  BY RopeAssumption
<1>2. v.offset \in Nat /\ v.sh \in Seq(0 .. MaxExtent) /\ v.st \in Seq(Nat) /\ Len(v.st) = Len(v.sh)
  BY DEF RopeView
<1>3. PICK sh, st : sh = v.sh /\ st = v.st
  OBVIOUS
<1>4. Len(sh) \in Nat /\ DOMAIN sh = 1 .. Len(sh) /\ sh \in [1 .. Len(sh) -> 0 .. MaxExtent]
  BY <1>2, <1>3, LenProperties
<1>5. st \in [1 .. Len(sh) -> Nat]
  BY <1>2, <1>3, LenProperties
<1>6. sh \in [1 .. Len(sh) -> Nat]
  BY <1>1, <1>4
<1> QED BY <1>2, <1>3, <1>4, <1>5, <1>6 DEF Strided, Dims

\* An index has a place below the size of each dimension.
LEMMA IndexOf ==
  ASSUME NEW sh, DOMAIN sh = 1 .. Len(sh), NEW i \in Rope!Indices(sh)
  PROVE  Index(Len(sh), sh, i)
<1>1. MaxExtent \in Nat
  BY RopeAssumption
<1>2. i \in [1 .. Len(sh) -> 0 .. MaxExtent - 1] /\ \A d \in DOMAIN sh : i[d] < sh[d]
  BY DEF Rope!Indices
<1>3. i \in [1 .. Len(sh) -> Nat]
  BY <1>1, <1>2
<1> QED BY <1>2, <1>3 DEF Index

\* An element's offset is its view's offset and its place.
LEMMA OffsetOf ==
  ASSUME NEW v, Strided(v), NEW i, Index(Len(v.sh), v.sh, i)
  PROVE  /\ Rope!Offset(v, i) = v.offset + Place(Len(v.sh), v.st, i)
         /\ Place(Len(v.sh), v.st, i) \in Nat
<1>1. DOMAIN v.sh = 1 .. Len(v.sh) /\ Dims(Len(v.sh), v.sh, v.st)
  BY DEF Strided
<1>2. Rope!Offset(v, i) = v.offset + Total(Len(v.sh), [d \in DOMAIN v.sh |-> i[d] * v.st[d]])
  BY RopeTotals DEF Rope!Offset
<1>3. [d \in DOMAIN v.sh |-> i[d] * v.st[d]] = Terms(Len(v.sh), v.st, i)
  BY <1>1 DEF Terms
<1>4. Place(Len(v.sh), v.st, i) \in Nat
  <2>1. \A d \in 1 .. Len(v.sh) : Terms(Len(v.sh), v.st, i)[d] \in Nat
    BY <1>1, TermsNatural
  <2>2. Len(v.sh) \in Nat
    BY <1>1 DEF Dims
  <2> QED BY <2>1, <2>2, SumNatural DEF Place
<1> QED BY <1>2, <1>3, <1>4 DEF Place

\* A view whose dimensions do not interfere has a cell for each index.
LEMMA CellsOfView ==
  ASSUME NEW v, Strided(v), Nested(Len(v.sh), v.sh, v.st),
         NEW i \in Rope!Indices(v.sh), NEW k \in Rope!Indices(v.sh), Rope!Cell(v, i) = Rope!Cell(v, k)
  PROVE  i = k
<1>1. Dims(Len(v.sh), v.sh, v.st) /\ v.offset \in Nat /\ DOMAIN v.sh = 1 .. Len(v.sh)
  BY DEF Strided
<1>2. Index(Len(v.sh), v.sh, i) /\ Index(Len(v.sh), v.sh, k)
  BY <1>1, IndexOf
<1>3. Rope!Offset(v, i) = Rope!Offset(v, k)
  BY DEF Rope!Cell
<1>4. PICK a, b : a = Place(Len(v.sh), v.st, i) /\ b = Place(Len(v.sh), v.st, k)
  OBVIOUS
<1>5. a \in Nat /\ b \in Nat /\ v.offset + a = v.offset + b
  BY <1>2, <1>3, <1>4, OffsetOf
<1>6. a = b
  BY <1>1, <1>5
<1> QED BY <1>1, <1>2, <1>4, <1>6, PlacesDiffer

\* A view the test of one operand accepts has strides that nest.
LEMMA NoOverlapNested ==
  ASSUME NEW v, Strided(v), ~Rope!InternalOverlap(v)
  PROVE  Nested(Len(v.sh), v.sh, v.st)
<1>1. DOMAIN v.sh = 1 .. Len(v.sh) /\ Dims(Len(v.sh), v.sh, v.st)
  BY DEF Strided
<1>2. \A d \in 1 .. Len(v.sh) : v.sh[d] \in Nat /\ v.st[d] \in Nat /\ v.st[d] * v.sh[d] \in Nat
  <2> TAKE d \in 1 .. Len(v.sh)
  <2>1. v.sh[d] \in Nat /\ v.st[d] \in Nat
    BY <1>1 DEF Dims
  <2> QED BY <2>1, Products
<1>3. \A d \in 1 .. Len(v.sh) : v.sh[d] > 1 => ~(v.st[d] < 1)
  BY <1>1 DEF Rope!InternalOverlap
<1>4. \A d, o \in 1 .. Len(v.sh) : v.sh[d] > 1 /\ v.sh[o] > 1 /\ d # o =>
        ~(v.st[d] * v.sh[d] > v.st[o] /\ v.st[o] * v.sh[o] > v.st[d])
  BY <1>1 DEF Rope!InternalOverlap
<1>5. ASSUME NEW d \in 1 .. Len(v.sh), NEW o \in 1 .. Len(v.sh), v.sh[d] > 1, v.sh[o] > 1, d # o
      PROVE  v.st[d] * v.sh[d] <= v.st[o] \/ v.st[o] * v.sh[o] <= v.st[d]
  <2>1. PICK x, y : x = v.st[d] * v.sh[d] /\ y = v.st[o] * v.sh[o]
    OBVIOUS
  <2>2. x \in Nat /\ y \in Nat /\ v.st[o] \in Nat /\ v.st[d] \in Nat /\ ~(x > v.st[o] /\ y > v.st[d])
    BY <1>2, <1>4, <1>5, <2>1
  <2>3. x <= v.st[o] \/ y <= v.st[d]
    BY <2>2
  <2> QED BY <2>1, <2>3
<1>6. \A d \in 1 .. Len(v.sh) : v.sh[d] > 1 => v.st[d] >= 1
  BY <1>2, <1>3
<1> QED BY <1>5, <1>6 DEF Nested

\* The sizes of the last dimensions multiply.
Blocks(b, m, sh) == b \in [0 .. m -> Nat] /\ b[0] = 1 /\ \A j \in 1 .. m : b[j] = b[j - 1] * sh[m - j + 1]

\* The recursion that computes the size of the last dimensions has a value.
LEMMA BlocksExist ==
  ASSUME NEW sh, Len(sh) \in Nat, sh \in [1 .. Len(sh) -> Nat]
  PROVE  \E b : Blocks(b, Len(sh), sh) /\ \A j \in 0 .. Len(sh) : Rope!Block(sh, j) = b[j]
<1>0. PICK m : m = Len(sh)
  OBVIOUS
<1>00. m \in Nat /\ \A j \in 1 .. m : m - j + 1 \in 1 .. m /\ sh[m - j + 1] \in Nat
  BY <1>0
<1> DEFINE G == [s \in 1 .. m |-> [x \in Nat |-> x * sh[m - s + 1]]]
           Eq(p) == p = [s \in 0 .. m |-> IF s = 0 THEN 1 ELSE p[s - 1] * sh[m - s + 1]]
           a == CHOOSE p : Eq(p)
<1>1. G \in StepFcns(m, Nat)
  <2>1. \A s \in 1 .. m : \A x \in Nat : x * sh[m - s + 1] \in Nat
    BY <1>00, Products
  <2> QED BY <2>1 DEF StepFcns
<1>2. PICK p : IsIteration(p, m, Nat, 1, G)
  <2> HIDE DEF G
  <2> QED BY <1>1, <1>00, IterationExists
<1>3. p \in [0 .. m -> Nat] /\ p[0] = 1 /\ \A s \in 1 .. m : p[s] = G[s][p[s - 1]]
  BY <1>2 DEF IsIteration
<1>4. \A s \in 1 .. m : p[s] = p[s - 1] * sh[m - s + 1]
  <2> TAKE s \in 1 .. m
  <2>1. s - 1 \in 0 .. m
    BY <1>00
  <2>2. p[s - 1] \in Nat
    BY <1>3, <2>1
  <2>3. G[s][p[s - 1]] = p[s - 1] * sh[m - s + 1]
    BY <2>2
  <2> HIDE DEF G
  <2> QED BY <1>3, <2>3
<1>5. Eq(p)
  <2>1. p = [s \in 0 .. m |-> p[s]]
    BY <1>3
  <2>2. \A s \in 0 .. m : p[s] = IF s = 0 THEN 1 ELSE p[s - 1] * sh[m - s + 1]
    BY <1>00, <1>3, <1>4
  <2> QED BY <2>1, <2>2
<1>6. Eq(a)
  <2> HIDE DEF Eq
  <2> QED BY <1>5
<1>7. \A j \in 0 .. m : Rope!Block(sh, j) = a[j]
  BY <1>0 DEF Rope!Block
<1> HIDE DEF a
<1>8. DOMAIN a = 0 .. m /\ a[0] = 1 /\ \A s \in 1 .. m : a[s] = a[s - 1] * sh[m - s + 1]
  BY <1>00, <1>6
<1>9. 0 .. m \subseteq {s \in 0 .. m : a[s] \in Nat}
  <2> DEFINE T == {s \in 0 .. m : a[s] \in Nat}
  <2>1. 0 \in T
    BY <1>00, <1>8
  <2>2. ASSUME NEW s \in 0 .. m - 1, s \in T PROVE s + 1 \in T
    <3>1. s + 1 \in 1 .. m /\ s + 1 \in 0 .. m /\ (s + 1) - 1 = s /\ a[s] \in Nat
      BY <1>00, <2>2
    <3>2. a[s + 1] = a[s] * sh[m - (s + 1) + 1] /\ sh[m - (s + 1) + 1] \in Nat
      BY <1>00, <1>8, <3>1
    <3>3. a[s] * sh[m - (s + 1) + 1] \in Nat
      BY <3>1, <3>2, Products
    <3> QED BY <3>1, <3>2, <3>3
  <2> HIDE DEF T
  <2>3. 0 .. m \subseteq T
    BY <1>00, <2>1, <2>2, SetInduction
  <2> QED BY <2>3 DEF T
<1>10. a \in [0 .. m -> Nat]
  <2>1. a = [s \in 0 .. m |-> a[s]]
    BY <1>6
  <2> QED BY <1>9, <2>1
<1> QED BY <1>0, <1>7, <1>8, <1>10 DEF Blocks

-----------------------------------------------------------------------------
(* The memory a view spans, and its blocks. *)

\* Multiples of a period add up to one.
LEMMA MultiplesTotal ==
  ASSUME NEW m \in Nat, NEW P \in Nat, NEW f, \A s \in 1 .. m : \E q \in Nat : f[s] = q * P
  PROVE  \E q \in Nat : Total(m, f) = q * P
<1>1. \A s \in 1 .. m : f[s] \in Int
  <2> TAKE s \in 1 .. m
  <2>1. PICK q \in Nat : f[s] = q * P
    OBVIOUS
  <2>2. q * P \in Nat
    BY Products
  <2> QED BY <2>1, <2>2
<1>2. PICK p : Partials(p, m, f) /\ Total(m, f) = p[m]
  BY <1>1, SumPartials
<1> DEFINE T == {s \in 0 .. m : \E q \in Nat : p[s] = q * P}
<1>3. 0 \in T
  <2>1. p[0] = 0 * P
    BY <1>2 DEF Partials
  <2> QED BY <2>1
<1>4. ASSUME NEW s \in 0 .. m - 1, s \in T PROVE s + 1 \in T
  <2>1. s + 1 \in 1 .. m /\ s + 1 \in 0 .. m /\ (s + 1) - 1 = s
    OBVIOUS
  <2>2. PICK q \in Nat : p[s] = q * P
    BY <1>4
  <2>3. PICK u \in Nat : f[s + 1] = u * P
    BY <2>1
  <2>4. p[s + 1] = p[s] + f[s + 1]
    BY <1>2, <2>1 DEF Partials
  <2>5. (q + u) * P = q * P + u * P /\ q + u \in Nat
    OBVIOUS
  <2>6. p[s + 1] = (q + u) * P
    BY <2>2, <2>3, <2>4, <2>5
  <2> QED BY <2>1, <2>5, <2>6
<1>5. m \in T
  <2> HIDE DEF T
  <2>1. 0 .. m \subseteq T
    BY <1>3, <1>4, SetInduction
  <2> QED BY <2>1
<1> QED BY <1>2, <1>5

\* The strides of the last p dimensions are those of a block.
Trailing(p, m, st, b) == \A j \in 0 .. p - 1 : st[m - j] = b[j]

\* The terms of the last p dimensions.
LastTerms(m, st, i, p) == [d \in 1 .. m |-> IF d > m - p THEN Terms(m, st, i)[d] ELSE 0]

\* What the last dimensions add, when they fill a block without holes.
LEMMA BlockHolds ==
  ASSUME NEW m, NEW sh, NEW st, Dims(m, sh, st), NEW b, Blocks(b, m, sh), NEW i, Index(m, sh, i),
         NEW p \in 0 .. m, Trailing(p, m, st, b)
  PROVE  Total(m, LastTerms(m, st, i, p)) \in 0 .. b[p] - 1
<1> DEFINE w(j) == [d \in 1 .. m |-> IF d > m - j THEN Terms(m, st, i)[d] ELSE 0]
           T == {j \in 0 .. p : Total(m, w(j)) \in 0 .. b[j] - 1}
<1>1. m \in Nat /\ sh \in [1 .. m -> Nat] /\ st \in [1 .. m -> Nat] /\ i \in [1 .. m -> Nat]
      /\ b \in [0 .. m -> Nat] /\ b[0] = 1 /\ \A j \in 1 .. m : b[j] = b[j - 1] * sh[m - j + 1]
  BY DEF Dims, Index, Blocks
<1>2. \A d \in 1 .. m : Terms(m, st, i)[d] \in Nat /\ Terms(m, st, i)[d] <= (sh[d] - 1) * st[d]
  BY TermsNatural
<1>3. 0 \in T
  <2>1. \A d \in 1 .. m : w(0)[d] = 0
    BY <1>1
  <2>2. Total(m, w(0)) = 0
    <3> HIDE DEF w
    <3> QED BY <1>1, <2>1, SumZero
  <2> QED BY <1>1, <2>2
<1>4. ASSUME NEW j \in 0 .. p - 1, j \in T PROVE j + 1 \in T
  <2> DEFINE k == m - j
  <2>1. k \in 1 .. m /\ j + 1 \in 1 .. m /\ (j + 1) - 1 = j /\ m - (j + 1) + 1 = k /\ j \in 0 .. m
        /\ j + 1 \in 0 .. p
    BY <1>1
  <2>2. \A d \in 1 .. m : w(j)[d] \in Int /\ w(j + 1)[d] \in Nat
    BY <1>2
  <2>3. w(j)[k] = 0 /\ w(j + 1)[k] = Terms(m, st, i)[k]
    BY <1>1, <2>1
  <2>4. \A d \in 1 .. m : d # k => w(j + 1)[d] = w(j)[d]
    <3> SUFFICES ASSUME NEW d \in 1 .. m, d # k PROVE w(j + 1)[d] = w(j)[d]
      OBVIOUS
    <3>1. m \in Int /\ j \in Int /\ d \in Int /\ d # m - j
      BY <1>1, <2>1
    <3>2. d > m - (j + 1) <=> d > m - j
      BY ONLY <3>1
    <3> QED BY <3>2
  <2>5. PICK f, g : f = w(j) /\ g = w(j + 1)
    OBVIOUS
  <2>6. (\A d \in 1 .. m : f[d] \in Int) /\ f[k] = 0 /\ g[k] \in Int
        /\ \A d \in 1 .. m : d # k => g[d] = f[d]
    BY <2>1, <2>2, <2>3, <2>4, <2>5
  <2>7. Total(m, g) = Total(m, f) + g[k]
    <3>1. m \in Nat /\ k \in 1 .. m
      BY <1>1, <2>1
    <3>2. (\A d \in 1 .. m : f[d] \in Int) /\ f[k] = 0 /\ g[k] \in Int
      BY <2>6
    <3>3. \A d \in 1 .. m : d # k => g[d] = f[d]
      BY <2>6
    <3> HIDE DEF w, k
    <3> QED BY ONLY <3>1, <3>2, <3>3, OneTermMore
  <2>8. Total(m, f) \in 0 .. b[j] - 1
    BY <1>4, <2>5
  <2>9. g[k] \in Nat /\ g[k] <= (sh[k] - 1) * b[j]
    <3>1. st[k] = b[j]
      BY DEF Trailing
    <3> QED BY <1>2, <2>1, <2>3, <2>5, <3>1
  <2>10. sh[k] >= 1 /\ sh[k] \in Nat /\ b[j] \in Nat /\ b[j + 1] = b[j] * sh[k]
    <3>1. i[k] < sh[k]
      BY <2>1 DEF Index
    <3>2. sh[k] \in Nat /\ i[k] \in Nat
      BY <1>1, <2>1
    <3>3. b[j + 1] = b[(j + 1) - 1] * sh[m - (j + 1) + 1]
      BY <1>1, <2>1
    <3> QED BY <1>1, <2>1, <3>1, <3>2, <3>3
  <2>11. b[j] * sh[k] = (sh[k] - 1) * b[j] + b[j]
    <3>1. sh[k] - 1 \in Nat /\ (sh[k] - 1) + 1 = sh[k]
      BY <2>10
    <3>2. ((sh[k] - 1) + 1) * b[j] = (sh[k] - 1) * b[j] + b[j]
      BY <2>10, <3>1, Products
    <3> QED BY <2>10, <3>1, <3>2
  <2>12. PICK y : y = (sh[k] - 1) * b[j]
    OBVIOUS
  <2>13. PICK z : z = b[j] * sh[k]
    OBVIOUS
  <2>14. z = y + b[j] /\ g[k] <= y /\ b[j + 1] = z
    BY <2>9, <2>10, <2>11, <2>12, <2>13
  <2>15. PICK s, t : s = Total(m, f) /\ t = Total(m, g)
    OBVIOUS
  <2>16. s \in 0 .. b[j] - 1 /\ t = s + g[k]
    BY <2>7, <2>8, <2>15
  <2>16a. y \in Int
    <3> HIDE DEF k
    <3>1. sh[k] - 1 \in Nat
      BY <2>10
    <3> QED BY <2>10, <2>12, <3>1, Products
  <2>17. t \in 0 .. b[j + 1] - 1
    BY ONLY <2>9, <2>10, <2>14, <2>16, <2>16a
  <2>18. Total(m, w(j + 1)) \in 0 .. b[j + 1] - 1
    BY <2>5, <2>15, <2>17
  <2> QED BY <2>1, <2>18
<1>5. p \in T
  <2> HIDE DEF T
  <2>1. p \in Nat
    BY <1>1
  <2>2. 0 .. p \subseteq T
    BY <2>1, <1>3, <1>4, SetInduction
  <2> QED BY <2>1, <2>2
<1> QED BY <1>5 DEF LastTerms

\* The greatest and the least of a set, with the operators the tests use.
LEMMA RopeGreatest ==
  ASSUME NEW w \in Nat, NEW S \in SUBSET (0 .. w), S # {}
  PROVE  Rope!Max(S) \in S /\ \A x \in S : x <= Rope!Max(S)
<1>1. \E x \in S : \A y \in S : x >= y
  <2>1. PICK x \in S : \A y \in S : y <= x
    BY GreatestNatural
  <2>2. \A y \in S : x >= y
    BY <2>1
  <2> QED BY <2>2
<1>2. Rope!Max(S) \in S /\ \A y \in S : Rope!Max(S) >= y
  BY <1>1 DEF Rope!Max
<1> QED BY <1>2

\* Min is the least element.
LEMMA RopeLeast ==
  ASSUME NEW T \in SUBSET Nat, T # {}
  PROVE  Rope!Min(T) \in T /\ \A y \in T : Rope!Min(T) <= y
<1>1. \E x \in T : \A y \in T : x <= y
  BY LeastNatural
<1> QED BY <1>1 DEF Rope!Min

\* The packed dimensions have the strides of a block.
LEMMA PackedFits ==
  ASSUME NEW v, Len(v.sh) \in Nat
  PROVE  /\ Rope!Packed(v) \in 0 .. Len(v.sh)
         /\ \A j \in 0 .. Rope!Packed(v) - 1 : v.st[Len(v.sh) - j] = Rope!Block(v.sh, j)
<1> DEFINE S == {m \in 0 .. Len(v.sh) : \A j \in 0 .. m - 1 : v.st[Len(v.sh) - j] = Rope!Block(v.sh, j)}
<1>1. 0 \in S
  OBVIOUS
<1>2. S \in SUBSET (0 .. Len(v.sh)) /\ S # {}
  BY <1>1
<1>3. Rope!Max(S) \in S
  <2> HIDE DEF S
  <2> QED BY <1>2, RopeGreatest
<1> QED BY <1>3 DEF Rope!Packed

-----------------------------------------------------------------------------
(* Views that interleave. *)

\* Every stride of a leading dimension is a multiple of a period.
Periodic(l, sh, st, P) == \A d \in 1 .. l : sh[d] > 1 => \E q \in Nat : st[d] = q * P

\* At less than the block past a multiple of the period.
PastPeriod(x, P, E) == \E q \in Nat, l \in 0 .. E - 1 : x = q * P + l

\* The place of an index: a multiple of the period, and less than the block.
LEMMA PlaceSplits ==
  ASSUME NEW m, NEW sh, NEW st, Dims(m, sh, st), NEW b, Blocks(b, m, sh), NEW i, Index(m, sh, i),
         NEW p \in 0 .. m, Trailing(p, m, st, b),
         NEW P \in Nat, Periodic(m - p, sh, st, P)
  PROVE  PastPeriod(Place(m, st, i), P, b[p])
<1> DEFINE f == Terms(m, st, i)
           low == LastTerms(m, st, i, p)
           high == [d \in 1 .. m |-> f[d] - low[d]]
<1>1. m \in Nat /\ sh \in [1 .. m -> Nat] /\ st \in [1 .. m -> Nat] /\ i \in [1 .. m -> Nat]
  BY DEF Dims, Index
<1>2. \A d \in 1 .. m : f[d] \in Nat /\ low[d] = (IF d > m - p THEN f[d] ELSE 0)
  BY TermsNatural DEF LastTerms
<1>3. Total(m, low) \in 0 .. b[p] - 1
  BY BlockHolds
<1>4. Total(m, high) = Total(m, f) - Total(m, low)
  <2>1. \A d \in 1 .. m : f[d] \in Int /\ low[d] \in Int /\ high[d] = f[d] - low[d]
    BY <1>2
  <2>2. PICK x, y, z : x = f /\ y = low /\ z = high
    OBVIOUS
  <2>3. \A d \in 1 .. m : x[d] \in Int /\ y[d] \in Int /\ z[d] = x[d] - y[d]
    BY <2>1, <2>2
  <2>4. Total(m, z) = Total(m, x) - Total(m, y)
    <3>1. m \in Nat /\ Differs(m, x, y, z)
      BY <1>1, <2>3 DEF Differs
    <3> QED BY ONLY <3>1, DifferenceTotal
  <2> QED BY <2>2, <2>4
<1>5. \A d \in 1 .. m : \E q \in Nat : high[d] = q * P
  <2> TAKE d \in 1 .. m
  <2>1. CASE d > m - p
    <3>1. high[d] = f[d] - low[d] /\ low[d] = f[d] /\ f[d] \in Nat
      BY <1>2, <2>1
    <3>2. high[d] = 0 * P
      <4> HIDE DEF high, f, low
      <4> QED BY <3>1
    <3> QED BY <3>2
  <2>2. CASE ~(d > m - p)
    <3>1. d \in 1 .. m - p
      BY <1>1, <2>2
    <3>2. high[d] = i[d] * st[d]
      <4>1. low[d] = 0
        BY <1>2, <2>2
      <4>2. f[d] = i[d] * st[d]
        BY DEF Terms
      <4>3. f[d] - 0 = f[d]
        BY <1>2
      <4> HIDE DEF f, low
      <4> QED BY <4>1, <4>2, <4>3
    <3>3. i[d] \in Nat /\ i[d] < sh[d] /\ sh[d] \in Nat
      BY <1>1 DEF Index
    <3>4. CASE sh[d] > 1
      <4>1. PICK q \in Nat : st[d] = q * P
        BY <3>1, <3>4 DEF Periodic
      <4>2. i[d] * (q * P) = (i[d] * q) * P /\ i[d] * q \in Nat
        BY <3>3
      <4> QED BY <3>2, <4>1, <4>2
    <3>5. CASE ~(sh[d] > 1)
      <4>1. i[d] = 0 /\ st[d] \in Nat
        BY <1>1, <3>3, <3>5
      <4>2. high[d] = 0 * P
        BY <3>2, <4>1
      <4> QED BY <4>2
    <3> QED BY <3>4, <3>5
  <2> QED BY <2>1, <2>2
<1>6. PICK q \in Nat : Total(m, high) = q * P
  <2>1. PICK z : z = high
    OBVIOUS
  <2>2. \A d \in 1 .. m : \E q \in Nat : z[d] = q * P
    BY <1>5, <2>1
  <2>3. \E q \in Nat : Total(m, z) = q * P
    <3>1. m \in Nat /\ P \in Nat
      BY <1>1
    <3> QED BY ONLY <2>2, <3>1, MultiplesTotal
  <2> QED BY <2>1, <2>3
<1>7. Total(m, f) \in Nat
  <2> HIDE DEF f
  <2> QED BY <1>1, <1>2, SumNatural
<1>8. Place(m, st, i) = Total(m, f)
  BY DEF Place
<1>9. PICK x, y, z : x = Total(m, f) /\ y = Total(m, low) /\ z = q * P
  OBVIOUS
<1>10. x \in Nat /\ y \in 0 .. b[p] - 1 /\ z \in Nat /\ z = x - y
  <2>1. q * P \in Nat
    BY Products
  <2> QED BY <1>3, <1>4, <1>6, <1>7, <1>9, <2>1
<1>11. x = z + y
  BY <1>10
<1> QED BY <1>8, <1>9, <1>10, <1>11 DEF PastPeriod

\* A multiple of q is some number times q.
LEMMA Divides ==
  ASSUME NEW a \in Nat, NEW q \in Nat \ {0}, a % q = 0
  PROVE  \E u \in Nat : a = u * q
<1>1. a \div q \in Nat
  OBVIOUS
<1>2. a = (a \div q) * q
  OBVIOUS
<1> QED BY <1>1, <1>2

OutOfStep(P, x, y, a, c, u, w) == x + (a * P + u) # y + (c * P + w)

\* Offsets that differ by at least a block and end before the period: no common place.
LEMMA PeriodsApart ==
  ASSUME NEW P \in Nat, NEW E \in Nat, NEW a \in Nat, NEW c \in Nat, NEW u \in 0 .. E - 1, NEW w \in 0 .. E - 1,
         NEW x \in Nat, NEW y \in Nat, y <= x, x - y >= E, (x - y) + E <= P
  PROVE  OutOfStep(P, x, y, a, c, u, w)
<1> USE DEF OutOfStep
<1>1. PICK g, z : g = a * P /\ z = c * P
  OBVIOUS
<1>2. g \in Nat /\ z \in Nat
  BY <1>1, Products
<1>3. CASE c <= a
  <2>1. z <= g
    BY <1>1, <1>3, Products
  <2> QED BY <1>1, <1>2, <2>1
<1>4. CASE a + 1 <= c
  <2>1. (a + 1) * P = a * P + P /\ (a + 1) * P <= c * P
    BY <1>4, Products
  <2>2. g + P <= z
    BY <1>1, <2>1
  <2> QED BY <1>1, <1>2, <2>2
<1> QED BY <1>3, <1>4

\* Views the interleaving test accepts name no common offset.
LEMMA InterleavedApart ==
  ASSUME NEW x, NEW y, Strided(x), Strided(y), Rope!InterleavedDisjoint(x, y),
         NEW i \in Rope!Indices(x.sh), NEW k \in Rope!Indices(y.sh)
  PROVE  Rope!Offset(x, i) # Rope!Offset(y, k)
<1>0. PICK m, sh, st : m = Len(x.sh) /\ sh = x.sh /\ st = x.st
  OBVIOUS
<1>1. y.sh = sh /\ y.st = st /\ m = Len(sh)
  BY <1>0 DEF Rope!InterleavedDisjoint
<1>2. Dims(m, sh, st) /\ DOMAIN sh = 1 .. m /\ x.offset \in Nat /\ y.offset \in Nat
  BY <1>0, <1>1 DEF Strided
<1>3. m \in Nat /\ sh \in [1 .. m -> Nat] /\ st \in [1 .. m -> Nat]
  BY <1>2 DEF Dims
<1>4. Index(m, sh, i) /\ Index(m, sh, k)
  BY <1>0, <1>1, <1>2, IndexOf
<1>5. PICK b : Blocks(b, m, sh) /\ \A j \in 0 .. m : Rope!Block(sh, j) = b[j]
  BY <1>1, <1>3, BlocksExist
<1>6. PICK p : p = Rope!Packed(x)
  OBVIOUS
<1>7. p \in 0 .. m /\ \A j \in 0 .. p - 1 : st[m - j] = Rope!Block(sh, j)
  BY <1>0, <1>3, <1>6, PackedFits
<1>8. Trailing(p, m, st, b)
  BY <1>3, <1>5, <1>7 DEF Trailing
<1> DEFINE outer == {st[d] : d \in {d \in 1 .. m - p : sh[d] > 1}}
           P == Rope!Min(outer)
           delta == IF x.offset > y.offset THEN x.offset - y.offset ELSE y.offset - x.offset
<1>9. /\ outer # {} /\ P > 0 /\ \A s \in outer : s % P = 0
      /\ delta >= Rope!Block(sh, p) /\ delta + Rope!Block(sh, p) <= P
  BY <1>0, <1>1, <1>6 DEF Rope!InterleavedDisjoint
<1>10. P \in Nat
  <2>1. \A d \in 1 .. m - p : st[d] \in Nat
    BY <1>3, <1>7
  <2>2. outer \in SUBSET Nat
    BY <2>1
  <2> HIDE DEF outer
  <2> QED BY <1>9, <2>2, RopeLeast
<1>11. \A d \in 1 .. m - p : sh[d] > 1 => \E q \in Nat : st[d] = q * P
  <2> SUFFICES ASSUME NEW d \in 1 .. m - p, sh[d] > 1 PROVE \E q \in Nat : st[d] = q * P
    OBVIOUS
  <2>1. st[d] \in outer
    OBVIOUS
  <2>2. st[d] \in Nat
    BY <1>3, <1>7
  <2>3. st[d] % P = 0
    BY <1>9, <2>1
  <2>4. PICK a, z : a = st[d] /\ z = P
    OBVIOUS
  <2>5. a \in Nat /\ z \in Nat \ {0} /\ a % z = 0
    BY <1>9, <1>10, <2>2, <2>3, <2>4
  <2>6. \E q \in Nat : a = q * z
    BY ONLY <2>5, Divides
  <2> QED BY <2>4, <2>6
<1>110. PICK R : R = P
  OBVIOUS
<1>111. R \in Nat /\ \A d \in 1 .. m - p : sh[d] > 1 => \E q \in Nat : st[d] = q * R
  BY <1>10, <1>11, <1>110
<1>12. PICK E : E = b[p]
  OBVIOUS
<1>13. E = Rope!Block(sh, p) /\ E \in Nat
  BY <1>5, <1>7, <1>12 DEF Blocks
<1>14. PICK D : D = delta
  OBVIOUS
<1>15. D >= E /\ D + E <= R /\ (x.offset >= y.offset => D = x.offset - y.offset)
       /\ (y.offset >= x.offset => D = y.offset - x.offset)
  BY <1>2, <1>9, <1>13, <1>14, <1>110
<1> HIDE DEF P, delta
<1>16. PICK a \in Nat, u \in 0 .. E - 1 : Place(m, st, i) = a * R + u
  <2>1. Blocks(b, m, sh)
    BY <1>5
  <2>2. Dims(m, sh, st) /\ Index(m, sh, i) /\ p \in 0 .. m /\ R \in Nat
    BY <1>2, <1>4, <1>7, <1>111
  <2>3. Periodic(m - p, sh, st, R)
    BY <1>111 DEF Periodic
  <2>4. PastPeriod(Place(m, st, i), R, b[p])
    BY ONLY <2>1, <2>2, <2>3, <1>8, PlaceSplits
  <2> QED BY <1>12, <2>4 DEF PastPeriod
<1>17. PICK c \in Nat, w \in 0 .. E - 1 : Place(m, st, k) = c * R + w
  <2>1. Blocks(b, m, sh)
    BY <1>5
  <2>2. Dims(m, sh, st) /\ Index(m, sh, k) /\ p \in 0 .. m /\ R \in Nat
    BY <1>2, <1>4, <1>7, <1>111
  <2>3. Periodic(m - p, sh, st, R)
    BY <1>111 DEF Periodic
  <2>4. PastPeriod(Place(m, st, k), R, b[p])
    BY ONLY <2>1, <2>2, <2>3, <1>8, PlaceSplits
  <2> QED BY <1>12, <2>4 DEF PastPeriod
<1>18. Rope!Offset(x, i) = x.offset + (a * R + u)
  BY <1>0, <1>4, <1>16, OffsetOf
<1>19. Rope!Offset(y, k) = y.offset + (c * R + w)
  BY <1>0, <1>1, <1>4, <1>17, OffsetOf
<1>190. PICK g, z : g = x.offset /\ z = y.offset
  OBVIOUS
<1>191. g \in Nat /\ z \in Nat
  BY <1>2, <1>190
<1>20. CASE z <= g
  <2>1. g - z >= E /\ (g - z) + E <= R
    BY <1>15, <1>20, <1>190, <1>191
  <2>2. E \in Nat /\ R \in Nat
    BY <1>13, <1>111
  <2>3. OutOfStep(R, g, z, a, c, u, w)
    BY ONLY a \in Nat, c \in Nat, u \in 0 .. E - 1, w \in 0 .. E - 1, <1>20, <1>191, <2>1, <2>2, PeriodsApart
  <2> QED BY <1>18, <1>19, <1>190, <2>3 DEF OutOfStep
<1>21. CASE g <= z
  <2>1. z - g >= E /\ (z - g) + E <= R
    BY <1>15, <1>21, <1>190, <1>191
  <2>2. E \in Nat /\ R \in Nat
    BY <1>13, <1>111
  <2>3. OutOfStep(R, z, g, c, a, w, u)
    BY ONLY a \in Nat, c \in Nat, u \in 0 .. E - 1, w \in 0 .. E - 1, <1>21, <1>191, <2>1, <2>2, PeriodsApart
  <2> QED BY <1>18, <1>19, <1>190, <2>3 DEF OutOfStep
<1> QED BY <1>20, <1>21, <1>191

\* Every element of a view lies within its bounds.
LEMMA WithinBounds ==
  ASSUME NEW v, Strided(v), NEW i \in Rope!Indices(v.sh)
  PROVE  /\ Rope!StorageBounds(v).lo \in Nat /\ Rope!StorageBounds(v).hi \in Nat
         /\ Rope!StorageBounds(v).lo <= Rope!Offset(v, i) /\ Rope!Offset(v, i) <= Rope!StorageBounds(v).hi
         /\ Rope!Offset(v, i) \in Nat
<1>0. PICK m, sh, st : m = Len(v.sh) /\ sh = v.sh /\ st = v.st
  OBVIOUS
<1>1. Dims(m, sh, st) /\ DOMAIN sh = 1 .. m /\ v.offset \in Nat
  BY <1>0 DEF Strided
<1>2. m \in Nat /\ sh \in [1 .. m -> Nat] /\ st \in [1 .. m -> Nat]
  BY <1>1 DEF Dims
<1>3. Index(m, sh, i)
  BY <1>0, <1>1, IndexOf
<1> DEFINE last == [d \in 1 .. m |-> sh[d] - 1]
<1>4. Index(m, sh, last)
  <2>1. \A d \in 1 .. m : i[d] \in Nat /\ i[d] < sh[d] /\ sh[d] \in Nat
    BY <1>2, <1>3 DEF Index
  <2>2. \A d \in 1 .. m : sh[d] - 1 \in Nat /\ sh[d] - 1 < sh[d]
    BY <2>1
  <2> QED BY <2>2 DEF Index
<1>5. /\ Rope!Offset(v, i) = v.offset + Place(m, st, i) /\ Place(m, st, i) \in Nat
      /\ Rope!Offset(v, last) = v.offset + Place(m, st, last) /\ Place(m, st, last) \in Nat
  <2> HIDE DEF last
  <2> QED BY <1>0, <1>3, <1>4, OffsetOf
<1>6. Place(m, st, i) <= Place(m, st, last)
  <2>1. \A d \in 1 .. m : Terms(m, st, i)[d] \in Int /\ Terms(m, st, last)[d] \in Int
                          /\ Terms(m, st, i)[d] <= Terms(m, st, last)[d]
    <3> TAKE d \in 1 .. m
    <3>1. Terms(m, st, i)[d] \in Nat /\ Terms(m, st, i)[d] <= (sh[d] - 1) * st[d]
      BY <1>1, <1>3, TermsNatural
    <3>2. Terms(m, st, last)[d] \in Nat
      <4> HIDE DEF last
      <4> QED BY <1>1, <1>4, TermsNatural
    <3>3. Terms(m, st, last)[d] = (sh[d] - 1) * st[d]
      BY DEF Terms
    <3> QED BY <3>1, <3>2, <3>3
  <2> HIDE DEF last
  <2> QED BY <1>2, <2>1, TotalMonotone DEF Place
<1>7. Rope!StorageBounds(v).lo = v.offset /\ Rope!StorageBounds(v).hi = Rope!Offset(v, last)
  BY <1>0, <1>1 DEF Rope!StorageBounds
<1> HIDE DEF last
<1>8. PICK a, c : a = Place(m, st, i) /\ c = Place(m, st, last)
  OBVIOUS
<1>9. a \in Nat /\ c \in Nat /\ a <= c /\ v.offset \in Nat
  BY <1>1, <1>5, <1>6, <1>8
<1> QED BY <1>5, <1>7, <1>8, <1>9

\* Two tensors that pass the overlap test have no cell in common.
LEMMA NoOverlapApart ==
  ASSUME NEW x, NEW y, Strided(x), Strided(y), ~Rope!TensorsOverlap(x, y),
         NEW i \in Rope!Indices(x.sh), NEW k \in Rope!Indices(y.sh)
  PROVE  Rope!Cell(x, i) # Rope!Cell(y, k)
<1> SUFFICES ASSUME Rope!Cell(x, i) = Rope!Cell(y, k) PROVE FALSE
  OBVIOUS
<1>1. x.store = y.store /\ Rope!Offset(x, i) = Rope!Offset(y, k)
  BY DEF Rope!Cell
<1>2. PICK a, b, c, d, o : /\ a = Rope!StorageBounds(x).lo /\ b = Rope!StorageBounds(y).lo
                           /\ c = Rope!StorageBounds(x).hi /\ d = Rope!StorageBounds(y).hi
                           /\ o = Rope!Offset(x, i)
  OBVIOUS
<1>3. a \in Nat /\ b \in Nat /\ c \in Nat /\ d \in Nat /\ o \in Nat /\ a <= o /\ b <= o /\ o <= c /\ o <= d
  BY <1>1, <1>2, WithinBounds
<1>4. Rope!Max({a, b}) <= Rope!Min({c, d})
  <2>1. Rope!Min({c, d}) \in {c, d}
    <3>1. {c, d} \in SUBSET Nat /\ {c, d} # {}
      BY <1>3
    <3> QED BY <3>1, RopeLeast
  <2>2. Rope!Max({a, b}) \in {a, b}
    <3>1. {a, b} \in SUBSET (0 .. o) /\ {a, b} # {}
      BY <1>3
    <3> QED BY <1>3, <3>1, RopeGreatest
  <2> QED BY <1>3, <2>1, <2>2
<1>5. ~Rope!InterleavedDisjoint(x, y)
  BY <1>1, InterleavedApart
<1>6. Rope!TensorsOverlap(x, y)
  BY <1>1, <1>2, <1>4, <1>5 DEF Rope!TensorsOverlap
<1> QED BY <1>6

\* The sizes of the last dimensions of a contiguous tensor grow.
LEMMA BlocksGrow ==
  ASSUME NEW m \in Nat, NEW sh \in [1 .. m -> Nat], NEW b, Blocks(b, m, sh), \A d \in 1 .. m : sh[d] >= 1,
         NEW a \in 0 .. m, NEW j \in a .. m
  PROVE  b[a] >= 1 /\ b[a] <= b[j]
<1>1. b \in [0 .. m -> Nat] /\ b[0] = 1 /\ \A k \in 1 .. m : b[k] = b[k - 1] * sh[m - k + 1]
  BY DEF Blocks
<1>2. ASSUME NEW k \in 0 .. m - 1 PROVE b[k] <= b[k + 1] /\ b[k] \in Nat /\ b[k + 1] \in Nat
  <2>1. k + 1 \in 1 .. m /\ (k + 1) - 1 = k /\ m - (k + 1) + 1 \in 1 .. m
    OBVIOUS
  <2>2. PICK s : s = sh[m - (k + 1) + 1]
    OBVIOUS
  <2>3. s \in Nat /\ 1 <= s /\ b[k + 1] = b[k] * s
    BY <1>1, <2>1, <2>2
  <2>4. b[k] \in Nat
    BY <1>1
  <2>5. 1 * b[k] <= s * b[k]
    BY <2>3, <2>4, Products
  <2> QED BY <1>1, <2>1, <2>3, <2>4, <2>5
<1> DEFINE T == {k \in 0 .. m : b[k] >= 1}
           U == {k \in 0 .. m : k >= a => b[a] <= b[k]}
<1>3. m \in T
  <2>1. 0 .. m \subseteq T
    <3>1. 0 \in T
      BY <1>1
    <3>2. \A k \in 0 .. m - 1 : k \in T => k + 1 \in T
      BY <1>2
    <3> HIDE DEF T
    <3> QED BY <3>1, <3>2, SetInduction
  <2> QED BY <2>1
<1>4. 0 .. m \subseteq T
  <2>1. 0 \in T
    BY <1>1
  <2>2. \A k \in 0 .. m - 1 : k \in T => k + 1 \in T
    BY <1>2
  <2> HIDE DEF T
  <2> QED BY <2>1, <2>2, SetInduction
<1>5. 0 .. m \subseteq U
  <2>1. 0 \in U
    BY <1>1
  <2>2. ASSUME NEW k \in 0 .. m - 1, k \in U PROVE k + 1 \in U
    <3>1. CASE k + 1 = a
      BY <1>1, <3>1
    <3>2. CASE k + 1 # a
      <4>1. k + 1 >= a => k >= a
        BY <3>2
      <4> QED BY <1>1, <1>2, <2>2, <4>1
    <3> QED BY <3>1, <3>2
  <2> HIDE DEF U
  <2> QED BY <2>1, <2>2, SetInduction
<1> QED BY <1>4, <1>5

\* A tensor of its own: its strides are the sizes of its blocks.
LEMMA ContiguousStrided ==
  ASSUME NEW store, NEW sh \in Seq(0 .. MaxExtent)
  PROVE  /\ Strided(Rope!Contiguous(store, sh))
         /\ Rope!Contiguous(store, sh).sh = sh /\ Rope!Contiguous(store, sh).store = store
         /\ Rope!Indices(sh) # {} => Nested(Len(sh), sh, Rope!Contiguous(store, sh).st)
<1>0. MaxExtent \in Nat
  BY RopeAssumption
<1>1. PICK m : m = Len(sh)
  OBVIOUS
<1>2. m \in Nat /\ DOMAIN sh = 1 .. m /\ sh \in [1 .. m -> Nat]
  <2>1. Len(sh) \in Nat /\ DOMAIN sh = 1 .. Len(sh) /\ sh \in [1 .. Len(sh) -> 0 .. MaxExtent]
    BY LenProperties
  <2> QED BY <1>0, <1>1, <2>1
<1>3. PICK b : Blocks(b, m, sh) /\ \A j \in 0 .. m : Rope!Block(sh, j) = b[j]
  BY <1>1, <1>2, BlocksExist
<1>4. b \in [0 .. m -> Nat] /\ \A j \in 1 .. m : b[j] = b[j - 1] * sh[m - j + 1]
  BY <1>3 DEF Blocks
<1>5. PICK st : st = Rope!Contiguous(store, sh).st
  OBVIOUS
<1>6. \A d \in 1 .. m : m - d \in 0 .. m
  BY <1>2
<1>7. st \in [1 .. m -> Nat] /\ \A d \in 1 .. m : st[d] = b[m - d]
  <2>1. st = [d \in DOMAIN sh |-> Rope!Block(sh, m - d)]
    BY <1>1, <1>5 DEF Rope!Contiguous, Rope!View
  <2>2. st = [d \in 1 .. m |-> b[m - d]]
    BY <1>2, <1>3, <1>6, <2>1
  <2> QED BY <1>4, <1>6, <2>2
<1>8. /\ Rope!Contiguous(store, sh).sh = sh /\ Rope!Contiguous(store, sh).store = store
      /\ Rope!Contiguous(store, sh).offset = 0
  BY DEF Rope!Contiguous, Rope!View
<1>9. Strided(Rope!Contiguous(store, sh))
  BY <1>1, <1>2, <1>5, <1>7, <1>8 DEF Strided, Dims
<1>10. ASSUME NEW i \in Rope!Indices(sh) PROVE Nested(m, sh, st)
  <2>1. Index(m, sh, i)
    BY <1>1, <1>2, IndexOf
  <2>2. \A d \in 1 .. m : sh[d] >= 1
    <3> TAKE d \in 1 .. m
    <3>1. i[d] \in Nat /\ i[d] < sh[d] /\ sh[d] \in Nat
      BY <1>2, <2>1 DEF Index
    <3> QED BY <3>1
  <2>3. \A a \in 0 .. m : \A j \in a .. m : b[a] >= 1 /\ b[a] <= b[j]
    BY <1>2, <1>3, <2>2, BlocksGrow
  <2>4. \A d \in 1 .. m : st[d] >= 1
    <3> TAKE d \in 1 .. m
    <3>1. m - d \in 0 .. m /\ m \in m - d .. m
      BY <1>2
    <3> QED BY <1>7, <2>3, <3>1
  <2>5. ASSUME NEW d \in 1 .. m, NEW o \in 1 .. m, d < o PROVE st[o] * sh[o] <= st[d]
    <3>1. PICK j : j = m - o + 1
      OBVIOUS
    <3>2. j \in 1 .. m /\ j - 1 = m - o /\ m - j + 1 = o /\ j \in 0 .. m /\ m - d \in j .. m
      BY <1>2, <2>5, <3>1
    <3>3. b[j] = b[m - o] * sh[o]
      BY <1>4, <3>2
    <3>4. b[j] <= b[m - d]
      BY <2>3, <3>2
    <3> QED BY <1>7, <3>3, <3>4
  <2>6. ASSUME NEW d \in 1 .. m, NEW o \in 1 .. m, d # o
        PROVE  st[d] * sh[d] <= st[o] \/ st[o] * sh[o] <= st[d]
    <3>1. CASE d < o
      BY <2>5, <3>1
    <3>2. CASE o < d
      BY <2>5, <3>2
    <3> QED BY <2>6, <3>1, <3>2
  <2> QED BY <2>4, <2>6 DEF Nested
<1> QED BY <1>1, <1>5, <1>8, <1>9, <1>10

-----------------------------------------------------------------------------
(* What the tests of an in-place call establish, and what a call writes. *)

RopeNames(c) == {"q"} \cup IF c.two THEN {"k"} ELSE {}

\* The rotations of the call write tensors of their own.
Afresh(c) == ~c.inplace \/ Rope!Plan(c) = Rope!EagerRope(c)
Into(c, name) == IF Afresh(c) THEN Rope!Fresh(c, name) ELSE c[name]

Guarded(c) ==
  c.inplace => Rope!InPlaceAllowed([j \in DOMAIN Rope!Operands(c) |-> c[Rope!Operands(c)[j]]], Rope!Readonly(c))

CellEach(v) == \A i, k \in Rope!Indices(v.sh) : Rope!Cell(v, i) = Rope!Cell(v, k) => i = k
ApartViews(x, y) == \A i \in Rope!Indices(x.sh), k \in Rope!Indices(y.sh) : Rope!Cell(x, i) # Rope!Cell(y, k)

\* The operands of a call, and what it only reads, are views.
LEMMA CallViews ==
  ASSUME NEW c \in RopeCalls
  PROVE  /\ \A name \in RopeNames(c) : RopeView(c[name]) /\ Strided(c[name])
         /\ \A source \in Rope!Readonly(c) : RopeView(source) /\ Strided(source) /\ source.sh = <<1>>
<1>1. RopeView(c.q) /\ RopeView(c.k) /\ \A source \in {c.freqs, c.scale} : RopeView(source) /\ source.sh = <<1>>
  BY RopeAssumption
<1>2. \A name \in RopeNames(c) : RopeView(c[name])
  BY <1>1 DEF RopeNames
<1>3. \A source \in Rope!Readonly(c) : RopeView(source) /\ source.sh = <<1>>
  BY <1>1 DEF Rope!Readonly
<1> QED BY <1>2, <1>3, ViewStrided

\* A fresh result has its operand's shape and a storage of its own, each element in a cell.
LEMMA FreshViews ==
  ASSUME NEW c \in RopeCalls, NEW name \in RopeNames(c)
  PROVE  /\ Rope!Fresh(c, name).sh = c[name].sh /\ CellEach(Rope!Fresh(c, name))
         /\ Rope!Fresh(c, name).store = IF name = "q" THEN "out_q" ELSE "out_k"
<1>1. PICK store : store = IF name = "q" THEN "out_q" ELSE "out_k"
  OBVIOUS
<1>2. PICK sh : sh = c[name].sh
  OBVIOUS
<1>3. sh \in Seq(0 .. MaxExtent)
  BY <1>2, CallViews DEF RopeView
<1>4. PICK v : v = Rope!Contiguous(store, sh)
  OBVIOUS
<1>5. Rope!Fresh(c, name) = v
  BY <1>1, <1>2, <1>4 DEF Rope!Fresh
<1>6. Strided(v) /\ v.sh = sh /\ v.store = store /\ (Rope!Indices(sh) # {} => Nested(Len(sh), sh, v.st))
  BY <1>3, <1>4, ContiguousStrided
<1>7. CellEach(v)
  BY <1>6, CellsOfView DEF CellEach
<1> QED BY <1>1, <1>2, <1>5, <1>6, <1>7

\* Views of two storages share no cell.
LEMMA StoresApart ==
  ASSUME NEW x, NEW y, x.store # y.store
  PROVE  ApartViews(x, y)
BY DEF ApartViews, Rope!Cell

\* What the tests of an in-place call establish.
LEMMA AllowedApart ==
  ASSUME NEW c \in RopeCalls, Guarded(c), c.inplace, NEW name \in RopeNames(c)
  PROVE  /\ CellEach(c[name])
         /\ \A o \in RopeNames(c) : o # name => ApartViews(c[name], c[o])
         /\ \A source \in Rope!Readonly(c) : ApartViews(c[name], source)
<1>0. c.two \in BOOLEAN
  BY RopeAssumption
<1> DEFINE xs == [j \in DOMAIN Rope!Operands(c) |-> c[Rope!Operands(c)[j]]]
<1>1. Rope!InPlaceAllowed(xs, Rope!Readonly(c))
  BY DEF Guarded
<1>2. IF c.two THEN Len(xs) = 2 /\ DOMAIN xs = {1, 2} /\ xs[1] = c["q"] /\ xs[2] = c["k"]
      ELSE DOMAIN xs = {1} /\ xs[1] = c["q"]
  BY <1>0 DEF Rope!Operands
<1>3. PICK j \in DOMAIN xs : xs[j] = c[name]
  <2> HIDE DEF xs
  <2> QED BY <1>0, <1>2 DEF RopeNames
<1>4. \A o \in RopeNames(c) : RopeView(c[o]) /\ Strided(c[o])
  BY CallViews
<1> HIDE DEF xs
<1>5. ~Rope!InternalOverlap(c[name])
  BY <1>1, <1>3 DEF Rope!InPlaceAllowed
<1>6. CellEach(c[name])
  <2>1. Strided(c[name])
    BY <1>4
  <2>2. Nested(Len(c[name].sh), c[name].sh, c[name].st)
    BY <1>5, <2>1, NoOverlapNested
  <2> QED BY <2>1, <2>2, CellsOfView DEF CellEach
<1>7. \A source \in Rope!Readonly(c) : ApartViews(c[name], source)
  <2> TAKE source \in Rope!Readonly(c)
  <2>1. ~Rope!TensorsOverlap(c[name], source)
    BY <1>1, <1>3 DEF Rope!InPlaceAllowed
  <2>2. Strided(c[name]) /\ Strided(source)
    BY <1>4, CallViews
  <2> QED BY <2>1, <2>2, NoOverlapApart DEF ApartViews
<1>8. ASSUME c.two PROVE ApartViews(c["q"], c["k"]) /\ ApartViews(c["k"], c["q"])
  <2>1. ~Rope!TensorsOverlap(c["q"], c["k"])
    BY <1>1, <1>2, <1>8 DEF Rope!InPlaceAllowed
  <2>2. Strided(c["q"]) /\ Strided(c["k"])
    BY <1>4, <1>8 DEF RopeNames
  <2>3. ApartViews(c["q"], c["k"])
    BY <2>1, <2>2, NoOverlapApart DEF ApartViews
  <2> QED BY <2>3 DEF ApartViews
<1>9. \A o \in RopeNames(c) : o # name => ApartViews(c[name], c[o])
  BY <1>0, <1>8 DEF RopeNames
<1> QED BY <1>6, <1>7, <1>9

\* Where the rotations and the copies of a call write and read.
LEMMA RopeGeometry ==
  ASSUME NEW c \in RopeCalls, Guarded(c), NEW name \in RopeNames(c)
  PROVE  /\ Into(c, name).sh = c[name].sh /\ CellEach(Into(c, name))
         /\ \A o \in RopeNames(c) : o # name => ApartViews(Into(c, name), Into(c, o))
         /\ \A o \in RopeNames(c) : Afresh(c) => ApartViews(Into(c, name), c[o])
         /\ \A source \in Rope!Readonly(c) : ApartViews(Into(c, name), source)
<1>1. CASE ~Afresh(c)
  <2>1. c.inplace
    BY <1>1, RopeAssumption DEF Afresh
  <2>2. \A o \in RopeNames(c) : Into(c, o) = c[o]
    BY <1>1 DEF Into
  <2> QED BY <1>1, <2>1, <2>2, AllowedApart
<1>2. CASE Afresh(c)
  <2>1. \A o \in RopeNames(c) : Into(c, o) = Rope!Fresh(c, o)
    BY <1>2 DEF Into
  <2>2. \A o \in RopeNames(c) : Rope!Fresh(c, o).store = IF o = "q" THEN "out_q" ELSE "out_k"
    BY FreshViews
  <2>3. \A o \in RopeNames(c) : o # name => ApartViews(Into(c, name), Into(c, o))
    <3> SUFFICES ASSUME NEW o \in RopeNames(c), o # name PROVE ApartViews(Into(c, name), Into(c, o))
      OBVIOUS
    <3>1. Rope!Fresh(c, name).store # Rope!Fresh(c, o).store
      BY <2>2 DEF RopeNames
    <3> QED BY <2>1, <3>1, StoresApart
  <2>4. \A o \in RopeNames(c) : ApartViews(Into(c, name), c[o])
    <3> TAKE o \in RopeNames(c)
    <3>1. c[o].store \notin {"out_q", "out_k"}
      BY CallViews DEF RopeView
    <3>2. Rope!Fresh(c, name).store # c[o].store
      BY <2>2, <3>1
    <3> QED BY <2>1, <3>2, StoresApart
  <2>5. \A source \in Rope!Readonly(c) : ApartViews(Into(c, name), source)
    <3> TAKE source \in Rope!Readonly(c)
    <3>1. source.store \notin {"out_q", "out_k"}
      BY CallViews DEF RopeView
    <3>2. Rope!Fresh(c, name).store # source.store
      BY <2>2, <3>1
    <3> QED BY <2>1, <3>2, StoresApart
  <2>6. Into(c, name).sh = c[name].sh /\ CellEach(Into(c, name))
    BY <2>1, FreshViews
  <2> QED BY <2>3, <2>4, <2>5, <2>6
<1> QED BY <1>1, <1>2

-----------------------------------------------------------------------------
(* What each backend launches. *)

\* The launches a call may have, and the order it keeps.
NameLists(c) == {<<name>> : name \in RopeNames(c)} \cup IF c.two /\ c.q.sh = c.k.sh THEN {<<"q", "k">>} ELSE {}
CopiesBack(c) == c.inplace /\ Afresh(c)
LaunchesOf(c) ==
  {Rope!Rotate(names, Afresh(c)) : names \in NameLists(c)}
    \cup IF CopiesBack(c) THEN {Rope!Copy(name) : name \in RopeNames(c)} ELSE {}
OfLaunch(job, name) == \E j \in DOMAIN job.names : job.names[j] = name
Ahead(ls, kind, name) == \E j \in DOMAIN ls : ls[j].kind = kind /\ OfLaunch(ls[j], name)

Ordered(c, ls) ==
  /\ ls \in Seq(LaunchesOf(c))
  /\ \A j, k \in DOMAIN ls : j # k /\ ls[j].kind = ls[k].kind =>
       \A name : ~(OfLaunch(ls[j], name) /\ OfLaunch(ls[k], name))
  /\ \A j, k \in DOMAIN ls : j < k /\ ls[j].kind = "copy" => ls[k].kind = "copy"

\* The launches of a call.
LEMMA LaunchesIn ==
  ASSUME NEW c
  PROVE  /\ \A names \in NameLists(c) : Rope!Rotate(names, Afresh(c)) \in LaunchesOf(c)
         /\ CopiesBack(c) => \A name \in RopeNames(c) : Rope!Copy(name) \in LaunchesOf(c)
         /\ \A name \in RopeNames(c) : Rope!Rotate(<<name>>, Afresh(c)) \in LaunchesOf(c)
BY DEF LaunchesOf, NameLists

\* The fields of a rotation.
LEMMA RotateIs ==
  ASSUME NEW names, NEW fresh
  PROVE  /\ Rope!Rotate(names, fresh).kind = "rotate" /\ Rope!Rotate(names, fresh).names = names
         /\ Rope!Rotate(names, fresh).fresh = fresh
BY DEF Rope!Rotate

\* The fields of a copy.
LEMMA CopyIs ==
  ASSUME NEW name
  PROVE  /\ Rope!Copy(name).kind = "copy" /\ Rope!Copy(name).names = <<name>> /\ Rope!Copy(name).fresh = TRUE
         /\ \A o : OfLaunch(Rope!Copy(name), o) <=> o = name
BY DEF Rope!Copy, OfLaunch

\* A rotation of one operand is of that one.
LEMMA RotateOne ==
  ASSUME NEW name, NEW fresh
  PROVE  \A o : OfLaunch(Rope!Rotate(<<name>>, fresh), o) <=> o = name
BY DEF Rope!Rotate, OfLaunch

\* A rotation of both operands is of both.
LEMMA RotateTwo ==
  ASSUME NEW fresh
  PROVE  \A o : OfLaunch(Rope!Rotate(<<"q", "k">>, fresh), o) <=> o \in {"q", "k"}
<1>1. PICK a : a = Rope!Rotate(<<"q", "k">>, fresh)
  OBVIOUS
<1>2. a.names = <<"q", "k">>
  BY <1>1, RotateIs
<1>3. DOMAIN a.names = {1, 2} /\ a.names[1] = "q" /\ a.names[2] = "k"
  BY <1>2
<1> QED BY <1>1, <1>3 DEF OfLaunch

\* The plan of every backend is one of three.
LEMMA PlansOf ==
  ASSUME NEW c \in RopeCalls
  PROVE  \/ Rope!Plan(c) = Rope!EagerRope(c) /\ Afresh(c)
         \/ Rope!Plan(c) = Rope!Joint(c) /\ (c.two => c.q.sh = c.k.sh) /\ Afresh(c) = ~c.inplace
         \/ Rope!Plan(c) = Rope!Apart(c) /\ Afresh(c) = ~c.inplace
<1>1. /\ c.backend \in {"eager", "ascend", "cuda", "hip", "triton", "xpu"}
      /\ c.inplace \in BOOLEAN /\ c.rms \in BOOLEAN /\ c.two \in BOOLEAN
  BY RopeAssumption
<1>2. \/ Rope!Plan(c) = Rope!EagerRope(c)
      \/ Rope!Plan(c) = Rope!Joint(c) /\ (c.two => c.q.sh = c.k.sh)
      \/ Rope!Plan(c) = Rope!Apart(c)
  <2>1. c.backend = "eager" => Rope!Plan(c) = Rope!EagerRope(c)
    BY DEF Rope!Plan, Rope!EagerRmsRope
  <2>2. c.backend = "ascend" => Rope!Plan(c) = Rope!EagerRope(c)
    BY DEF Rope!Plan, Rope!AscendRope, Rope!AscendRmsRope
  <2>3. c.backend = "cuda" => Rope!Plan(c) = IF c.rms THEN Rope!CudaRmsRope(c) ELSE Rope!CudaRope(c)
    BY DEF Rope!Plan
  <2>4. c.backend = "hip" => Rope!Plan(c) = Rope!HipRope(c)
    BY DEF Rope!Plan, Rope!HipRmsRope
  <2>5. c.backend = "triton" => Rope!Plan(c) = IF c.rms THEN Rope!TritonRmsRope(c) ELSE Rope!TritonRope(c)
    BY DEF Rope!Plan
  <2>6. c.backend = "xpu" => Rope!Plan(c) = Rope!XpuRope(c)
    BY DEF Rope!Plan, Rope!XpuRmsRope
  <2> DEFINE Three(p) == \/ p = Rope!EagerRope(c) \/ p = Rope!Apart(c)
                         \/ p = Rope!Joint(c) /\ (c.two => c.q.sh = c.k.sh)
  <2>7. Three(Rope!CudaRope(c)) /\ Three(Rope!CudaRmsRope(c))
    BY DEF Rope!CudaRope, Rope!CudaRmsRope
  <2>8. Three(Rope!HipRope(c))
    BY DEF Rope!HipRope
  <2>9. Three(Rope!TritonRope(c)) /\ Three(Rope!TritonRmsRope(c))
    BY DEF Rope!TritonRope, Rope!TritonRmsRope
  <2>10. Three(Rope!XpuRope(c))
    BY DEF Rope!XpuRope
  <2> HIDE DEF Three
  <2>11. Three(Rope!EagerRope(c))
    BY DEF Three
  <2>12. Three(Rope!Plan(c))
    BY <1>1, <2>1, <2>2, <2>3, <2>4, <2>5, <2>6, <2>7, <2>8, <2>9, <2>10, <2>11
  <2> QED BY <2>12 DEF Three
<1> QED BY <1>1, <1>2 DEF Afresh

\* One launch is in order.
LEMMA OneOrdered ==
  ASSUME NEW c, NEW ls, NEW a \in LaunchesOf(c), ls = <<a>>
  PROVE  Ordered(c, ls)
BY DEF Ordered

\* One kernel for both operands.
LEMMA PlanJoint ==
  ASSUME NEW c \in RopeCalls, c.two => c.q.sh = c.k.sh, Afresh(c) = ~c.inplace
  PROVE  /\ Ordered(c, Rope!Joint(c)) /\ Rope!Joint(c) # <<>>
         /\ \A name \in RopeNames(c) : Ahead(Rope!Joint(c), "rotate", name)
<1>0. c.two \in BOOLEAN
  BY RopeAssumption
<1>1. Rope!Operands(c) \in NameLists(c)
  BY <1>0 DEF Rope!Operands, NameLists, RopeNames
<1>2. PICK a : a = Rope!Rotate(Rope!Operands(c), Afresh(c))
  OBVIOUS
<1>3. Rope!Joint(c) = <<a>>
  BY <1>2 DEF Rope!Joint
<1>4. a \in LaunchesOf(c) /\ a.kind = "rotate" /\ \A name \in RopeNames(c) : OfLaunch(a, name)
  BY <1>0, <1>1, <1>2, LaunchesIn, RotateIs, RotateOne, RotateTwo DEF Rope!Operands, RopeNames
<1> QED BY <1>3, <1>4, OneOrdered DEF Ahead

\* A kernel for each operand.
LEMMA PlanApart ==
  ASSUME NEW c \in RopeCalls, NEW fresh, fresh = Afresh(c)
  PROVE  /\ Ordered(c, Rope!ApartInto(c, fresh)) /\ Rope!ApartInto(c, fresh) # <<>>
         /\ \A name \in RopeNames(c) : Ahead(Rope!ApartInto(c, fresh), "rotate", name)
         /\ \A j \in DOMAIN Rope!ApartInto(c, fresh) : Rope!ApartInto(c, fresh)[j].kind = "rotate"
<1>0. c.two \in BOOLEAN
  BY RopeAssumption
<1>1. PICK a, b : a = Rope!Rotate(<<"q">>, fresh) /\ b = Rope!Rotate(<<"k">>, fresh)
  OBVIOUS
<1>2. PICK ls : ls = Rope!ApartInto(c, fresh)
  OBVIOUS
<1>3. a.kind = "rotate" /\ b.kind = "rotate" /\ \A name : (OfLaunch(a, name) <=> name = "q") /\ (OfLaunch(b, name) <=> name = "k")
  BY <1>1, RotateIs, RotateOne
<1>4. CASE c.two
  <2>1. ls = <<a, b>>
    BY <1>1, <1>2, <1>4 DEF Rope!ApartInto, Rope!Operands
  <2>2. a \in LaunchesOf(c) /\ b \in LaunchesOf(c)
    BY <1>1, <1>4, LaunchesIn DEF RopeNames
  <2>3. ls \in Seq(LaunchesOf(c)) /\ DOMAIN ls = {1, 2} /\ ls[1] = a /\ ls[2] = b /\ ls # <<>>
    BY <2>1, <2>2
  <2>4. Ordered(c, ls)
    BY <1>3, <2>3 DEF Ordered
  <2> QED BY <1>2, <1>3, <2>3, <2>4 DEF Ahead, RopeNames
<1>5. CASE ~c.two
  <2>1. ls = <<a>>
    BY <1>1, <1>2, <1>5 DEF Rope!ApartInto, Rope!Operands
  <2>2. a \in LaunchesOf(c)
    BY <1>1, LaunchesIn DEF RopeNames
  <2>3. Ordered(c, ls)
    BY <2>1, <2>2, OneOrdered
  <2>4. \A name \in RopeNames(c) : name = "q"
    BY <1>5 DEF RopeNames
  <2> QED BY <1>2, <1>3, <2>1, <2>3, <2>4 DEF Ahead
<1> QED BY <1>0, <1>4, <1>5

\* The functional result and its copies: the rotations come first.
LEMMA PlanEager ==
  ASSUME NEW c \in RopeCalls, Afresh(c)
  PROVE  /\ Ordered(c, Rope!EagerRope(c)) /\ Rope!EagerRope(c) # <<>>
         /\ \A name \in RopeNames(c) : /\ Ahead(Rope!EagerRope(c), "rotate", name)
                                       /\ CopiesBack(c) => Ahead(Rope!EagerRope(c), "copy", name)
<1>0. c.two \in BOOLEAN /\ c.inplace \in BOOLEAN
  BY RopeAssumption
<1>1. PICK rs : rs = Rope!ApartInto(c, TRUE)
  OBVIOUS
<1>2. TRUE = Afresh(c)
  BY <1>0 DEF Afresh
<1>3. /\ Ordered(c, rs) /\ rs # <<>> /\ \A name \in RopeNames(c) : Ahead(rs, "rotate", name)
      /\ \A j \in DOMAIN rs : rs[j].kind = "rotate"
  BY <1>1, <1>2, PlanApart
<1>4. PICK es : es = Rope!EagerRope(c)
  OBVIOUS
<1>5. CASE ~c.inplace
  <2>1. es = rs \o <<>>
    BY <1>1, <1>4, <1>5 DEF Rope!EagerRope
  <2>2. es = rs
    BY <1>3, <2>1, ConcatEmptySeq DEF Ordered
  <2> QED BY <1>3, <1>4, <1>5, <2>2 DEF CopiesBack
<1>6. CASE c.inplace
  <2>0. CopiesBack(c)
    BY <1>6 DEF CopiesBack
  <2>1. PICK cs : cs = [j \in DOMAIN Rope!Operands(c) |-> Rope!Copy(Rope!Operands(c)[j])]
    OBVIOUS
  <2>2. es = rs \o cs
    BY <1>1, <1>4, <1>6, <2>1 DEF Rope!EagerRope
  <2>3. PICK a, b : a = Rope!Copy("q") /\ b = Rope!Copy("k")
    OBVIOUS
  <2>4. a.kind = "copy" /\ b.kind = "copy" /\ \A name : (OfLaunch(a, name) <=> name = "q") /\ (OfLaunch(b, name) <=> name = "k")
    BY <2>3, CopyIs
  <2>5. /\ cs \in Seq(LaunchesOf(c)) /\ \A j \in DOMAIN cs : cs[j].kind = "copy"
        /\ \A j, k \in DOMAIN cs : \A name : OfLaunch(cs[j], name) /\ OfLaunch(cs[k], name) => j = k
        /\ \A name \in RopeNames(c) : \E j \in DOMAIN cs : OfLaunch(cs[j], name)
    <3>1. CASE c.two
      <4>1. cs = <<a, b>>
        BY <2>1, <2>3, <3>1 DEF Rope!Operands
      <4>2. a \in LaunchesOf(c) /\ b \in LaunchesOf(c)
        BY <2>0, <2>3, <3>1, LaunchesIn DEF RopeNames
      <4>3. cs \in Seq(LaunchesOf(c)) /\ DOMAIN cs = {1, 2} /\ cs[1] = a /\ cs[2] = b
        BY <4>1, <4>2
      <4> QED BY <2>4, <4>3 DEF RopeNames
    <3>2. CASE ~c.two
      <4>1. cs = <<a>>
        BY <2>1, <2>3, <3>2 DEF Rope!Operands
      <4>2. a \in LaunchesOf(c)
        BY <2>0, <2>3, LaunchesIn DEF RopeNames
      <4>3. cs \in Seq(LaunchesOf(c)) /\ DOMAIN cs = {1} /\ cs[1] = a
        BY <4>1, <4>2
      <4>4. \A name \in RopeNames(c) : name = "q"
        BY <3>2 DEF RopeNames
      <4> QED BY <2>4, <4>3, <4>4
    <3> QED BY <1>0, <3>1, <3>2
  <2>6. rs \in Seq(LaunchesOf(c))
    BY <1>3 DEF Ordered
  <2>7. PICK l, m : l = Len(rs) /\ m = Len(cs)
    OBVIOUS
  <2>8. l \in Nat /\ m \in Nat /\ DOMAIN rs = 1 .. l /\ DOMAIN cs = 1 .. m
    BY <2>5, <2>6, <2>7, LenProperties
  <2>9. /\ es \in Seq(LaunchesOf(c)) /\ Len(es) = l + m
        /\ \A j \in 1 .. l + m : es[j] = IF j <= l THEN rs[j] ELSE cs[j - l]
    BY <2>2, <2>5, <2>6, <2>7, ConcatProperties
  <2>10. DOMAIN es = 1 .. l + m
    BY <2>9, LenProperties
  <2>11. ASSUME NEW j \in 1 .. l + m
         PROVE  \/ j \in 1 .. l /\ es[j] = rs[j] /\ es[j].kind = "rotate"
                \/ j - l \in 1 .. m /\ es[j] = cs[j - l] /\ es[j].kind = "copy" /\ ~(j <= l)
    <3>1. CASE j <= l
      <4>1. j \in 1 .. l
        BY <2>8, <3>1
      <4> QED BY <1>3, <2>8, <2>9, <3>1, <4>1
    <3>2. CASE ~(j <= l)
      <4>1. j - l \in 1 .. m
        BY <2>8, <3>2
      <4> QED BY <2>5, <2>8, <2>9, <3>2, <4>1
    <3> QED BY <3>1, <3>2
  <2>12. \A j \in 1 .. l : j \in 1 .. l + m /\ es[j] = rs[j]
    BY <2>8, <2>9
  <2>13. \A j \in 1 .. m : j + l \in 1 .. l + m /\ es[j + l] = cs[j]
    <3> TAKE j \in 1 .. m
    <3>1. j + l \in 1 .. l + m /\ ~(j + l <= l) /\ (j + l) - l = j
      BY <2>8
    <3> QED BY <2>9, <3>1
  <2>14. ASSUME NEW j \in 1 .. l + m, NEW k \in 1 .. l + m, j # k, es[j].kind = es[k].kind, NEW name,
                OfLaunch(es[j], name), OfLaunch(es[k], name)
         PROVE  FALSE
    <3>1. CASE j \in 1 .. l /\ es[j] = rs[j] /\ es[j].kind = "rotate"
      <4>1. k \in 1 .. l /\ es[k] = rs[k]
        BY <2>11, <2>14, <3>1
      <4> QED BY <1>3, <2>8, <2>14, <3>1, <4>1 DEF Ordered
    <3>2. CASE j - l \in 1 .. m /\ es[j] = cs[j - l] /\ es[j].kind = "copy"
      <4>1. k - l \in 1 .. m /\ es[k] = cs[k - l]
        BY <2>11, <2>14, <3>2
      <4>2. j - l = k - l
        BY <2>5, <2>8, <2>14, <3>2, <4>1
      <4> QED BY <2>8, <2>14, <4>2
    <3> QED BY <2>11, <3>1, <3>2
  <2>15. ASSUME NEW j \in 1 .. l + m, NEW k \in 1 .. l + m, j < k, es[j].kind = "copy" PROVE es[k].kind = "copy"
    <3>1. ~(j <= l)
      BY <2>11, <2>15
    <3>2. ~(k <= l)
      BY <2>8, <2>15, <3>1
    <3> QED BY <2>8, <2>11, <3>2
  <2>16. Ordered(c, es)
    BY <2>9, <2>10, <2>14, <2>15 DEF Ordered
  <2>17. es # <<>>
    <3>1. l # 0
      BY <1>3, <2>6, <2>7, EmptySeq
    <3>2. Len(es) # 0
      BY <2>8, <2>9, <3>1
    <3> QED BY <3>2
  <2>18. \A name \in RopeNames(c) : Ahead(es, "rotate", name)
    BY <1>3, <2>8, <2>10, <2>12 DEF Ahead
  <2>19. \A name \in RopeNames(c) : Ahead(es, "copy", name)
    BY <2>5, <2>8, <2>10, <2>13 DEF Ahead
  <2> QED BY <1>4, <2>16, <2>17, <2>18, <2>19
<1> QED BY <1>0, <1>5, <1>6

\* The plan of a call rotates every operand, and copies it back when the rotations went elsewhere.
LEMMA PlanOrdered ==
  ASSUME NEW c \in RopeCalls
  PROVE  /\ Ordered(c, Rope!Plan(c)) /\ Rope!Plan(c) # <<>>
         /\ \A name \in RopeNames(c) : /\ Ahead(Rope!Plan(c), "rotate", name)
                                       /\ CopiesBack(c) => Ahead(Rope!Plan(c), "copy", name)
<1>1. CASE Rope!Plan(c) = Rope!EagerRope(c) /\ Afresh(c)
  BY <1>1, PlanEager
<1>2. CASE Afresh(c) = ~c.inplace
  <2>1. ~CopiesBack(c)
    BY <1>2, RopeAssumption DEF CopiesBack
  <2>2. CASE Rope!Plan(c) = Rope!Joint(c) /\ (c.two => c.q.sh = c.k.sh)
    BY <1>2, <2>1, <2>2, PlanJoint
  <2>3. CASE Rope!Plan(c) = Rope!Apart(c)
    <3>1. Rope!Plan(c) = Rope!ApartInto(c, ~c.inplace)
      BY <2>3 DEF Rope!Apart
    <3>2. PICK fresh : fresh = ~c.inplace
      OBVIOUS
    <3> QED BY <1>2, <2>1, <3>1, <3>2, PlanApart
  <2>4. CASE Rope!Plan(c) = Rope!EagerRope(c) /\ Afresh(c)
    BY <2>4, PlanEager
  <2> QED BY <2>2, <2>3, <2>4, PlansOf
<1> QED BY <1>1, <1>2, PlansOf

\* What is left after the first job.
LEMMA LaunchesTail ==
  ASSUME NEW c, NEW ls, Ordered(c, ls), ls # <<>>
  PROVE  /\ Head(ls) \in LaunchesOf(c) /\ Ordered(c, Tail(ls))
         /\ \A kind, name : Ahead(ls, kind, name) <=>
              (Head(ls).kind = kind /\ OfLaunch(Head(ls), name)) \/ Ahead(Tail(ls), kind, name)
         /\ \A kind, name : ~(/\ Head(ls).kind = kind /\ OfLaunch(Head(ls), name)
                              /\ Ahead(Tail(ls), kind, name))
         /\ Head(ls).kind = "copy" => \A name : ~Ahead(ls, "rotate", name)
<1>1. ls \in Seq(LaunchesOf(c))
  BY DEF Ordered
<1>2. PICK t, l, m : t = Tail(ls) /\ l = Len(ls) /\ m = Len(t)
  OBVIOUS
<1>3. Head(ls) = ls[1]
  BY <1>1
<1>4. t \in Seq(LaunchesOf(c)) /\ m = l - 1 /\ l \in Nat /\ l >= 1 /\ DOMAIN ls = 1 .. l /\ DOMAIN t = 1 .. m
      /\ \A j \in 1 .. m : t[j] = ls[j + 1]
  <2>1. t \in Seq(LaunchesOf(c)) /\ m = l - 1 /\ \A j \in 1 .. m : t[j] = ls[j + 1]
    BY <1>1, <1>2, HeadTailProperties
  <2>2. l \in Nat /\ l # 0
    BY <1>1, <1>2, EmptySeq
  <2>3. DOMAIN ls = 1 .. l /\ DOMAIN t = 1 .. m
    BY <1>1, <1>2, <2>1, LenProperties
  <2> QED BY <2>1, <2>2, <2>3
<1>5. ls[1] \in LaunchesOf(c)
  BY <1>1, <1>2, <1>4, ElementOfSeq
<1>6. \A j \in 1 .. m : j + 1 \in 1 .. l /\ j + 1 # 1 /\ 1 < j + 1
  BY <1>4
<1>7. 1 \in 1 .. l
  BY <1>4
<1>8. \A j \in 1 .. l : j = 1 \/ (j - 1 \in 1 .. m /\ t[j - 1] = ls[j])
  <2> SUFFICES ASSUME NEW j \in 1 .. l, j # 1 PROVE j - 1 \in 1 .. m /\ t[j - 1] = ls[j]
    OBVIOUS
  <2>1. j - 1 \in 1 .. m /\ (j - 1) + 1 = j
    BY <1>4
  <2> QED BY <1>4, <2>1
<1>9. Ordered(c, t)
  <2>1. ASSUME NEW j \in 1 .. m, NEW k \in 1 .. m, j # k, t[j].kind = t[k].kind, NEW name
        PROVE  ~(OfLaunch(t[j], name) /\ OfLaunch(t[k], name))
    <3>1. j + 1 \in 1 .. l /\ k + 1 \in 1 .. l /\ j + 1 # k + 1 /\ t[j] = ls[j + 1] /\ t[k] = ls[k + 1]
      BY <1>4, <1>6, <2>1
    <3> QED BY <1>4, <2>1, <3>1 DEF Ordered
  <2>2. ASSUME NEW j \in 1 .. m, NEW k \in 1 .. m, j < k, t[j].kind = "copy" PROVE t[k].kind = "copy"
    <3>1. j + 1 \in 1 .. l /\ k + 1 \in 1 .. l /\ j + 1 < k + 1 /\ t[j] = ls[j + 1] /\ t[k] = ls[k + 1]
      BY <1>4, <1>6, <2>2
    <3> QED BY <1>4, <2>2, <3>1 DEF Ordered
  <2> QED BY <1>4, <2>1, <2>2 DEF Ordered
<1>10. \A kind, name : Ahead(ls, kind, name) <=> (ls[1].kind = kind /\ OfLaunch(ls[1], name)) \/ Ahead(t, kind, name)
  <2> TAKE kind, name
  <2>1. ASSUME Ahead(t, kind, name) PROVE Ahead(ls, kind, name)
    <3>1. PICK j \in 1 .. m : t[j].kind = kind /\ OfLaunch(t[j], name)
      BY <1>4, <2>1 DEF Ahead
    <3>2. j + 1 \in 1 .. l /\ t[j] = ls[j + 1]
      BY <1>4, <1>6
    <3> QED BY <1>4, <3>1, <3>2 DEF Ahead
  <2>2. ASSUME Ahead(ls, kind, name) PROVE (ls[1].kind = kind /\ OfLaunch(ls[1], name)) \/ Ahead(t, kind, name)
    <3>1. PICK j \in 1 .. l : ls[j].kind = kind /\ OfLaunch(ls[j], name)
      BY <1>4, <2>2 DEF Ahead
    <3>2. j = 1 \/ (j - 1 \in 1 .. m /\ t[j - 1] = ls[j])
      BY <1>8
    <3> QED BY <1>4, <3>1, <3>2 DEF Ahead
  <2>3. ASSUME ls[1].kind = kind /\ OfLaunch(ls[1], name) PROVE Ahead(ls, kind, name)
    BY <1>4, <1>7, <2>3 DEF Ahead
  <2> QED BY <2>1, <2>2, <2>3
<1>11. \A kind, name : ~(ls[1].kind = kind /\ OfLaunch(ls[1], name) /\ Ahead(t, kind, name))
  BY <1>4, <1>6, <1>7 DEF Ahead, Ordered
<1>12. ls[1].kind = "copy" => \A name : ~Ahead(ls, "rotate", name)
  <2> SUFFICES ASSUME ls[1].kind = "copy", NEW j \in 1 .. l PROVE ls[j].kind # "rotate"
    BY <1>4 DEF Ahead
  <2>1. CASE j = 1
    BY <2>1
  <2>2. CASE j # 1
    <3>1. 1 < j
      BY <1>4, <2>2
    <3>2. ls[j].kind = "copy"
      BY <1>4, <1>7, <3>1 DEF Ordered
    <3> QED BY <3>2
  <2> QED BY <2>1, <2>2
<1> QED BY <1>2, <1>3, <1>5, <1>9, <1>10, <1>11, <1>12

-----------------------------------------------------------------------------
(* What a thread does. *)

\* u is s and then t.
Joined(s, t, u) ==
  /\ Len(u) = Len(s) + Len(t)
  /\ \A j \in 1 .. Len(s) + Len(t) : u[j] = IF j <= Len(s) THEN s[j] ELSE t[j - Len(s)]

\* A sequence that reads as one and then another is their concatenation.
LEMMA ConcatIs ==
  ASSUME NEW S, NEW s \in Seq(S), NEW t \in Seq(S), NEW u \in Seq(S), Joined(s, t, u)
  PROVE  s \o t = u
<1>1. PICK w : w = s \o t
  OBVIOUS
<1>2. /\ w \in Seq(S) /\ Len(w) = Len(s) + Len(t)
      /\ \A j \in 1 .. Len(s) + Len(t) : w[j] = IF j <= Len(s) THEN s[j] ELSE t[j - Len(s)]
  BY <1>1, ConcatProperties
<1>3. Len(w) = Len(u) /\ \A j \in 1 .. Len(w) : w[j] = u[j]
  BY <1>2 DEF Joined
<1>4. w = u
  BY <1>2, <1>3, SeqEqual
<1> QED BY <1>1, <1>4

\* Concatenations of the short lists of operations.
LEMMA OneAndOne ==
  ASSUME NEW a, NEW b
  PROVE  <<a>> \o <<b>> = <<a, b>>
<1> DEFINE S == {a, b}
<1>1. PICK s, t, u : s = <<a>> /\ t = <<b>> /\ u = <<a, b>>
  OBVIOUS
<1>2. s \in Seq(S) /\ t \in Seq(S) /\ u \in Seq(S)
  BY <1>1
<1>3. Len(s) = 1 /\ Len(t) = 1 /\ Len(u) = 2
  BY <1>1
<1>4. /\ s[1] = a
      /\ t[1] = b
      /\ u[1] = a /\ u[2] = b
  BY <1>1
<1>5. Joined(s, t, u)
  BY <1>3, <1>4 DEF Joined
<1> HIDE DEF S
<1>6. s \o t = u
  BY ONLY <1>2, <1>5, ConcatIs
<1> QED BY <1>1, <1>6

\* As OneAndOne.
LEMMA OneAndTwo ==
  ASSUME NEW a, NEW b, NEW c
  PROVE  <<a>> \o <<b, c>> = <<a, b, c>>
<1> DEFINE S == {a, b, c}
<1>1. PICK s, t, u : s = <<a>> /\ t = <<b, c>> /\ u = <<a, b, c>>
  OBVIOUS
<1>2. s \in Seq(S) /\ t \in Seq(S) /\ u \in Seq(S)
  BY <1>1
<1>3. Len(s) = 1 /\ Len(t) = 2 /\ Len(u) = 3
  BY <1>1
<1>4. /\ s[1] = a
      /\ t[1] = b /\ t[2] = c
      /\ u[1] = a /\ u[2] = b /\ u[3] = c
  BY <1>1
<1>5. Joined(s, t, u)
  BY <1>3, <1>4 DEF Joined
<1> HIDE DEF S
<1>6. s \o t = u
  BY ONLY <1>2, <1>5, ConcatIs
<1> QED BY <1>1, <1>6

\* As OneAndOne.
LEMMA TwoAndTwo ==
  ASSUME NEW a, NEW b, NEW c, NEW d
  PROVE  <<a, b>> \o <<c, d>> = <<a, b, c, d>>
<1> DEFINE S == {a, b, c, d}
<1>1. PICK s, t, u : s = <<a, b>> /\ t = <<c, d>> /\ u = <<a, b, c, d>>
  OBVIOUS
<1>2. s \in Seq(S) /\ t \in Seq(S) /\ u \in Seq(S)
  BY <1>1
<1>3. Len(s) = 2 /\ Len(t) = 2 /\ Len(u) = 4
  BY <1>1
<1>4. /\ s[1] = a /\ s[2] = b
      /\ t[1] = c /\ t[2] = d
      /\ u[1] = a /\ u[2] = b /\ u[3] = c /\ u[4] = d
  BY <1>1
<1>5. Joined(s, t, u)
  BY <1>3, <1>4 DEF Joined
<1> HIDE DEF S
<1>6. s \o t = u
  BY ONLY <1>2, <1>5, ConcatIs
<1> QED BY <1>1, <1>6

\* As OneAndOne.
LEMMA TwoAndFour ==
  ASSUME NEW a, NEW b, NEW c, NEW d, NEW x, NEW y
  PROVE  <<a, b>> \o <<c, d, x, y>> = <<a, b, c, d, x, y>>
<1> DEFINE S == {a, b, c, d, x, y}
<1>1. PICK s, t, u : s = <<a, b>> /\ t = <<c, d, x, y>> /\ u = <<a, b, c, d, x, y>>
  OBVIOUS
<1>2. s \in Seq(S) /\ t \in Seq(S) /\ u \in Seq(S)
  BY <1>1
<1>3. Len(s) = 2 /\ Len(t) = 4 /\ Len(u) = 6
  BY <1>1
<1>4. /\ s[1] = a /\ s[2] = b
      /\ t[1] = c /\ t[2] = d /\ t[3] = x /\ t[4] = y
      /\ u[1] = a /\ u[2] = b /\ u[3] = c /\ u[4] = d /\ u[5] = x /\ u[6] = y
  BY <1>1
<1>5. Joined(s, t, u)
  BY <1>3, <1>4 DEF Joined
<1> HIDE DEF S
<1>6. s \o t = u
  BY ONLY <1>2, <1>5, ConcatIs
<1> QED BY <1>1, <1>6

\* What a thread does for a job, of which the first s operations are sums: all of an
\* operand's operations come before the last, which writes its elements or copies them.
Final(job) == IF job.kind = "copy" THEN "copy" ELSE "write"
InTurn(job, ops, s) ==
  /\ Len(ops) \in Nat /\ DOMAIN ops = 1 .. Len(ops) /\ s \in 0 .. Len(ops)
  /\ Rope!Cardinality({j \in DOMAIN ops : ops[j][1] = "sum"}) = s
  /\ \A j \in 1 .. Len(ops) : /\ ops[j][1] = "sum" <=> j <= s
                              /\ OfLaunch(job, ops[j][2])
                              /\ ops[j][1] \in IF job.kind = "copy" THEN {"copy"} ELSE {"sum", "read", "write"}
  /\ \A name : OfLaunch(job, name) =>
       \E j \in 1 .. Len(ops) : ops[j][1] = Final(job) /\ ops[j][2] = name
  /\ \A j, k \in 1 .. Len(ops) : ops[j][1] = Final(job) /\ ops[k][2] = ops[j][2] => k <= j

\* Cardinality, as RopeInPlace has it, of the first operations.
LEMMA RopeCounts ==
  ASSUME NEW s \in Nat
  PROVE  Rope!Cardinality(1 .. s) = s
<1>1. Rope!Cardinality(1 .. s) = Cardinality(1 .. s)
  BY DEF Rope!Cardinality, Cardinality
<1> QED BY <1>1, FS_Interval

\* A copy is one operation.
LEMMA CopyInTurn ==
  ASSUME NEW c, NEW job, job.kind = "copy", NEW name, job.names = <<name>>
  PROVE  InTurn(job, Rope!ThreadOps(c, job), 0)
<1>1. PICK ops : ops = Rope!ThreadOps(c, job)
  OBVIOUS
<1>2. ops = <<<<"copy", name>>>>
  BY <1>1 DEF Rope!ThreadOps
<1>3. Len(ops) = 1 /\ DOMAIN ops = 1 .. 1 /\ ops[1][1] = "copy" /\ ops[1][2] = name
  BY <1>2
<1>4. {j \in DOMAIN ops : ops[j][1] = "sum"} = 1 .. 0
  BY <1>3
<1>5. Rope!Cardinality({j \in DOMAIN ops : ops[j][1] = "sum"}) = 0
  BY <1>4, RopeCounts
<1>6. \A o : OfLaunch(job, o) <=> o = name
  BY DEF OfLaunch
<1> QED BY <1>1, <1>3, <1>5, <1>6 DEF InTurn, Final

\* A rotation sums, reads and writes in that order for each operand, whichever backend it is of.
LEMMA RotateInTurn ==
  ASSUME NEW c \in RopeCalls, NEW job, job.kind = "rotate", NEW a \in {"q", "k"}, NEW b \in {"q", "k"},
         job.names = <<a>> \/ (a # b /\ job.names = <<a, b>>)
  PROVE  \E s : InTurn(job, Rope!ThreadOps(c, job), s)
<1>0. c.rms \in BOOLEAN
  BY RopeAssumption
<1> DEFINE S == {"sum", "read", "write"} \X {"q", "k"}
<1>1. PICK ops : ops = Rope!ThreadOps(c, job)
  OBVIOUS
<1>2. PICK sa, sb, ra, rb, wa, wb : /\ sa = <<"sum", a>> /\ sb = <<"sum", b>> /\ ra = <<"read", a>>
                                    /\ rb = <<"read", b>> /\ wa = <<"write", a>> /\ wb = <<"write", b>>
  OBVIOUS
<1>3. {sa, sb, ra, rb, wa, wb} \subseteq S
  BY <1>2
<1>4. /\ sa[1] = "sum" /\ sb[1] = "sum" /\ ra[1] = "read" /\ rb[1] = "read" /\ wa[1] = "write" /\ wb[1] = "write"
      /\ sa[2] = a /\ ra[2] = a /\ wa[2] = a /\ sb[2] = b /\ rb[2] = b /\ wb[2] = b
  BY <1>2
<1>5. CASE job.names = <<a>>
  <2>1. ops = (IF c.rms THEN <<sa>> ELSE <<>>) \o <<ra, wa>>
    <3>1. /\ [j \in DOMAIN job.names |-> <<"sum", job.names[j]>>] = <<sa>>
          /\ [j \in DOMAIN job.names |-> <<"read", job.names[j]>>] = <<ra>>
          /\ [j \in DOMAIN job.names |-> <<"write", job.names[j]>>] = <<wa>>
      BY <1>2, <1>5
    <3>2. Len(job.names) = 1 /\ job.names[1] = a
      BY <1>5
    <3>3. <<ra>> \o <<wa>> = <<ra, wa>>
      BY OneAndOne
    <3> QED BY <1>1, <1>2, <3>1, <3>2, <3>3 DEF Rope!ThreadOps
  <2>2. \A o : OfLaunch(job, o) <=> o = a
    BY <1>5 DEF OfLaunch
  <2>3. CASE c.rms
    <3>1. ops = <<sa, ra, wa>>
      BY <2>1, <2>3, OneAndTwo
    <3>2. Len(ops) = 3 /\ DOMAIN ops = 1 .. 3 /\ ops[1] = sa /\ ops[2] = ra /\ ops[3] = wa
      BY <3>1
    <3>3. {j \in DOMAIN ops : ops[j][1] = "sum"} = 1 .. 1
      BY <1>4, <3>2
    <3>4. Rope!Cardinality({j \in DOMAIN ops : ops[j][1] = "sum"}) = 1
      BY <3>3, RopeCounts
    <3>5. InTurn(job, ops, 1)
      BY <1>4, <2>2, <3>2, <3>4 DEF InTurn, Final
    <3> QED BY <1>1, <3>5
  <2>4. CASE ~c.rms
    <3>1. ops = <<ra, wa>>
      BY <2>1, <2>4
    <3>2. Len(ops) = 2 /\ DOMAIN ops = 1 .. 2 /\ ops[1] = ra /\ ops[2] = wa
      BY <3>1
    <3>3. {j \in DOMAIN ops : ops[j][1] = "sum"} = 1 .. 0
      BY <1>4, <3>2
    <3>4. Rope!Cardinality({j \in DOMAIN ops : ops[j][1] = "sum"}) = 0
      BY <3>3, RopeCounts
    <3>5. InTurn(job, ops, 0)
      BY <1>4, <2>2, <3>2, <3>4 DEF InTurn, Final
    <3> QED BY <1>1, <3>5
  <2> QED BY <1>0, <2>3, <2>4
<1>6. CASE a # b /\ job.names = <<a, b>>
  <2>1. PICK x, y, z : /\ x = IF c.backend # "triton" THEN rb ELSE wa
                       /\ y = IF c.backend # "triton" THEN wa ELSE rb
                       /\ z = <<ra, x, y, wb>>
    OBVIOUS
  <2>2. ops = (IF c.rms THEN <<sa, sb>> ELSE <<>>) \o z
    <3>1. /\ [j \in DOMAIN job.names |-> <<"sum", job.names[j]>>] = <<sa, sb>>
          /\ [j \in DOMAIN job.names |-> <<"read", job.names[j]>>] = <<ra, rb>>
          /\ [j \in DOMAIN job.names |-> <<"write", job.names[j]>>] = <<wa, wb>>
      BY <1>2, <1>6
    <3>2. Len(job.names) = 2 /\ job.names[1] = a /\ job.names[2] = b
      BY <1>6
    <3>3. <<ra, rb>> \o <<wa, wb>> = <<ra, rb, wa, wb>> /\ <<ra, wa>> \o <<rb, wb>> = <<ra, wa, rb, wb>>
      BY TwoAndTwo
    <3>4. ops = (IF c.rms THEN [j \in DOMAIN job.names |-> <<"sum", job.names[j]>>] ELSE <<>>)
                  \o (IF c.backend # "triton"
                      THEN [j \in DOMAIN job.names |-> <<"read", job.names[j]>>]
                             \o [j \in DOMAIN job.names |-> <<"write", job.names[j]>>]
                      ELSE <<ra, wa>> \o <<rb, wb>>)
      <4> HIDE <1>6
      <4> QED BY <1>1, <1>2, <3>2 DEF Rope!ThreadOps
    <3>5. z = IF c.backend # "triton" THEN <<ra, rb>> \o <<wa, wb>> ELSE <<ra, wa>> \o <<rb, wb>>
      BY <2>1, <3>3
    <3> QED BY <3>1, <3>4, <3>5
  <2>3. \A o : OfLaunch(job, o) <=> o \in {a, b}
    <3>1. PICK names : names = job.names
      OBVIOUS
    <3>2. DOMAIN names = {1, 2} /\ names[1] = a /\ names[2] = b
      BY <1>6, <3>1
    <3> QED BY <3>1, <3>2 DEF OfLaunch
  <2>4. \/ x[1] = "read" /\ x[2] = b /\ y[1] = "write" /\ y[2] = a
        \/ x[1] = "write" /\ x[2] = a /\ y[1] = "read" /\ y[2] = b
    BY <1>4, <2>1
  <2>5. x \in S /\ y \in S
    BY <1>3, <2>1
  <2>6. CASE c.rms
    <3>1. ops = <<sa, sb, ra, x, y, wb>>
      <4>1. <<sa, sb>> \o <<ra, x, y, wb>> = <<sa, sb, ra, x, y, wb>>
        BY TwoAndFour
      <4> QED BY <2>1, <2>2, <2>6, <4>1
    <3>2. /\ Len(ops) = 6 /\ DOMAIN ops = 1 .. 6
          /\ ops[1] = sa /\ ops[2] = sb /\ ops[3] = ra /\ ops[4] = x /\ ops[5] = y /\ ops[6] = wb
      BY <3>1
    <3>3. {j \in DOMAIN ops : ops[j][1] = "sum"} = 1 .. 2
      BY <1>4, <2>4, <3>2
    <3>4. Rope!Cardinality({j \in DOMAIN ops : ops[j][1] = "sum"}) = 2
      BY <3>3, RopeCounts
    <3>5. InTurn(job, ops, 2)
      BY <1>4, <1>6, <2>3, <2>4, <3>2, <3>4 DEF InTurn, Final
    <3> QED BY <1>1, <3>5
  <2>7. CASE ~c.rms
    <3>1. ops = <<ra, x, y, wb>>
      BY <2>1, <2>2, <2>7
    <3>2. Len(ops) = 4 /\ DOMAIN ops = 1 .. 4 /\ ops[1] = ra /\ ops[2] = x /\ ops[3] = y /\ ops[4] = wb
      BY <3>1
    <3>3. {j \in DOMAIN ops : ops[j][1] = "sum"} = 1 .. 0
      BY <1>4, <2>4, <3>2
    <3>4. Rope!Cardinality({j \in DOMAIN ops : ops[j][1] = "sum"}) = 0
      BY <3>3, RopeCounts
    <3>5. InTurn(job, ops, 0)
      BY <1>4, <1>6, <2>3, <2>4, <3>2, <3>4 DEF InTurn, Final
    <3> QED BY <1>1, <3>5
  <2> QED BY <1>0, <2>6, <2>7
<1> QED BY <1>5, <1>6

\* What a thread does for any launch is in turn.
LEMMA LaunchInTurn ==
  ASSUME NEW c \in RopeCalls, NEW job \in LaunchesOf(c)
  PROVE  \E s : InTurn(job, Rope!ThreadOps(c, job), s)
<1>1. CASE \E names \in NameLists(c) : job = Rope!Rotate(names, Afresh(c))
  <2>1. PICK names \in NameLists(c) : job = Rope!Rotate(names, Afresh(c))
    BY <1>1
  <2>2. job.kind = "rotate" /\ job.names = names
    BY <2>1, RotateIs
  <2>3. names = <<"q">> \/ names = <<"k">> \/ names = <<"q", "k">>
    BY DEF NameLists, RopeNames
  <2> QED BY <2>2, <2>3, RotateInTurn
<1>2. CASE \E name \in RopeNames(c) : job = Rope!Copy(name)
  BY <1>2, CopyIs, CopyInTurn
<1> QED BY <1>1, <1>2 DEF LaunchesOf

-----------------------------------------------------------------------------
(* The threads of a job share out its elements. *)

\* The indices are a row of R and a place of W.
RowsAndPlaces(indices, R, W) ==
  /\ \A row \in R, d \in W : Append(row, d) \in indices
  /\ \A i \in indices : \E row \in R, d \in W : i = Append(row, d)
  /\ \A row, other \in R, d, o \in W : Append(row, d) = Append(other, o) => row = other /\ d = o

\* An index of a shape is an index of its rows and a place in the last dimension.
LEMMA RowsOf ==
  ASSUME NEW sh \in Seq(0 .. MaxExtent), sh # <<>>
  PROVE  RowsAndPlaces(Rope!Indices(sh), Rope!Indices(Rope!Front(sh)), 0 .. Rope!Last(sh) - 1)
<1> DEFINE S == 0 .. MaxExtent - 1
<1>0. MaxExtent \in Nat
  BY RopeAssumption
<1>1. PICK m, front : m = Len(sh) /\ front = Rope!Front(sh)
  OBVIOUS
<1>2. m \in Nat /\ m >= 1 /\ DOMAIN sh = 1 .. m /\ sh \in [1 .. m -> 0 .. MaxExtent]
  <2>1. Len(sh) \in Nat \ {0}
    BY EmptySeq
  <2>2. DOMAIN sh = 1 .. Len(sh) /\ sh \in [1 .. Len(sh) -> 0 .. MaxExtent]
    BY LenProperties
  <2> QED BY <1>1, <2>1, <2>2
<1>3. front = SubSeq(sh, 1, m - 1)
  BY <1>1 DEF Rope!Front
<1>4. Len(front) = m - 1 /\ DOMAIN front = 1 .. m - 1 /\ \A d \in 1 .. m - 1 : front[d] = sh[d]
  <2>1. \A d \in 1 .. m - 1 : sh[d] \in 0 .. MaxExtent
    BY <1>2
  <2>2. /\ front \in Seq(0 .. MaxExtent) /\ Len(front) = IF 1 <= m - 1 THEN m - 1 - 1 + 1 ELSE 0
        /\ \A d \in 1 .. m - 1 - 1 + 1 : front[d] = sh[1 + d - 1]
    <3>1. m - 1 \in Int /\ 1 \in Int
      BY <1>2
    <3> QED BY <1>3, <2>1, <3>1, SubSeqProperties
  <2>3. Len(front) = m - 1
    BY <1>2, <2>2
  <2>4. \A d \in 1 .. m - 1 : d \in 1 .. m - 1 - 1 + 1 /\ 1 + d - 1 = d
    BY <1>2
  <2> QED BY <2>2, <2>3, <2>4, LenProperties
<1>5. Rope!Last(sh) = sh[m]
  BY <1>1 DEF Rope!Last
<1>6. /\ Rope!Indices(sh) = {i \in [1 .. m -> S] : \A d \in 1 .. m : i[d] < sh[d]}
      /\ Rope!Indices(front) = {i \in [1 .. m - 1 -> S] : \A d \in 1 .. m - 1 : i[d] < sh[d]}
  <2>1. Rope!Indices(sh) = {i \in [1 .. m -> S] : \A d \in 1 .. m : i[d] < sh[d]}
    BY <1>1, <1>2 DEF Rope!Indices
  <2>2. Rope!Indices(front) = {i \in [1 .. m - 1 -> S] : \A d \in 1 .. m - 1 : i[d] < front[d]}
    BY <1>4 DEF Rope!Indices
  <2> QED BY <1>4, <2>1, <2>2
<1>7. \A row \in Rope!Indices(front) : row \in Seq(S) /\ Len(row) = m - 1
  <2> SUFFICES ASSUME NEW row \in [1 .. m - 1 -> S] PROVE row \in Seq(S) /\ Len(row) = m - 1
    BY <1>6
  <2>1. m - 1 \in Nat
    BY <1>2
  <2> HIDE DEF S
  <2> QED BY <2>1
<1>8. \A d \in 0 .. sh[m] - 1 : d \in S
  BY <1>0, <1>2
<1>9. ASSUME NEW row \in Rope!Indices(front), NEW d \in 0 .. sh[m] - 1
      PROVE  Append(row, d) \in Rope!Indices(sh)
  <2>1. PICK i : i = Append(row, d)
    OBVIOUS
  <2>2. i \in Seq(S) /\ Len(i) = m /\ (\A j \in 1 .. m - 1 : i[j] = row[j]) /\ i[m] = d
    <3>1. row \in Seq(S) /\ d \in S /\ Len(row) = m - 1
      BY <1>7, <1>8
    <3> HIDE DEF S
    <3>2. i \in Seq(S) /\ Len(i) = Len(row) + 1 /\ (\A j \in 1 .. Len(row) : i[j] = row[j]) /\ i[Len(row) + 1] = d
      BY <2>1, <3>1, AppendProperties
    <3>3. Len(row) + 1 = m
      BY <1>2, <3>1
    <3> QED BY <3>1, <3>2, <3>3
  <2>3. i \in [1 .. m -> S]
    <3> HIDE DEF S
    <3> QED BY <2>2, LenProperties
  <2>4. \A j \in 1 .. m : i[j] < sh[j]
    <3>1. \A j \in 1 .. m : j = m \/ j \in 1 .. m - 1
      BY <1>2
    <3>2. d < sh[m]
      BY <1>2
    <3> QED BY <1>6, <2>2, <3>1, <3>2
  <2> QED BY <1>6, <2>1, <2>3, <2>4
<1>10. ASSUME NEW i \in Rope!Indices(sh)
       PROVE  \E row \in Rope!Indices(front), d \in 0 .. sh[m] - 1 : i = Append(row, d)
  <2>1. i \in [1 .. m -> S] /\ \A j \in 1 .. m : i[j] < sh[j]
    BY <1>6
  <2>2. PICK row : row = [j \in 1 .. m - 1 |-> i[j]]
    OBVIOUS
  <2>3. PICK d : d = i[m]
    OBVIOUS
  <2>4. row \in [1 .. m - 1 -> S] /\ \A j \in 1 .. m - 1 : row[j] < sh[j] /\ row[j] = i[j]
    <3>1. \A j \in 1 .. m - 1 : j \in 1 .. m
      BY <1>2
    <3> QED BY <2>1, <2>2, <3>1
  <2>5. row \in Rope!Indices(front)
    BY <1>6, <2>4
  <2>6. d \in 0 .. sh[m] - 1 /\ d \in S
    BY <1>0, <1>2, <2>1, <2>3
  <2>7. i \in Seq(S) /\ Len(i) = m
    <3> HIDE DEF S
    <3> QED BY <1>2, <2>1
  <2>8. PICK a : a = Append(row, d)
    OBVIOUS
  <2>9. a \in Seq(S) /\ Len(a) = m /\ (\A j \in 1 .. m - 1 : a[j] = row[j]) /\ a[m] = d
    <3>1. row \in Seq(S) /\ Len(row) = m - 1
      BY <1>7, <2>5
    <3> HIDE DEF S
    <3>2. a \in Seq(S) /\ Len(a) = Len(row) + 1 /\ (\A j \in 1 .. Len(row) : a[j] = row[j]) /\ a[Len(row) + 1] = d
      BY <2>6, <2>8, <3>1, AppendProperties
    <3>3. Len(row) + 1 = m
      BY <1>2, <3>1
    <3> QED BY <3>1, <3>2, <3>3
  <2>10. \A j \in 1 .. Len(i) : i[j] = a[j]
    <3>1. \A j \in 1 .. m : j = m \/ j \in 1 .. m - 1
      BY <1>2
    <3> QED BY <2>3, <2>4, <2>7, <2>9, <3>1
  <2>11. i = a
    <3> HIDE DEF S
    <3> QED BY <2>7, <2>9, <2>10, SeqEqual
  <2> QED BY <2>5, <2>6, <2>8, <2>11
<1>11. ASSUME NEW row \in Rope!Indices(front), NEW other \in Rope!Indices(front),
              NEW d \in 0 .. sh[m] - 1, NEW o \in 0 .. sh[m] - 1, Append(row, d) = Append(other, o)
       PROVE  row = other /\ d = o
  <2>1. row \in Seq(S) /\ other \in Seq(S) /\ d \in S /\ o \in S
    BY <1>7, <1>8
  <2> HIDE DEF S
  <2> QED BY <1>11, <2>1, AppendInjective
<1>13. front = Rope!Front(sh) /\ sh[m] = Rope!Last(sh)
  BY <1>1, <1>5
<1> HIDE DEF S
<1>14. RowsAndPlaces(Rope!Indices(sh), Rope!Indices(front), 0 .. sh[m] - 1)
  BY <1>9, <1>10, <1>11 DEF RowsAndPlaces
<1> QED BY <1>13, <1>14

\* The elements of a row are dealt to the threads: each to one.
PartsOf(c, job) == IF job.kind = "copy" THEN {0 .. Rope!Last(c.q.sh) - 1} ELSE Rope!Parts(c)

\* The places of a row are dealt to parts: a pair of halves or of neighbours, or one past the rotated part.
LEMMA PartsDealt ==
  ASSUME NEW c \in RopeCalls, NEW job
  PROVE  /\ Rope!Last(c.q.sh) \in Nat
         /\ \A part \in PartsOf(c, job) : part \subseteq 0 .. Rope!Last(c.q.sh) - 1
         /\ \A d \in 0 .. Rope!Last(c.q.sh) - 1 : \E part \in PartsOf(c, job) : d \in part
         /\ \A part, other \in PartsOf(c, job) : \A d \in part : d \in other => part = other
<1>1. PICK w, t, s : w = Rope!Last(c.q.sh) /\ t = c.rot /\ s = c.rot \div 2
  OBVIOUS
<1>2. w \in Nat /\ t \in 0 .. w /\ t % 2 = 0
  <2>1. w = c.q.sh[Len(c.q.sh)]
    BY <1>1 DEF Rope!Last
  <2>2. c.q.sh \in Seq(0 .. MaxExtent) /\ c.q.sh # <<>> /\ MaxExtent \in Nat
    BY RopeAssumption DEF RopeView
  <2>3. Len(c.q.sh) \in Nat \ {0}
    BY <2>2, EmptySeq
  <2>4. c.q.sh[Len(c.q.sh)] \in 0 .. MaxExtent
    <3>1. Len(c.q.sh) \in 1 .. Len(c.q.sh)
      BY <2>3
    <3> QED BY <2>2, <3>1, ElementOfSeq
  <2> QED BY <1>1, <2>1, <2>2, <2>4, RopeAssumption
<1>3. s \in Nat /\ t = s + s
  <2>1. t \in Nat
    BY <1>2
  <2>2. t = 2 * (t \div 2) /\ t \div 2 \in Nat
    BY <1>2, <2>1
  <2> QED BY <1>1, <2>2
<1>4. CASE job.kind = "copy"
  BY <1>1, <1>2, <1>4 DEF PartsOf
<1>5. CASE job.kind # "copy"
  <2> DEFINE Pair(j) == IF c.split THEN {j, j + s} ELSE {2 * j, 2 * j + 1}
  <2>1. \A part : part \in PartsOf(c, job) <=>
          (\E j \in 0 .. s - 1 : part = Pair(j)) \/ (\E d \in t .. w - 1 : part = {d})
    BY <1>1, <1>5 DEF PartsOf, Rope!Parts, Rope!Pairs
  <2>2. \A j \in 0 .. s - 1 : Pair(j) \subseteq 0 .. t - 1
    BY <1>3
  <2>3. \A part \in PartsOf(c, job) : part \subseteq 0 .. w - 1
    <3> SUFFICES ASSUME NEW part \in PartsOf(c, job) PROVE part \subseteq 0 .. w - 1
      OBVIOUS
    <3>1. CASE \E j \in 0 .. s - 1 : part = Pair(j)
      <4>1. part \subseteq 0 .. t - 1
        BY <2>2, <3>1
      <4> QED BY <1>2, <4>1
    <3>2. CASE \E d \in t .. w - 1 : part = {d}
      BY <1>2, <3>2
    <3> QED BY <2>1, <3>1, <3>2
  <2>4. ASSUME NEW d \in 0 .. w - 1 PROVE \E part \in PartsOf(c, job) : d \in part
    <3>1. CASE d >= t
      <4>1. d \in t .. w - 1
        BY <1>2, <3>1
      <4>2. {d} \in PartsOf(c, job)
        BY <2>1, <4>1
      <4> QED BY <4>2
    <3>2. CASE d < t
      <4>1. PICK j \in 0 .. s - 1 : d \in Pair(j)
        <5>1. CASE c.split
          <6>1. CASE d < s
            <7>1. d \in 0 .. s - 1 /\ d \in {d, d + s}
              BY <1>3, <6>1
            <7> QED BY <5>1, <7>1
          <6>2. CASE d >= s
            <7>1. d - s \in 0 .. s - 1 /\ d = (d - s) + s
              BY <1>3, <3>2, <6>2
            <7> QED BY <5>1, <7>1
          <6> QED BY <1>3, <6>1, <6>2
        <5>2. CASE ~c.split
          <6>1. PICK j : j = d \div 2
            OBVIOUS
          <6>2. j \in 0 .. s - 1 /\ (d = 2 * j \/ d = 2 * j + 1)
            BY <1>3, <3>2, <6>1
          <6> QED BY <5>2, <6>2
        <5> QED BY <5>1, <5>2
      <4>2. Pair(j) \in PartsOf(c, job)
        BY <2>1
      <4> QED BY <4>1, <4>2
    <3> QED BY <1>2, <3>1, <3>2
  <2>5. ASSUME NEW part \in PartsOf(c, job), NEW other \in PartsOf(c, job), NEW d \in part, d \in other
        PROVE  part = other
    <3>1. CASE \E j \in 0 .. s - 1 : part = Pair(j)
      <4>1. PICK j \in 0 .. s - 1 : part = Pair(j)
        BY <3>1
      <4>2. d \in 0 .. t - 1
        BY <2>2, <4>1
      <4>3. PICK k \in 0 .. s - 1 : other = Pair(k)
        <5>1. ~\E o \in t .. w - 1 : other = {o}
          BY <1>2, <2>5, <4>2
        <5> QED BY <2>1, <5>1
      <4>4. j = k
        BY <1>3, <2>5, <4>1, <4>3
      <4> QED BY <4>1, <4>3, <4>4
    <3>2. CASE \E o \in t .. w - 1 : part = {o}
      <4>1. d \in t .. w - 1 /\ part = {d}
        BY <3>2
      <4>2. ~\E k \in 0 .. s - 1 : other = Pair(k)
        <5>1. d \notin 0 .. t - 1
          BY <1>2, <4>1
        <5> QED BY <2>2, <2>5, <5>1
      <4>3. PICK o \in t .. w - 1 : other = {o}
        BY <2>1, <4>2
      <4> QED BY <2>5, <4>1, <4>3
    <3> QED BY <2>1, <3>1, <3>2
  <2> QED BY <1>1, <1>2, <2>3, <2>4, <2>5
<1> QED BY <1>4, <1>5

\* A launch is a rotation into what the call writes, or a copy back, of operands of one shape.
LEMMA LaunchShape ==
  ASSUME NEW c \in RopeCalls, NEW job \in LaunchesOf(c)
  PROVE  /\ job.kind \in {"rotate", "copy"}
         /\ job.kind = "rotate" => job.fresh = Afresh(c)
         /\ job.kind = "copy" => job.fresh = TRUE /\ CopiesBack(c)
         /\ \A name : OfLaunch(job, name) =>
              name \in RopeNames(c) /\ c[job.names[1]].sh = c[name].sh
<1>1. CASE \E names \in NameLists(c) : job = Rope!Rotate(names, Afresh(c))
  <2>1. PICK names \in NameLists(c) : job = Rope!Rotate(names, Afresh(c))
    BY <1>1
  <2>2. job.kind = "rotate" /\ job.names = names /\ job.fresh = Afresh(c)
    BY <2>1, RotateIs
  <2>3. CASE \E name \in RopeNames(c) : names = <<name>>
    BY <2>2, <2>3 DEF OfLaunch
  <2>4. CASE c.two /\ c.q.sh = c.k.sh /\ names = <<"q", "k">>
    <3>1. DOMAIN names = {1, 2} /\ names[1] = "q" /\ names[2] = "k"
      BY <2>4
    <3>2. \A name : OfLaunch(job, name) => name \in {"q", "k"}
      BY <2>2, <3>1 DEF OfLaunch
    <3>3. {"q", "k"} \subseteq RopeNames(c) /\ c["q"].sh = c["k"].sh
      BY <2>4 DEF RopeNames
    <3> QED BY <2>2, <3>1, <3>2, <3>3
  <2> QED BY <2>3, <2>4 DEF NameLists
<1>2. CASE CopiesBack(c) /\ \E name \in RopeNames(c) : job = Rope!Copy(name)
  <2>1. PICK name \in RopeNames(c) : job = Rope!Copy(name)
    BY <1>2
  <2>2. job.kind = "copy" /\ job.names = <<name>> /\ job.fresh = TRUE
        /\ \A o : OfLaunch(job, o) <=> o = name
    BY <2>1, CopyIs
  <2> QED BY <1>2, <2>2
<1> QED BY <1>1, <1>2 DEF LaunchesOf

\* The threads of a job share out the elements of each of its operands; W are the places of a row.
Dealt(c, job, name, W) ==
  /\ \A t \in Rope!Threads(c, job) : t.part \subseteq W
  /\ \A t \in Rope!Threads(c, job), d \in W : Rope!At(t, d) \in Rope!Indices(c[name].sh)
  /\ \A i \in Rope!Indices(c[name].sh) :
       \E t \in Rope!Threads(c, job) : \E d \in t.part : i = Rope!At(t, d)
  /\ \A t, u \in Rope!Threads(c, job), d, o \in W : Rope!At(t, d) = Rope!At(u, o) =>
       /\ t.row = u.row /\ d = o
       /\ d \in t.part /\ o \in u.part => t = u

\* Each element of a job's operands belongs to one thread.
LEMMA ThreadsDealt ==
  ASSUME NEW c \in RopeCalls, NEW job \in LaunchesOf(c), NEW name, OfLaunch(job, name),
         NEW W, W = 0 .. Rope!Last(c.q.sh) - 1
  PROVE  Dealt(c, job, name, W)
<1>1. PICK sh : sh = c[name].sh
  OBVIOUS
<1>2. name \in RopeNames(c) /\ c[job.names[1]].sh = sh
  BY <1>1, LaunchShape
<1>3. sh \in Seq(0 .. MaxExtent) /\ sh # <<>>
  BY <1>1, <1>2, CallViews DEF RopeView
<1>4. W = 0 .. Rope!Last(sh) - 1
  BY <1>1, <1>2, RopeAssumption DEF RopeNames, Rope!Last
<1>5. PICK R : R = Rope!Indices(Rope!Front(sh))
  OBVIOUS
<1>6. /\ \A row \in R, d \in W : Append(row, d) \in Rope!Indices(sh)
      /\ \A i \in Rope!Indices(sh) : \E row \in R, d \in W : i = Append(row, d)
      /\ \A row, other \in R, d, o \in W : Append(row, d) = Append(other, o) => row = other /\ d = o
  <2>1. RowsAndPlaces(Rope!Indices(sh), R, W)
    BY <1>3, <1>4, <1>5, RowsOf
  <2> QED BY <2>1 DEF RowsAndPlaces
<1>7. /\ \A part \in PartsOf(c, job) : part \subseteq W
      /\ \A d \in W : \E part \in PartsOf(c, job) : d \in part
      /\ \A part, other \in PartsOf(c, job) : \A d \in part : d \in other => part = other
  BY PartsDealt
<1>8. PICK T : T = Rope!Threads(c, job)
  OBVIOUS
<1>9. T = {[row |-> row, part |-> part] : row \in R, part \in PartsOf(c, job)}
  BY <1>2, <1>5, <1>8 DEF Rope!Threads, PartsOf
<1>10. /\ \A t \in T : t.row \in R /\ t.part \in PartsOf(c, job) /\ t = [row |-> t.row, part |-> t.part]
       /\ \A row \in R, part \in PartsOf(c, job) : [row |-> row, part |-> part] \in T
  BY <1>9
<1>11. \A t \in T, d \in W : Rope!At(t, d) = Append(t.row, d)
  BY DEF Rope!At
<1>12. \A t \in T : t.part \subseteq W
  BY <1>7, <1>10
<1>13. \A t \in T, d \in W : Rope!At(t, d) \in Rope!Indices(sh)
  <2> TAKE t \in T, d \in W
  <2>1. PICK row : row = t.row
    OBVIOUS
  <2>2. Rope!At(t, d) = Append(row, d) /\ row \in R
    BY <1>10, <1>11, <2>1
  <2> QED BY <1>6, <2>2
<1>14. \A i \in Rope!Indices(sh) : \E t \in T : \E d \in t.part : i = Rope!At(t, d)
  <2> TAKE i \in Rope!Indices(sh)
  <2>1. PICK row \in R, d \in W : i = Append(row, d)
    BY <1>6
  <2>2. PICK part \in PartsOf(c, job) : d \in part
    BY <1>7
  <2>3. PICK t : t = [row |-> row, part |-> part]
    OBVIOUS
  <2>4. t \in T /\ t.row = row /\ d \in t.part
    BY <1>10, <2>2, <2>3
  <2> QED BY <1>11, <2>1, <2>4
<1>15. ASSUME NEW t \in T, NEW u \in T, NEW d \in W, NEW o \in W, Rope!At(t, d) = Rope!At(u, o)
       PROVE  t.row = u.row /\ d = o /\ (d \in t.part /\ o \in u.part => t = u)
  <2>1. t.row = u.row /\ d = o
    <3>1. PICK row, other : row = t.row /\ other = u.row
      OBVIOUS
    <3>2. row \in R /\ other \in R /\ Append(row, d) = Append(other, o)
      BY <1>10, <1>11, <1>15, <3>1
    <3>3. row = other /\ d = o
      <4>1. d \in W /\ o \in W
        OBVIOUS
      <4>2. \A r1, r2 \in R, d1, d2 \in W : Append(r1, d1) = Append(r2, d2) => r1 = r2 /\ d1 = d2
        BY <1>6, Zenon
      <4> QED BY <3>2, <4>1, <4>2
    <3> QED BY <3>1, <3>3
  <2>2. ASSUME d \in t.part, o \in u.part PROVE t = u
    <3>1. t.part = u.part
      BY <1>7, <1>10, <2>1, <2>2
    <3> QED BY <1>10, <2>1, <3>1
  <2> QED BY <2>1, <2>2
<1> QED BY <1>1, <1>8, <1>12, <1>13, <1>14, <1>15 DEF Dealt

-----------------------------------------------------------------------------
\* What the threads of the first job have done of its last operations.
Ops(c, ls) == Rope!ThreadOps(c, Head(ls))
Did(c, ls, ln, t, name) ==
  \E j \in 1 .. ln[t] : Ops(c, ls)[j][1] = Final(Head(ls)) /\ Ops(c, ls)[j][2] = name
Finished(c, ls, ln, kind, name, i) ==
  \/ ~Ahead(ls, kind, name)
  \/ /\ Head(ls).kind = kind /\ OfLaunch(Head(ls), name)
     /\ \E t \in DOMAIN ln : \E d \in t.part : i = Rope!At(t, d) /\ Did(c, ls, ln, t, name)

\* Before its threads start, the elements of a job are not finished.
LEMMA FinishedAtStart ==
  ASSUME NEW c, NEW ls, NEW ln, \A t \in DOMAIN ln : ln[t] = 0
  PROVE  \A kind, name, i : Finished(c, ls, ln, kind, name, i) <=> ~Ahead(ls, kind, name)
BY DEF Finished, Did

\* The elements one operation of a thread finishes.
Finishing(ls, op, t, kind, name, i) ==
  Head(ls).kind = kind /\ op[1] = Final(Head(ls)) /\ op[2] = name /\ \E d \in t.part : i = Rope!At(t, d)
Advanced(c, ls, ln, new, op, t) ==
  \A kind, name, i : Finished(c, ls, new, kind, name, i) <=>
    Finished(c, ls, ln, kind, name, i) \/ Finishing(ls, op, t, kind, name, i)

\* A step finishes the elements its operation writes or copies, and no others.
LEMMA FinishedByStep ==
  ASSUME NEW c \in RopeCalls, NEW ls, Ordered(c, ls), ls # <<>>, NEW s, InTurn(Head(ls), Ops(c, ls), s),
         NEW ln, ln \in [Rope!Threads(c, Head(ls)) -> Nat], NEW t \in DOMAIN ln, ln[t] < Len(Ops(c, ls)),
         NEW new, new = [ln EXCEPT ![t] = @ + 1], NEW op, op = Ops(c, ls)[ln[t] + 1]
  PROVE  Advanced(c, ls, ln, new, op, t)
<1>1. PICK T : T = Rope!Threads(c, Head(ls))
  OBVIOUS
<1>2. ln \in [T -> Nat] /\ new \in [T -> Nat] /\ t \in T /\ new[t] = ln[t] + 1 /\ \A u \in T : u # t => new[u] = ln[u]
  BY <1>1
<1>3. ln[t] + 1 \in 1 .. Len(Ops(c, ls)) /\ Len(Ops(c, ls)) \in Nat
  BY <1>2 DEF InTurn
<1>4. OfLaunch(Head(ls), op[2])
  BY <1>3 DEF InTurn
<1>5. \A name : \A u \in T : u # t => (Did(c, ls, new, u, name) <=> Did(c, ls, ln, u, name))
  BY <1>2 DEF Did
<1>6. \A name : Did(c, ls, new, t, name) <=> Did(c, ls, ln, t, name) \/ (op[1] = Final(Head(ls)) /\ op[2] = name)
  <2>1. \A j : j \in 1 .. ln[t] + 1 <=> j \in 1 .. ln[t] \/ j = ln[t] + 1
    BY <1>2
  <2> QED BY <1>2, <2>1 DEF Did
<1> SUFFICES ASSUME NEW kind, NEW name, NEW i
             PROVE  Finished(c, ls, new, kind, name, i) <=>
                      Finished(c, ls, ln, kind, name, i) \/ Finishing(ls, op, t, kind, name, i)
  BY DEF Advanced
<1>7. DOMAIN ln = T /\ DOMAIN new = T
  BY <1>2
<1>8. (\E u \in T : \E d \in u.part : i = Rope!At(u, d) /\ Did(c, ls, new, u, name)) <=>
        \/ \E u \in T : \E d \in u.part : i = Rope!At(u, d) /\ Did(c, ls, ln, u, name)
        \/ (op[1] = Final(Head(ls)) /\ op[2] = name) /\ \E d \in t.part : i = Rope!At(t, d)
  BY <1>2, <1>5, <1>6
<1> QED BY <1>4, <1>7, <1>8 DEF Finished, Finishing

-----------------------------------------------------------------------------
(* What the memory holds. *)

\* An element rotated once.
Value(name, i) == [of |-> <<name, i>>, turns |-> 1]

\* Memory m holds each element that is rotated, and copied back, and nothing else.
Written(c, ls, ln, m) ==
  /\ \A name \in RopeNames(c) : \A i \in Rope!Indices(c[name].sh) :
       /\ Finished(c, ls, ln, "rotate", name, i) =>
            Rope!Cell(Into(c, name), i) \in DOMAIN m /\ m[Rope!Cell(Into(c, name), i)] = Value(name, i)
       /\ CopiesBack(c) /\ Finished(c, ls, ln, "copy", name, i) =>
            Rope!Cell(c[name], i) \in DOMAIN m /\ m[Rope!Cell(c[name], i)] = Value(name, i)
  /\ \A cell \in DOMAIN m : \E name \in RopeNames(c) : \E i \in Rope!Indices(c[name].sh) :
       \/ cell = Rope!Cell(Into(c, name), i) /\ Finished(c, ls, ln, "rotate", name, i)
       \/ CopiesBack(c) /\ cell = Rope!Cell(c[name], i) /\ Finished(c, ls, ln, "copy", name, i)

\* When as much is finished as before, the memory still agrees.
LEMMA WrittenSame ==
  ASSUME NEW c, NEW ls, NEW ln, NEW m, Written(c, ls, ln, m), NEW after, NEW new,
         \A name \in RopeNames(c) : \A i \in Rope!Indices(c[name].sh) :
           /\ Finished(c, after, new, "rotate", name, i) <=> Finished(c, ls, ln, "rotate", name, i)
           /\ CopiesBack(c) => (Finished(c, after, new, "copy", name, i) <=> Finished(c, ls, ln, "copy", name, i))
  PROVE  Written(c, after, new, m)
BY DEF Written

\* While operands are rotated none has been copied back.
CopiesLast(c, ls) ==
  CopiesBack(c) /\ (\E name : Ahead(ls, "rotate", name)) => \A name \in RopeNames(c) : Ahead(ls, "copy", name)

\* While a rotation runs, no element has been copied back.
LEMMA NoneCopied ==
  ASSUME NEW c, NEW ls, Ordered(c, ls), ls # <<>>, CopiesLast(c, ls), CopiesBack(c), Head(ls).kind = "rotate",
         NEW o, OfLaunch(Head(ls), o), NEW ln, NEW name \in RopeNames(c), NEW i
  PROVE  ~Finished(c, ls, ln, "copy", name, i)
<1>1. Ahead(ls, "rotate", o)
  BY LaunchesTail
<1>2. Ahead(ls, "copy", name)
  BY <1>1 DEF CopiesLast
<1> QED BY <1>2 DEF Finished

\* f holds a thread's elements of an operand, where a view has them; mm is m with f written over it.
Gives(f, t, view, name) ==
  /\ DOMAIN f = {Rope!Cell(view, Rope!At(t, d)) : d \in t.part}
  /\ \A d \in t.part : f[Rope!Cell(view, Rope!At(t, d))] = Value(name, Rope!At(t, d))
Over(f, m, mm) ==
  /\ DOMAIN mm = DOMAIN f \cup DOMAIN m
  /\ \A cell \in DOMAIN mm : mm[cell] = IF cell \in DOMAIN f THEN f[cell] ELSE m[cell]
Within(c, t, name) == \A d \in t.part : Rope!At(t, d) \in Rope!Indices(c[name].sh)

\* A thread writes its elements of an operand.
LEMMA WrittenByWrite ==
  ASSUME NEW c \in RopeCalls, Guarded(c), NEW ls, Ordered(c, ls), ls # <<>>, CopiesLast(c, ls),
         NEW ln, NEW m, Written(c, ls, ln, m), NEW new, NEW op, NEW t, NEW name \in RopeNames(c),
         Head(ls).kind = "rotate", OfLaunch(Head(ls), name), op[1] = "write", op[2] = name,
         Advanced(c, ls, ln, new, op, t), Within(c, t, name),
         NEW f, Gives(f, t, Into(c, name), name), NEW mm, Over(f, m, mm)
  PROVE  Written(c, ls, new, mm)
<1> USE DEF Advanced, Within, Gives, Over
<1>1. \A o \in RopeNames(c) : Into(c, o).sh = c[o].sh
  BY RopeGeometry
<1>2. ASSUME NEW o \in RopeNames(c), NEW i \in Rope!Indices(c[o].sh), NEW d \in t.part,
             Rope!Cell(Into(c, o), i) = Rope!Cell(Into(c, name), Rope!At(t, d))
      PROVE  o = name /\ i = Rope!At(t, d)
  <2>1. CASE o # name
    <3>1. ApartViews(Into(c, name), Into(c, o))
      BY <2>1, RopeGeometry
    <3> QED BY <1>1, <1>2, <3>1 DEF ApartViews
  <2>2. CASE o = name
    <3>1. CellEach(Into(c, name))
      BY RopeGeometry
    <3> QED BY <1>1, <1>2, <2>2, <3>1 DEF CellEach
  <2> QED BY <2>1, <2>2
<1>3. ASSUME NEW o \in RopeNames(c), NEW i \in Rope!Indices(c[o].sh), Finished(c, ls, new, "rotate", o, i)
      PROVE  Rope!Cell(Into(c, o), i) \in DOMAIN mm /\ mm[Rope!Cell(Into(c, o), i)] = Value(o, i)
  <2>1. PICK cell : cell = Rope!Cell(Into(c, o), i)
    OBVIOUS
  <2>2. CASE cell \in DOMAIN f
    <3>1. PICK d \in t.part : cell = Rope!Cell(Into(c, name), Rope!At(t, d))
      BY <2>2
    <3>2. o = name /\ i = Rope!At(t, d)
      BY <1>2, <2>1, <3>1
    <3>3. f[cell] = Value(name, Rope!At(t, d))
      BY <3>1
    <3>4. cell \in DOMAIN mm /\ mm[cell] = f[cell]
      BY <2>2
    <3> QED BY <2>1, <3>2, <3>3, <3>4
  <2>3. CASE cell \notin DOMAIN f
    <3>1. ~Finishing(ls, op, t, "rotate", o, i)
      <4> SUFFICES ASSUME Finishing(ls, op, t, "rotate", o, i) PROVE FALSE
        OBVIOUS
      <4>1. o = name /\ \E d \in t.part : i = Rope!At(t, d)
        BY DEF Finishing
      <4> QED BY <2>1, <2>3, <4>1
    <3>2. cell \in DOMAIN m /\ m[cell] = Value(o, i)
      BY <1>3, <2>1, <3>1 DEF Written
    <3>3. cell \in DOMAIN mm /\ mm[cell] = m[cell]
      BY <2>3, <3>2
    <3> QED BY <2>1, <3>2, <3>3
  <2> QED BY <2>2, <2>3
<1>4. ASSUME NEW o \in RopeNames(c), NEW i, CopiesBack(c) PROVE ~Finished(c, ls, new, "copy", o, i)
  BY <1>4, NoneCopied
<1>5. ASSUME NEW cell \in DOMAIN mm
      PROVE  \E o \in RopeNames(c) : \E i \in Rope!Indices(c[o].sh) :
               \/ cell = Rope!Cell(Into(c, o), i) /\ Finished(c, ls, new, "rotate", o, i)
               \/ CopiesBack(c) /\ cell = Rope!Cell(c[o], i) /\ Finished(c, ls, new, "copy", o, i)
  <2>1. CASE cell \in DOMAIN f
    <3>1. PICK d \in t.part : cell = Rope!Cell(Into(c, name), Rope!At(t, d))
      BY <2>1
    <3>2. Finishing(ls, op, t, "rotate", name, Rope!At(t, d))
      BY DEF Finishing, Final
    <3> QED BY <3>1, <3>2
  <2>2. CASE cell \in DOMAIN m
    BY <2>2 DEF Written
  <2> QED BY <2>1, <2>2
<1> QED BY <1>3, <1>4, <1>5 DEF Written

\* A thread copies its elements of an operand back.
LEMMA WrittenByCopy ==
  ASSUME NEW c \in RopeCalls, Guarded(c), NEW ls, Ordered(c, ls), ls # <<>>, CopiesBack(c),
         NEW ln, NEW m, Written(c, ls, ln, m), NEW new, NEW op, NEW t, NEW name \in RopeNames(c),
         Head(ls).kind = "copy", OfLaunch(Head(ls), name), op[1] = "copy", op[2] = name,
         Advanced(c, ls, ln, new, op, t), Within(c, t, name),
         NEW f, Gives(f, t, c[name], name), NEW mm, Over(f, m, mm)
  PROVE  Written(c, ls, new, mm)
<1> USE DEF Advanced, Within, Gives, Over
<1>0. c.inplace /\ Afresh(c)
  BY DEF CopiesBack
<1>1. \A o \in RopeNames(c) : Into(c, o).sh = c[o].sh
  BY RopeGeometry
<1>2. ASSUME NEW o \in RopeNames(c), NEW i \in Rope!Indices(c[o].sh), NEW d \in t.part,
             Rope!Cell(c[o], i) = Rope!Cell(c[name], Rope!At(t, d))
      PROVE  o = name /\ i = Rope!At(t, d)
  <2>1. CASE o # name
    <3>1. ApartViews(c[name], c[o])
      BY <1>0, <2>1, AllowedApart
    <3> QED BY <1>2, <3>1 DEF ApartViews
  <2>2. CASE o = name
    <3>1. CellEach(c[name])
      BY <1>0, AllowedApart
    <3> QED BY <1>2, <2>2, <3>1 DEF CellEach
  <2> QED BY <2>1, <2>2
<1>3. ASSUME NEW o \in RopeNames(c), NEW i \in Rope!Indices(c[o].sh), Finished(c, ls, new, "copy", o, i)
      PROVE  Rope!Cell(c[o], i) \in DOMAIN mm /\ mm[Rope!Cell(c[o], i)] = Value(o, i)
  <2>1. PICK cell : cell = Rope!Cell(c[o], i)
    OBVIOUS
  <2>2. CASE cell \in DOMAIN f
    <3>1. PICK d \in t.part : cell = Rope!Cell(c[name], Rope!At(t, d))
      BY <2>2
    <3>2. o = name /\ i = Rope!At(t, d)
      BY <1>2, <2>1, <3>1
    <3>3. f[cell] = Value(name, Rope!At(t, d))
      BY <3>1
    <3>4. cell \in DOMAIN mm /\ mm[cell] = f[cell]
      BY <2>2
    <3> QED BY <2>1, <3>2, <3>3, <3>4
  <2>3. CASE cell \notin DOMAIN f
    <3>1. ~Finishing(ls, op, t, "copy", o, i)
      <4> SUFFICES ASSUME Finishing(ls, op, t, "copy", o, i) PROVE FALSE
        OBVIOUS
      <4>1. o = name /\ \E d \in t.part : i = Rope!At(t, d)
        BY DEF Finishing
      <4> QED BY <2>1, <2>3, <4>1
    <3>2. cell \in DOMAIN m /\ m[cell] = Value(o, i)
      BY <1>3, <2>1, <3>1 DEF Written
    <3>3. cell \in DOMAIN mm /\ mm[cell] = m[cell]
      BY <2>3, <3>2
    <3> QED BY <2>1, <3>2, <3>3
  <2> QED BY <2>2, <2>3
<1>4. ASSUME NEW o \in RopeNames(c), NEW i \in Rope!Indices(c[o].sh), Finished(c, ls, new, "rotate", o, i)
      PROVE  Rope!Cell(Into(c, o), i) \in DOMAIN mm /\ mm[Rope!Cell(Into(c, o), i)] = Value(o, i)
  <2>1. PICK cell : cell = Rope!Cell(Into(c, o), i)
    OBVIOUS
  <2>2. ~Finishing(ls, op, t, "rotate", o, i)
    BY DEF Finishing
  <2>3. cell \in DOMAIN m /\ m[cell] = Value(o, i)
    BY <1>4, <2>1, <2>2 DEF Written
  <2>4. cell \notin DOMAIN f
    <3>1. ApartViews(Into(c, o), c[name])
      BY <1>0, RopeGeometry
    <3> QED BY <1>1, <2>1, <3>1 DEF ApartViews
  <2>5. cell \in DOMAIN mm /\ mm[cell] = m[cell]
    BY <2>3, <2>4
  <2> QED BY <2>1, <2>3, <2>5
<1>5. ASSUME NEW cell \in DOMAIN mm
      PROVE  \E o \in RopeNames(c) : \E i \in Rope!Indices(c[o].sh) :
               \/ cell = Rope!Cell(Into(c, o), i) /\ Finished(c, ls, new, "rotate", o, i)
               \/ CopiesBack(c) /\ cell = Rope!Cell(c[o], i) /\ Finished(c, ls, new, "copy", o, i)
  <2>1. CASE cell \in DOMAIN f
    <3>1. PICK d \in t.part : cell = Rope!Cell(c[name], Rope!At(t, d))
      BY <2>1
    <3>2. Finishing(ls, op, t, "copy", name, Rope!At(t, d))
      BY DEF Finishing, Final
    <3> QED BY <3>1, <3>2
  <2>2. CASE cell \in DOMAIN m
    BY <2>2 DEF Written
  <2> QED BY <2>1, <2>2
<1> QED BY <1>3, <1>4, <1>5 DEF Written

\* An element that is not rotated yet has its first value where it is read.
LEMMA ReadBefore ==
  ASSUME NEW c \in RopeCalls, Guarded(c), NEW ls, Ordered(c, ls), ls # <<>>, CopiesLast(c, ls),
         NEW ln, NEW m, Written(c, ls, ln, m), Head(ls).kind = "rotate",
         NEW name \in RopeNames(c), OfLaunch(Head(ls), name)
  PROVE  /\ \A i \in Rope!Indices(c[name].sh) : ~Finished(c, ls, ln, "rotate", name, i) =>
              Rope!Cell(c[name], i) \notin DOMAIN m
         /\ \A source \in Rope!Readonly(c) : Rope!Cell(source, << 0 >>) \notin DOMAIN m
<1>1. \A o \in RopeNames(c) : Into(c, o).sh = c[o].sh
  BY RopeGeometry
<1>2. ASSUME NEW cell \in DOMAIN m
      PROVE  \E o \in RopeNames(c) : \E i \in Rope!Indices(c[o].sh) :
               cell = Rope!Cell(Into(c, o), i) /\ Finished(c, ls, ln, "rotate", o, i)
  <2>1. CopiesBack(c) => \A o \in RopeNames(c) : \A i : ~Finished(c, ls, ln, "copy", o, i)
    BY NoneCopied
  <2> QED BY <2>1 DEF Written
<1>3. ASSUME NEW i \in Rope!Indices(c[name].sh), ~Finished(c, ls, ln, "rotate", name, i), Rope!Cell(c[name], i) \in DOMAIN m
      PROVE  FALSE
  <2>0. PICK o \in RopeNames(c) : \E j \in Rope!Indices(c[o].sh) :
          Rope!Cell(c[name], i) = Rope!Cell(Into(c, o), j) /\ Finished(c, ls, ln, "rotate", o, j)
    BY <1>2, <1>3
  <2>1. PICK j \in Rope!Indices(c[o].sh) :
          Rope!Cell(c[name], i) = Rope!Cell(Into(c, o), j) /\ Finished(c, ls, ln, "rotate", o, j)
    BY <2>0
  <2>2. CASE Afresh(c)
    <3>1. ApartViews(Into(c, o), c[name])
      BY <2>2, RopeGeometry
    <3> QED BY <1>1, <2>1, <3>1 DEF ApartViews
  <2>3. CASE ~Afresh(c)
    <3>1. Into(c, o) = c[o] /\ Into(c, name) = c[name]
      BY <2>3 DEF Into
    <3>2. o = name
      <4> SUFFICES ASSUME o # name PROVE FALSE
        OBVIOUS
      <4>1. ApartViews(Into(c, o), Into(c, name))
        BY RopeGeometry
      <4> QED BY <2>1, <3>1, <4>1 DEF ApartViews
    <3>3. CellEach(Into(c, name))
      BY RopeGeometry
    <3>4. i = j
      BY <2>1, <3>1, <3>2, <3>3 DEF CellEach
    <3> QED BY <1>3, <2>1, <3>2, <3>4
  <2> QED BY <2>2, <2>3
<1>4. ASSUME NEW source \in Rope!Readonly(c), Rope!Cell(source, << 0 >>) \in DOMAIN m PROVE FALSE
  <2>0. PICK o \in RopeNames(c) : \E j \in Rope!Indices(c[o].sh) : Rope!Cell(source, << 0 >>) = Rope!Cell(Into(c, o), j)
    BY <1>2, <1>4
  <2>1. PICK j \in Rope!Indices(c[o].sh) : Rope!Cell(source, << 0 >>) = Rope!Cell(Into(c, o), j)
    BY <2>0
  <2>2. ApartViews(Into(c, o), source)
    BY RopeGeometry
  <2>3. << 0 >> \in Rope!Indices(source.sh)
    <3>1. source.sh = <<1>> /\ source.sh \in Seq(0 .. MaxExtent) /\ MaxExtent \in Nat
      BY CallViews, RopeAssumption DEF RopeView
    <3>2. 1 <= MaxExtent
      <4>1. 1 \in 1 .. Len(source.sh) /\ source.sh[1] = 1
        BY <3>1
      <4>2. source.sh[1] \in 0 .. MaxExtent
        BY <3>1, <4>1, ElementOfSeq
      <4> QED BY <4>1, <4>2
    <3>3. PICK z : z = << 0 >>
      OBVIOUS
    <3>4. z \in [1 .. 1 -> 0 .. MaxExtent - 1] /\ z[1] = 0
      BY <3>1, <3>2, <3>3
    <3>5. PICK sh : sh = source.sh
      OBVIOUS
    <3>6. Len(sh) = 1 /\ DOMAIN sh = 1 .. 1 /\ sh[1] = 1
      BY <3>1, <3>5
    <3>7. z \in Rope!Indices(sh)
      BY <3>4, <3>6 DEF Rope!Indices
    <3> QED BY <3>3, <3>5, <3>7
  <2> QED BY <1>1, <2>1, <2>2, <2>3 DEF ApartViews
<1> QED BY <1>3, <1>4

-----------------------------------------------------------------------------
(* The invariant, and the steps of the stream. *)

\* No thread of a row goes on before all have summed.
SummedFirst(job, ops, ln, s) ==
  InTurn(job, ops, s) /\ \A t, u \in DOMAIN ln : t.row = u.row /\ ln[u] > s => ln[t] >= s

Gate(c, ls, ln) == \E s : SummedFirst(Head(ls), Ops(c, ls), ln, s)

Underway(c, ls, ln, rd) ==
  /\ ls # <<>>
  /\ ln \in [Rope!Threads(c, Head(ls)) -> Nat]
  /\ \A t \in DOMAIN ln : ln[t] <= Len(Ops(c, ls))
  /\ Gate(c, ls, ln)
  /\ rd = [t \in DOMAIN ln |-> [q |-> 0, k |-> 0]]

RopeInv ==
  /\ call \in RopeCalls
  /\ outcome \in {"called", "running", "raised", "done"}
  /\ outcome \in {"called", "raised"} => memory = <<>> /\ lane = <<>> /\ read = <<>>
  /\ outcome = "running" => Underway(call, launches, lane, read)
  /\ outcome = "done" => launches = <<>> /\ DOMAIN lane = {} /\ DOMAIN read = {}
  /\ outcome \in {"running", "done"} =>
       /\ Guarded(call) /\ Ordered(call, launches) /\ CopiesLast(call, launches)
       /\ Written(call, launches, lane, memory)

\* Nothing is written when the call is made.
LEMMA RopeStarts ==
  Rope!Init => RopeInv
BY DEF Rope!Init, RopeInv

\* What a job starts with: no thread has done anything.
LEMMA StartsAre ==
  ASSUME call \in RopeCalls, Guarded(call), call' = call, memory' = memory,
         NEW plan, Rope!Starts(plan), Ordered(call, plan), CopiesLast(call, plan),
         \A start : (\A t \in DOMAIN start : start[t] = 0) => Written(call, plan, start, memory)
  PROVE  RopeInv'
<1>1. launches' = plan /\ DOMAIN read' = DOMAIN lane' /\ read' = [t \in DOMAIN lane' |-> [q |-> 0, k |-> 0]]
  BY DEF Rope!Starts
<1>2. lane' = [t \in IF plan = <<>> THEN {} ELSE Rope!Threads(call, Head(plan)) |-> 0]
  BY DEF Rope!Starts
<1>3. outcome' = IF plan = <<>> THEN "done" ELSE "running"
  BY DEF Rope!Starts
<1>4. \A t \in DOMAIN lane' : lane'[t] = 0
  BY <1>2
<1>5. Written(call, plan, lane', memory)
  BY <1>4
<1>6. ASSUME plan # <<>> PROVE Underway(call, plan, lane', read')
  <2>1. DOMAIN lane' = Rope!Threads(call, Head(plan)) /\ lane' \in [Rope!Threads(call, Head(plan)) -> Nat]
    BY <1>2, <1>6
  <2>2. Head(plan) \in LaunchesOf(call)
    BY <1>6, LaunchesTail
  <2>3. PICK s : InTurn(Head(plan), Ops(call, plan), s)
    BY <2>2, LaunchInTurn DEF Ops
  <2>4. Len(Ops(call, plan)) \in Nat /\ s \in Nat
    BY <2>3 DEF InTurn
  <2>5. Gate(call, plan, lane')
    BY <1>4, <2>3, <2>4 DEF Gate, SummedFirst
  <2> QED BY <1>1, <1>4, <1>6, <2>1, <2>4, <2>5 DEF Underway
<1>7. CASE plan = <<>>
  <2>1. outcome' = "done" /\ DOMAIN lane' = {} /\ DOMAIN read' = {} /\ launches' = <<>>
    BY <1>1, <1>2, <1>3, <1>7
  <2> QED BY <1>1, <1>5, <1>7, <2>1 DEF RopeInv
<1>8. CASE plan # <<>>
  BY <1>1, <1>3, <1>5, <1>6, <1>8 DEF RopeInv
<1> QED BY <1>7, <1>8

\* With all rotations and copies ahead, an empty memory agrees.
LEMMA NothingWritten ==
  ASSUME NEW c, NEW ls, NEW start, \A t \in DOMAIN start : start[t] = 0,
         \A name \in RopeNames(c) : /\ Ahead(ls, "rotate", name)
                                    /\ CopiesBack(c) => Ahead(ls, "copy", name)
  PROVE  Written(c, ls, start, <<>>)
<1>1. \A kind, name, i : Finished(c, ls, start, kind, name, i) <=> ~Ahead(ls, kind, name)
  BY FinishedAtStart
<1>2. DOMAIN <<>> = {}
  OBVIOUS
<1> QED BY <1>1, <1>2 DEF Written

\* A call that is not refused starts its plan.
LEMMA RopeCalled ==
  ASSUME RopeInv, Rope!CallInPlace \/ Rope!CallFunctional
  PROVE  RopeInv'
<1>1. call \in RopeCalls /\ call' = call /\ memory = <<>> /\ memory' = memory /\ lane = <<>> /\ read = <<>>
  BY DEF RopeInv, Rope!CallInPlace, Rope!CallFunctional
<1>2. CASE outcome' = "raised" /\ UNCHANGED <<launches, lane, read>>
  BY <1>1, <1>2 DEF RopeInv
<1>3. CASE ~(outcome' = "raised" /\ UNCHANGED <<launches, lane, read>>)
  <2>1. Guarded(call) /\ Rope!Starts(Rope!Plan(call))
    BY <1>3 DEF Rope!CallInPlace, Rope!CallFunctional, Guarded
  <2>2. PICK plan : plan = Rope!Plan(call)
    OBVIOUS
  <2>3. /\ Ordered(call, plan)
        /\ \A name \in RopeNames(call) : /\ Ahead(plan, "rotate", name)
                                         /\ CopiesBack(call) => Ahead(plan, "copy", name)
    BY <1>1, <2>2, PlanOrdered
  <2>4. CopiesLast(call, plan)
    BY <2>3 DEF CopiesLast
  <2>5. \A start : (\A t \in DOMAIN start : start[t] = 0) => Written(call, plan, start, memory)
    BY <1>1, <2>3, NothingWritten
  <2> QED BY <1>1, <2>1, <2>2, <2>3, <2>4, <2>5, StartsAre
<1> QED BY <1>2, <1>3

\* When every thread is through, so is every element of the job's operands.
LEMMA IdleFinished ==
  ASSUME NEW c \in RopeCalls, NEW ls, Ordered(c, ls), ls # <<>>, NEW s, InTurn(Head(ls), Ops(c, ls), s),
         NEW ln, ln \in [Rope!Threads(c, Head(ls)) -> Nat], \A t \in DOMAIN ln : ln[t] = Len(Ops(c, ls)),
         NEW name, OfLaunch(Head(ls), name), NEW i \in Rope!Indices(c[name].sh)
  PROVE  Finished(c, ls, ln, Head(ls).kind, name, i)
<1>1. Head(ls) \in LaunchesOf(c)
  BY LaunchesTail
<1>2. PICK t \in Rope!Threads(c, Head(ls)) : \E d \in t.part : i = Rope!At(t, d)
  <2>1. PICK W : W = 0 .. Rope!Last(c.q.sh) - 1
    OBVIOUS
  <2>2. Dealt(c, Head(ls), name, W)
    BY <1>1, <2>1, ThreadsDealt
  <2> QED BY <2>2 DEF Dealt
<1>3. \E j \in 1 .. Len(Ops(c, ls)) : Ops(c, ls)[j][1] = Final(Head(ls)) /\ Ops(c, ls)[j][2] = name
  BY DEF InTurn
<1>4. t \in DOMAIN ln /\ ln[t] = Len(Ops(c, ls))
  BY <1>2
<1>5. Did(c, ls, ln, t, name)
  BY <1>3, <1>4 DEF Did
<1> QED BY <1>2, <1>4, <1>5 DEF Finished

\* The next launch starts when the one before is finished.
LEMMA RopeLaunched ==
  ASSUME RopeInv, Rope!NextLaunch
  PROVE  RopeInv'
<1>1. /\ call \in RopeCalls /\ call' = call /\ memory' = memory /\ outcome = "running"
      /\ Rope!Idle /\ Rope!Starts(Tail(launches))
  BY DEF RopeInv, Rope!NextLaunch
<1>2. /\ Guarded(call) /\ Ordered(call, launches) /\ CopiesLast(call, launches)
      /\ Written(call, launches, lane, memory) /\ launches # <<>>
      /\ lane \in [Rope!Threads(call, Head(launches)) -> Nat] /\ Gate(call, launches, lane)
  BY <1>1 DEF RopeInv, Underway
<1>3. \A t \in DOMAIN lane : lane[t] = Len(Ops(call, launches))
  BY <1>1 DEF Rope!Idle, Ops
<1>4. PICK s : InTurn(Head(launches), Ops(call, launches), s)
  BY <1>2 DEF Gate, SummedFirst
<1>5. PICK plan : plan = Tail(launches)
  OBVIOUS
<1>6. /\ Ordered(call, plan)
      /\ \A kind, name : Ahead(launches, kind, name) <=>
           (Head(launches).kind = kind /\ OfLaunch(Head(launches), name)) \/ Ahead(plan, kind, name)
      /\ \A kind, name : ~(/\ Head(launches).kind = kind /\ OfLaunch(Head(launches), name)
                           /\ Ahead(plan, kind, name))
      /\ Head(launches).kind = "copy" => \A name : ~Ahead(launches, "rotate", name)
  BY <1>2, <1>5, LaunchesTail
<1>7. CopiesLast(call, plan)
  BY <1>2, <1>6 DEF CopiesLast
<1>8. ASSUME NEW kind, NEW name \in RopeNames(call), NEW i \in Rope!Indices(call[name].sh)
      PROVE  Finished(call, launches, lane, kind, name, i) <=> ~Ahead(plan, kind, name)
  <2>1. CASE Head(launches).kind = kind /\ OfLaunch(Head(launches), name)
    BY <1>1, <1>2, <1>3, <1>4, <1>6, <2>1, IdleFinished
  <2>2. CASE ~(Head(launches).kind = kind /\ OfLaunch(Head(launches), name))
    BY <1>6, <2>2 DEF Finished
  <2> QED BY <2>1, <2>2
<1>9. ASSUME NEW start, \A t \in DOMAIN start : start[t] = 0
      PROVE  Written(call, plan, start, memory)
  <2>1. \A kind, name, i : Finished(call, plan, start, kind, name, i) <=> ~Ahead(plan, kind, name)
    BY <1>9, FinishedAtStart
  <2>2. \A name \in RopeNames(call) : \A i \in Rope!Indices(call[name].sh) :
          /\ Finished(call, plan, start, "rotate", name, i) <=> Finished(call, launches, lane, "rotate", name, i)
          /\ CopiesBack(call) => (Finished(call, plan, start, "copy", name, i) <=> Finished(call, launches, lane, "copy", name, i))
    BY <1>8, <2>1
  <2> QED BY <1>2, <2>2, WrittenSame
<1> QED BY <1>1, <1>2, <1>5, <1>6, <1>7, <1>9, StartsAre

-----------------------------------------------------------------------------
(* A step of a thread. *)

\* The barrier after the sums of a row is kept by a thread's step.
LEMMA GateKept ==
  ASSUME NEW job, NEW ops, NEW s, NEW T, NEW ln \in [T -> Nat], SummedFirst(job, ops, ln, s),
         NEW t \in T, ln[t] < Len(ops), NEW new, new = [ln EXCEPT ![t] = @ + 1],
         ops[ln[t] + 1][1] # "sum" => \A u \in T : u.row = t.row => ln[u] >= s
  PROVE  SummedFirst(job, ops, new, s)
<1>1. InTurn(job, ops, s) /\ Len(ops) \in Nat /\ s \in Nat /\ \A j \in 1 .. Len(ops) : ops[j][1] = "sum" <=> j <= s
  BY DEF SummedFirst, InTurn
<1>2. ln[t] \in Nat /\ ln[t] + 1 \in 1 .. Len(ops)
  BY <1>1
<1>3. DOMAIN new = T /\ DOMAIN ln = T /\ \A u \in T : ln[u] \in Nat /\ new[u] = IF u = t THEN ln[t] + 1 ELSE ln[u]
  OBVIOUS
<1>4. ASSUME NEW v \in T, NEW u \in T, v.row = u.row, new[u] > s PROVE new[v] >= s
  <2>1. new[v] >= ln[v]
    BY <1>3
  <2>2. ln[v] >= s
    <3>1. CASE u = t
      <4>1. ops[ln[t] + 1][1] # "sum"
        BY <1>1, <1>2, <1>3, <1>4, <3>1
      <4> QED BY <1>4, <3>1, <4>1
    <3>2. CASE u # t
      BY <1>3, <1>4, <3>2 DEF SummedFirst
    <3> QED BY <3>1, <3>2
  <2> QED BY <1>1, <1>3, <2>1, <2>2
<1> QED BY <1>1, <1>3, <1>4 DEF SummedFirst

\* What an operation asks for has not been written.
Wanted(c, t, op) == IF op[1] = "sum" THEN 0 .. Rope!Last(c.q.sh) - 1 ELSE t.part
Unwritten(c, m, t, op) ==
  /\ op[2] \in RopeNames(c)
  /\ \A d \in Wanted(c, t, op) : Rope!Cell(c[op[2]], Rope!At(t, d)) \notin DOMAIN m
  /\ \A source \in Rope!Readonly(c) : Rope!Cell(source, <<0>>) \notin DOMAIN m

\* A thread sums and reads elements that are not rotated yet.
LEMMA ReadsFirst ==
  ASSUME NEW c \in RopeCalls, Guarded(c), NEW ls, Ordered(c, ls), ls # <<>>, CopiesLast(c, ls),
         NEW ln, NEW m, Written(c, ls, ln, m), Gate(c, ls, ln),
         ln \in [Rope!Threads(c, Head(ls)) -> Nat], NEW t \in DOMAIN ln, ln[t] < Len(Ops(c, ls)),
         NEW op, op = Ops(c, ls)[ln[t] + 1], op[1] \in {"sum", "read"}
  PROVE  Unwritten(c, m, t, op)
<1>a. PICK s : SummedFirst(Head(ls), Ops(c, ls), ln, s)
  BY DEF Gate
<1>b. PICK name : name = op[2]
  OBVIOUS
<1>c. PICK W : W = 0 .. Rope!Last(c.q.sh) - 1
  OBVIOUS
<1>d. PICK D : D = Wanted(c, t, op)
  OBVIOUS
<1>1. PICK job, ops : job = Head(ls) /\ ops = Ops(c, ls)
  OBVIOUS
<1>2. job \in LaunchesOf(c) /\ job.kind \in {"rotate", "copy"}
  BY <1>1, LaunchesTail, LaunchShape
<1>3. InTurn(job, ops, s) /\ Len(ops) \in Nat /\ s \in Nat /\ ln[t] \in Nat /\ ln[t] + 1 \in 1 .. Len(ops)
  <2>1. InTurn(job, ops, s)
    BY <1>a, <1>1 DEF SummedFirst
  <2>2. Len(ops) \in Nat /\ s \in Nat
    BY <2>1 DEF InTurn
  <2>3. ln[t] \in Nat /\ ln[t] < Len(ops)
    BY <1>1
  <2> QED BY <2>1, <2>2, <2>3
<1>4. OfLaunch(job, name) /\ job.kind = "rotate" /\ Final(job) = "write"
  BY <1>b, <1>1, <1>2, <1>3 DEF InTurn, Final
<1>5. name \in RopeNames(c)
  BY <1>2, <1>4, LaunchShape
<1>6. Dealt(c, job, name, W)
  BY <1>c, <1>2, <1>4, ThreadsDealt
<1>7. t \in Rope!Threads(c, job) /\ D \subseteq W /\ (op[1] = "read" => D = t.part)
  BY <1>c, <1>d, <1>1, <1>6 DEF Dealt, Wanted
<1>8. ASSUME NEW d \in D, Finished(c, ls, ln, "rotate", name, Rope!At(t, d))
      PROVE  FALSE
  <2>1. Ahead(ls, "rotate", name)
    <3>1. Head(ls).kind = "rotate" /\ OfLaunch(Head(ls), name)
      BY <1>1, <1>4
    <3>2. \A kind, o : Ahead(ls, kind, o) <=>
              (Head(ls).kind = kind /\ OfLaunch(Head(ls), o)) \/ Ahead(Tail(ls), kind, o)
      BY LaunchesTail
    <3> QED BY <3>1, <3>2
  <2>2. PICK u \in DOMAIN ln : \E o \in u.part : Rope!At(t, d) = Rope!At(u, o) /\ Did(c, ls, ln, u, name)
    BY <1>8, <2>1 DEF Finished
  <2>3. PICK o \in u.part : Rope!At(t, d) = Rope!At(u, o)
    BY <2>2
  <2>4. u \in Rope!Threads(c, job) /\ o \in W /\ d \in W
    BY <1>1, <1>6, <1>7 DEF Dealt
  <2>5. t.row = u.row /\ d = o /\ (d \in t.part => t = u)
    BY <1>6, <1>7, <2>3, <2>4 DEF Dealt
  <2>6. ln[u] \in Nat
    OBVIOUS
  <2>7. PICK j \in 1 .. ln[u] : ops[j][1] = "write" /\ ops[j][2] = name
    BY <1>1, <1>4, <2>2 DEF Did
  <2>8. CASE op[1] = "sum"
    <3>1. ln[t] + 1 <= s
      BY <1>1, <1>3, <2>8 DEF InTurn
    <3>2. ~(ln[t] >= s)
      BY <1>3, <3>1
    <3>3. ~(ln[u] > s)
      BY <1>a, <2>5, <3>2 DEF SummedFirst
    <3>4. j \in 1 .. Len(ops) /\ j <= s
      <4>1. j <= s /\ s <= Len(ops) /\ Len(ops) \in Nat
        BY <1>3, <2>6, <3>3 DEF InTurn
      <4> QED BY <1>3, <4>1
    <3> QED BY <1>3, <2>7, <3>4 DEF InTurn
  <2>9. CASE op[1] = "read"
    <3>1. u = t
      BY <1>7, <2>5, <2>9
    <3>2. j \in 1 .. Len(ops) /\ j < ln[t] + 1
      BY <1>3, <3>1
    <3>3. ln[t] + 1 <= j
      <4>1. ops[ln[t] + 1][2] = ops[j][2]
        BY <1>b, <1>1, <2>7
      <4> QED BY <1>3, <1>4, <2>7, <3>2, <4>1 DEF InTurn
    <3> QED BY <1>3, <3>2, <3>3
  <2> QED BY <2>8, <2>9
<1>9. /\ \A i \in Rope!Indices(c[name].sh) : ~Finished(c, ls, ln, "rotate", name, i) =>
           Rope!Cell(c[name], i) \notin DOMAIN m
      /\ \A source \in Rope!Readonly(c) : Rope!Cell(source, <<0>>) \notin DOMAIN m
  BY <1>1, <1>4, <1>5, ReadBefore
<1> QED BY <1>b, <1>c, <1>d, <1>5, <1>6, <1>7, <1>8, <1>9 DEF Dealt, Unwritten

\* Cells that have not been written hold values rotated zero times.
LEMMA MostOfNothing ==
  ASSUME NEW cells, cells # {}, \A cell \in cells : cell \notin DOMAIN memory
  PROVE  Rope!Max({0, Rope!Most(cells)}) = 0
<1>1. {Rope!Holds(cell).turns : cell \in cells} = {0}
  BY DEF Rope!Holds, Rope!Untouched
<1>2. Rope!Max({0}) \in {0}
  BY RopeGreatest, {0} \in SUBSET (0 .. 0)
<1>3. Rope!Most(cells) = 0
  BY <1>1, <1>2 DEF Rope!Most
<1> QED BY <1>2, <1>3

\* What an operation does: it reads cells, it writes the thread's elements to a view, it copies
\* them from one view to another.
Reading(t, op, cells) ==
  /\ op[1] \in {"sum", "read"} /\ memory' = memory
  /\ read' = [read EXCEPT ![t][op[2]] = Rope!Max({@, Rope!Most(cells)})]
Writing(t, op, into) ==
  /\ op[1] = "write" /\ read' = read
  /\ memory' = Rope!Written([cell \in {Rope!Cell(into, Rope!At(t, d)) : d \in t.part} |->
       [of |-> <<op[2], Rope!At(t, CHOOSE d \in t.part : Rope!Cell(into, Rope!At(t, d)) = cell)>>,
        turns |-> read[t][op[2]] + 1]])
Copying(t, op, from, into) ==
  /\ op[1] = "copy" /\ read' = read
  /\ memory' = Rope!Written([cell \in {Rope!Cell(into, Rope!At(t, d)) : d \in t.part} |->
       Rope!Holds(Rope!Cell(from, Rope!At(t, CHOOSE d \in t.part : Rope!Cell(into, Rope!At(t, d)) = cell)))])

Asked(c, t, op) ==
  {Rope!Cell(c[op[2]], Rope!At(t, d)) : d \in IF op[1] = "sum" THEN 0 .. Rope!Last(c[op[2]].sh) - 1 ELSE t.part}
    \cup {Rope!Cell(source, <<0>>) : source \in Rope!Readonly(c)}
Target(c, job, op) == IF job.fresh THEN Rope!Fresh(c, op[2]) ELSE c[op[2]]

\* An operation reads, writes or copies.
LEMMA PerformIs ==
  ASSUME NEW t, NEW job, NEW op, Rope!Perform(t, job, op)
  PROVE  \/ Reading(t, op, Asked(call, t, op))
         \/ Writing(t, op, Target(call, job, op))
         \/ Copying(t, op, Target(call, job, op), call[op[2]])
<1>1. CASE op[1] = "sum"
  BY <1>1 DEF Rope!Perform, Reading, Asked
<1>2. CASE op[1] = "read"
  BY <1>2 DEF Rope!Perform, Reading, Asked
<1>3. CASE op[1] = "write"
  BY <1>3 DEF Rope!Perform, Writing, Target
<1>4. CASE op[1] = "copy"
  BY <1>4 DEF Rope!Perform, Copying, Target
<1> QED BY <1>1, <1>2, <1>3, <1>4 DEF Rope!Perform

\* Written(f) is memory with f written over it.
LEMMA WrittenIs ==
  ASSUME NEW f, NEW mm, mm = Rope!Written(f)
  PROVE  Over(f, memory, mm)
BY DEF Rope!Written, Over

\* Reading zeros leaves zeros.
LEMMA ZeroRead ==
  ASSUME NEW T, NEW rd, rd = [u \in T |-> [q |-> 0, k |-> 0]], NEW t \in T, NEW name \in {"q", "k"},
         NEW cells, cells # {}, \A cell \in cells : cell \notin DOMAIN memory
  PROVE  [rd EXCEPT ![t][name] = Rope!Max({@, Rope!Most(cells)})] = rd
<1>1. rd[t][name] = 0
  OBVIOUS
<1>2. Rope!Max({0, Rope!Most(cells)}) = 0
  BY MostOfNothing
<1>3. PICK z : z = Rope!Max({rd[t][name], Rope!Most(cells)})
  OBVIOUS
<1>4. z = 0
  BY <1>1, <1>2, <1>3
<1>5. [rd EXCEPT ![t][name] = Rope!Max({@, Rope!Most(cells)})] = [rd EXCEPT ![t][name] = z]
  BY <1>3
<1>6. [rd EXCEPT ![t][name] = 0] = rd
  OBVIOUS
<1> QED BY <1>4, <1>5, <1>6

\* What the invariant and the guard say of a thread's step.
LEMMA StepIs ==
  ASSUME RopeInv, NEW t \in DOMAIN lane, Rope!Step(t)
  PROVE  /\ call \in RopeCalls /\ launches # <<>> /\ outcome = "running"
         /\ call' = call /\ launches' = launches /\ outcome' = outcome
         /\ lane \in [Rope!Threads(call, Head(launches)) -> Nat] /\ \A u \in DOMAIN lane : lane[u] <= Len(Ops(call, launches))
         /\ lane[t] < Len(Ops(call, launches)) /\ lane' = [lane EXCEPT ![t] = @ + 1]
         /\ Rope!Perform(t, Head(launches), Ops(call, launches)[lane[t] + 1])
         /\ read = [u \in DOMAIN lane |-> [q |-> 0, k |-> 0]]
         /\ Guarded(call) /\ Ordered(call, launches) /\ CopiesLast(call, launches)
         /\ Written(call, launches, lane, memory)
         /\ \E s : /\ SummedFirst(Head(launches), Ops(call, launches), lane, s)
                   /\ SummedFirst(Head(launches), Ops(call, launches), lane', s)
<1>1. /\ call \in RopeCalls /\ outcome = "running" /\ Underway(call, launches, lane, read)
      /\ Guarded(call) /\ Ordered(call, launches) /\ CopiesLast(call, launches)
      /\ Written(call, launches, lane, memory)
  BY DEF RopeInv, Rope!Step
<1>2. PICK ops : ops = Ops(call, launches)
  OBVIOUS
<1>3. /\ lane[t] < Len(ops) /\ lane' = [lane EXCEPT ![t] = @ + 1]
      /\ Rope!Perform(t, Head(launches), ops[lane[t] + 1])
      /\ call' = call /\ launches' = launches /\ outcome' = outcome
  BY <1>2 DEF Rope!Step, Ops
<1>4. ops[lane[t] + 1][1] # "sum" =>
        \A u \in DOMAIN lane : u.row = t.row => lane[u] >= Rope!Cardinality({j \in DOMAIN ops : ops[j][1] = "sum"})
  BY <1>2 DEF Rope!Step, Ops
<1>5. PICK s : SummedFirst(Head(launches), ops, lane, s)
  BY <1>1, <1>2 DEF Underway, Gate
<1>6. Rope!Cardinality({j \in DOMAIN ops : ops[j][1] = "sum"}) = s
  BY <1>5 DEF SummedFirst, InTurn
<1>7. /\ launches # <<>> /\ lane \in [Rope!Threads(call, Head(launches)) -> Nat]
      /\ read = [u \in DOMAIN lane |-> [q |-> 0, k |-> 0]]
      /\ \A u \in DOMAIN lane : lane[u] <= Len(ops)
  BY <1>1, <1>2 DEF Underway
<1>8. SummedFirst(Head(launches), ops, lane', s)
  <2>1. PICK T : T = Rope!Threads(call, Head(launches))
    OBVIOUS
  <2>2. lane \in [T -> Nat] /\ t \in T /\ DOMAIN lane = T
    BY <1>7, <2>1
  <2>3. PICK new : new = lane'
    OBVIOUS
  <2>4. ops[lane[t] + 1][1] # "sum" => \A u \in T : u.row = t.row => lane[u] >= s
    BY <1>4, <1>6, <2>2
  <2>5. SummedFirst(Head(launches), ops, new, s)
    BY <1>3, <1>5, <2>2, <2>3, <2>4, GateKept
  <2> QED BY <2>3, <2>5
<1> QED BY <1>1, <1>2, <1>3, <1>5, <1>7, <1>8

\* A thread's step keeps what the memory holds in step with what is done.
LEMMA RopeStepped ==
  ASSUME RopeInv, NEW t \in DOMAIN lane, Rope!Step(t)
  PROVE  RopeInv'
<1>1. /\ call \in RopeCalls /\ launches # <<>> /\ outcome = "running"
      /\ call' = call /\ launches' = launches /\ outcome' = outcome
      /\ lane \in [Rope!Threads(call, Head(launches)) -> Nat] /\ \A u \in DOMAIN lane : lane[u] <= Len(Ops(call, launches))
      /\ lane[t] < Len(Ops(call, launches)) /\ lane' = [lane EXCEPT ![t] = @ + 1]
      /\ Rope!Perform(t, Head(launches), Ops(call, launches)[lane[t] + 1])
      /\ read = [u \in DOMAIN lane |-> [q |-> 0, k |-> 0]]
      /\ Guarded(call) /\ Ordered(call, launches) /\ CopiesLast(call, launches)
      /\ Written(call, launches, lane, memory)
  BY StepIs
<1>2. PICK s : /\ SummedFirst(Head(launches), Ops(call, launches), lane, s)
               /\ SummedFirst(Head(launches), Ops(call, launches), lane', s)
  BY StepIs
<1>3. PICK c : c = call
  OBVIOUS
<1>4. PICK ls : ls = launches
  OBVIOUS
<1>5. PICK ln : ln = lane
  OBVIOUS
<1>6. PICK new : new = lane'
  OBVIOUS
<1>7. PICK m : m = memory
  OBVIOUS
<1>8. PICK mm : mm = memory'
  OBVIOUS
<1>9. PICK job : job = Head(ls)
  OBVIOUS
<1>10. PICK ops : ops = Ops(c, ls)
  OBVIOUS
<1>11. PICK op : op = ops[ln[t] + 1]
  OBVIOUS
<1>12. PICK name : name = op[2]
  OBVIOUS
<1>13. /\ c \in RopeCalls /\ ls # <<>> /\ Guarded(c) /\ Ordered(c, ls) /\ CopiesLast(c, ls) /\ Written(c, ls, ln, m)
       /\ ln \in [Rope!Threads(c, job) -> Nat] /\ t \in DOMAIN ln /\ t \in Rope!Threads(c, job)
       /\ ln[t] < Len(ops) /\ new = [ln EXCEPT ![t] = @ + 1]
       /\ InTurn(job, ops, s) /\ SummedFirst(job, ops, ln, s)
  BY <1>1, <1>2, <1>3, <1>4, <1>5, <1>6, <1>7, <1>9, <1>10 DEF SummedFirst
<1>14. job \in LaunchesOf(c) /\ job.kind \in {"rotate", "copy"}
  BY <1>9, <1>13, LaunchesTail, LaunchShape
<1>15. Len(ops) \in Nat /\ ln[t] \in Nat /\ ln[t] + 1 \in 1 .. Len(ops)
  BY <1>13 DEF InTurn
<1>16. OfLaunch(job, name) /\ op[1] \in IF job.kind = "copy" THEN {"copy"} ELSE {"sum", "read", "write"}
  BY <1>11, <1>12, <1>13, <1>15 DEF InTurn
<1>17. name \in RopeNames(c) /\ name \in {"q", "k"}
  <2>1. name \in RopeNames(c)
    BY <1>13, <1>14, <1>16, LaunchShape
  <2> QED BY <2>1 DEF RopeNames
<1>18. PICK W : W = 0 .. Rope!Last(c.q.sh) - 1
  OBVIOUS
<1>19. Within(c, t, name) /\ t.part \subseteq W
  <2>1. Dealt(c, job, name, W)
    BY <1>13, <1>14, <1>16, <1>18, ThreadsDealt
  <2> QED BY <1>13, <2>1 DEF Dealt, Within
<1>20. Advanced(c, ls, ln, new, op, t)
  <2>1. /\ InTurn(Head(ls), Ops(c, ls), s) /\ ln \in [Rope!Threads(c, Head(ls)) -> Nat]
        /\ ln[t] < Len(Ops(c, ls)) /\ op = Ops(c, ls)[ln[t] + 1]
    BY <1>9, <1>10, <1>11, <1>13
  <2> QED BY <1>13, <2>1, FinishedByStep
<1>23. Rope!Perform(t, job, op)
  BY <1>1, <1>3, <1>4, <1>5, <1>9, <1>10, <1>11
<1>24. PICK into : into = Target(c, job, op)
  OBVIOUS
<1>25. into = Into(c, name) /\ (job.kind = "copy" => CopiesBack(c))
  <2>1. /\ job.kind = "rotate" => job.fresh = Afresh(c)
        /\ job.kind = "copy" => job.fresh = TRUE /\ CopiesBack(c)
    BY <1>13, <1>14, LaunchShape
  <2>2. CASE job.kind = "rotate"
    BY <1>12, <1>24, <2>1, <2>2 DEF Into, Target
  <2>3. CASE job.kind = "copy"
    BY <1>12, <1>24, <2>1, <2>3 DEF Into, Target, CopiesBack
  <2> QED BY <1>14, <2>2, <2>3
<1>26. PICK cells : cells = Asked(c, t, op)
  OBVIOUS
<1>27. Reading(t, op, cells) \/ Writing(t, op, into) \/ Copying(t, op, into, c[name])
  BY <1>3, <1>12, <1>23, <1>24, <1>26, PerformIs
<1>28. ASSUME read' = read, Written(c, ls, new, mm) PROVE RopeInv'
  <2>1. DOMAIN new = DOMAIN ln /\ new \in [Rope!Threads(c, job) -> Nat] /\ \A u \in DOMAIN new : new[u] <= Len(ops)
    <3>1. \A u \in DOMAIN ln : ln[u] <= Len(ops)
      BY <1>1, <1>3, <1>4, <1>5, <1>10
    <3> QED BY <1>13, <1>15, <3>1
  <2>2. SummedFirst(job, ops, new, s)
    BY <1>2, <1>3, <1>4, <1>6, <1>9, <1>10
  <2>3. read' = [u \in DOMAIN new |-> [q |-> 0, k |-> 0]]
    BY <1>1, <1>5, <1>28, <2>1
  <2>4. Underway(c, ls, new, read')
    BY <1>9, <1>10, <1>13, <2>1, <2>2, <2>3 DEF Underway, Gate
  <2>5. /\ call' = c /\ launches' = ls /\ lane' = new /\ memory' = mm /\ outcome' = "running"
    BY <1>1, <1>3, <1>4, <1>6, <1>8
  <2> QED BY <1>13, <1>28, <2>4, <2>5 DEF RopeInv
<1>29. CASE Reading(t, op, cells)
  <2>1. PICK D : D = IF op[1] = "sum" THEN W ELSE t.part
    OBVIOUS
  <2>2. op[1] \in {"sum", "read"} /\ mm = m /\ read' = [read EXCEPT ![t][name] = Rope!Max({@, Rope!Most(cells)})]
    BY <1>7, <1>8, <1>12, <1>29 DEF Reading
  <2>3. /\ \A d \in D : Rope!Cell(c[name], Rope!At(t, d)) \notin DOMAIN m
        /\ \A source \in Rope!Readonly(c) : Rope!Cell(source, <<0>>) \notin DOMAIN m
    <3>1. /\ Gate(c, ls, ln) /\ ln \in [Rope!Threads(c, Head(ls)) -> Nat]
          /\ ln[t] < Len(Ops(c, ls)) /\ op = Ops(c, ls)[ln[t] + 1]
      BY <1>9, <1>10, <1>11, <1>13 DEF Gate
    <3>2. Unwritten(c, m, t, op)
      BY <1>13, <2>2, <3>1, ReadsFirst
    <3> QED BY <1>12, <1>18, <2>1, <3>2 DEF Unwritten, Wanted
  <2>4. Rope!Last(c[name].sh) = Rope!Last(c.q.sh)
    BY <1>13, <1>17, RopeAssumption DEF Rope!Last
  <2>5. cells = {Rope!Cell(c[name], Rope!At(t, d)) : d \in D} \cup {Rope!Cell(source, <<0>>) : source \in Rope!Readonly(c)}
    BY <1>12, <1>18, <1>26, <2>1, <2>4 DEF Asked
  <2>6. cells # {} /\ \A cell \in cells : cell \notin DOMAIN memory
    <3>1. c.freqs \in Rope!Readonly(c)
      BY DEF Rope!Readonly
    <3>2. Rope!Cell(c.freqs, <<0>>) \in cells
      BY <2>5, <3>1
    <3> QED BY <1>7, <2>3, <2>5, <3>2
  <2>7. read' = read
    <3>1. [read EXCEPT ![t][name] = Rope!Max({@, Rope!Most(cells)})] = read
      <4>1. PICK T, rd : T = DOMAIN lane /\ rd = read
        OBVIOUS
      <4>2. rd = [u \in T |-> [q |-> 0, k |-> 0]] /\ t \in T
        BY <1>1, <4>1
      <4>3. [rd EXCEPT ![t][name] = Rope!Max({@, Rope!Most(cells)})] = rd
        BY <1>17, <2>6, <4>2, ZeroRead
      <4> QED BY <4>1, <4>3
    <3> QED BY <2>2, <3>1
  <2>8. Written(c, ls, new, mm)
    <3>1. \A kind, o, i : ~Finishing(ls, op, t, kind, o, i)
      BY <2>2 DEF Finishing, Final
    <3>2. \A o \in RopeNames(c) : \A i \in Rope!Indices(c[o].sh) :
            /\ Finished(c, ls, new, "rotate", o, i) <=> Finished(c, ls, ln, "rotate", o, i)
            /\ CopiesBack(c) => (Finished(c, ls, new, "copy", o, i) <=> Finished(c, ls, ln, "copy", o, i))
      BY <1>20, <3>1 DEF Advanced
    <3> QED BY <1>13, <2>2, <3>2, WrittenSame
  <2> QED BY <1>28, <2>7, <2>8
<1>30. CASE Writing(t, op, into)
  <2>1. PICK f : f = [cell \in {Rope!Cell(into, Rope!At(t, d)) : d \in t.part} |->
          [of |-> <<op[2], Rope!At(t, CHOOSE d \in t.part : Rope!Cell(into, Rope!At(t, d)) = cell)>>,
           turns |-> read[t][op[2]] + 1]]
    OBVIOUS
  <2>2. op[1] = "write" /\ op[2] = name /\ read' = read /\ mm = Rope!Written(f)
    BY <1>8, <1>12, <1>30, <2>1 DEF Writing
  <2>3. read[t][name] + 1 = 1
    BY <1>1, <1>17
  <2>4. DOMAIN f = {Rope!Cell(Into(c, name), Rope!At(t, d)) : d \in t.part}
    BY <1>25, <2>1
  <2>5. ASSUME NEW d \in t.part
        PROVE  f[Rope!Cell(Into(c, name), Rope!At(t, d))] = Value(name, Rope!At(t, d))
    <3>1. PICK cell : cell = Rope!Cell(into, Rope!At(t, d))
      OBVIOUS
    <3>2. PICK o : o = CHOOSE x \in t.part : Rope!Cell(into, Rope!At(t, x)) = cell
      OBVIOUS
    <3>3. o \in t.part /\ Rope!Cell(into, Rope!At(t, o)) = cell
      BY <3>1, <3>2
    <3>4. Rope!At(t, o) = Rope!At(t, d)
      <4>1. CellEach(into) /\ into.sh = c[name].sh
        BY <1>13, <1>17, <1>25, RopeGeometry
      <4>2. Rope!At(t, o) \in Rope!Indices(into.sh) /\ Rope!At(t, d) \in Rope!Indices(into.sh)
        BY <1>19, <3>3, <4>1 DEF Within
      <4> QED BY <3>1, <3>3, <4>1, <4>2 DEF CellEach
    <3>5. f[cell] = [of |-> <<name, Rope!At(t, o)>>, turns |-> 1]
      <4>1. cell \in {Rope!Cell(into, Rope!At(t, x)) : x \in t.part}
        BY <3>1
      <4>2. f[cell] = [of |-> <<op[2], Rope!At(t, CHOOSE x \in t.part : Rope!Cell(into, Rope!At(t, x)) = cell)>>,
                       turns |-> read[t][op[2]] + 1]
        BY <2>1, <4>1
      <4> QED BY <2>2, <2>3, <3>2, <4>2
    <3> QED BY <1>25, <3>1, <3>4, <3>5 DEF Value
  <2>6. Over(f, m, mm)
    BY <1>7, <2>2, WrittenIs
  <2>7. Head(ls).kind = "rotate" /\ OfLaunch(Head(ls), name)
    BY <1>9, <1>14, <1>16, <2>2
  <2>9. Gives(f, t, Into(c, name), name)
    BY <2>4, <2>5 DEF Gives
  <2>8. Written(c, ls, new, mm)
    BY <1>13, <1>17, <1>19, <1>20, <2>2, <2>6, <2>7, <2>9, WrittenByWrite
  <2> QED BY <1>28, <2>2, <2>8
<1>31. CASE Copying(t, op, into, c[name])
  <2>1. PICK f : f = [cell \in {Rope!Cell(c[name], Rope!At(t, d)) : d \in t.part} |->
          Rope!Holds(Rope!Cell(into, Rope!At(t, CHOOSE d \in t.part : Rope!Cell(c[name], Rope!At(t, d)) = cell)))]
    OBVIOUS
  <2>2. op[1] = "copy" /\ op[2] = name /\ read' = read /\ mm = Rope!Written(f)
    BY <1>8, <1>12, <1>31, <2>1 DEF Copying
  <2>3. job.kind = "copy" /\ CopiesBack(c) /\ c.inplace
    BY <1>14, <1>16, <1>25, <2>2 DEF CopiesBack
  <2>4. DOMAIN f = {Rope!Cell(c[name], Rope!At(t, d)) : d \in t.part}
    BY <2>1
  <2>5. ASSUME NEW d \in t.part
        PROVE  f[Rope!Cell(c[name], Rope!At(t, d))] = Value(name, Rope!At(t, d))
    <3>1. PICK cell : cell = Rope!Cell(c[name], Rope!At(t, d))
      OBVIOUS
    <3>2. PICK o : o = CHOOSE x \in t.part : Rope!Cell(c[name], Rope!At(t, x)) = cell
      OBVIOUS
    <3>3. o \in t.part /\ Rope!Cell(c[name], Rope!At(t, o)) = cell
      BY <3>1, <3>2
    <3>4. Rope!At(t, o) = Rope!At(t, d)
      <4>1. CellEach(c[name])
        BY <1>13, <1>17, <2>3, AllowedApart
      <4> QED BY <1>19, <3>1, <3>3, <4>1 DEF CellEach, Within
    <3>5. f[cell] = Rope!Holds(Rope!Cell(into, Rope!At(t, o)))
      <4>1. cell \in {Rope!Cell(c[name], Rope!At(t, x)) : x \in t.part}
        BY <3>1
      <4> QED BY <2>1, <3>2, <4>1
    <3>6. ~Ahead(ls, "rotate", name)
      BY <1>9, <1>13, <2>3, LaunchesTail
    <3>7. Finished(c, ls, ln, "rotate", name, Rope!At(t, d))
      BY <3>6 DEF Finished
    <3>8. /\ Rope!Cell(into, Rope!At(t, d)) \in DOMAIN memory
          /\ memory[Rope!Cell(into, Rope!At(t, d))] = Value(name, Rope!At(t, d))
      BY <1>7, <1>13, <1>17, <1>19, <1>25, <3>7 DEF Written, Within
    <3>9. Rope!Holds(Rope!Cell(into, Rope!At(t, d))) = Value(name, Rope!At(t, d))
      BY <3>8 DEF Rope!Holds
    <3> QED BY <3>1, <3>4, <3>5, <3>9
  <2>6. Over(f, m, mm)
    BY <1>7, <2>2, WrittenIs
  <2>7. Head(ls).kind = "copy" /\ OfLaunch(Head(ls), name)
    BY <1>9, <1>16, <2>3
  <2>9. Gives(f, t, c[name], name)
    BY <2>4, <2>5 DEF Gives
  <2>8. Written(c, ls, new, mm)
    BY <1>13, <1>17, <1>19, <1>20, <2>2, <2>3, <2>6, <2>7, <2>9, WrittenByCopy
  <2> QED BY <1>28, <2>2, <2>8
<1> QED BY <1>27, <1>29, <1>30, <1>31

\* Every step of a rotary embedding keeps the invariant.
LEMMA RopeKept ==
  ASSUME RopeInv, Rope!Next
  PROVE  RopeInv'
BY RopeCalled, RopeLaunched, RopeStepped DEF Rope!Next

\* Done, each element of each result is rotated once, and nothing else is written.
LEMMA RopeDone ==
  RopeInv => Rope!RotatedOnce
<1> SUFFICES ASSUME RopeInv, outcome = "done" PROVE Rope!RotatedOnce
  BY DEF Rope!RotatedOnce
<1>1. call \in RopeCalls /\ launches = <<>> /\ Guarded(call) /\ Written(call, launches, lane, memory)
  BY DEF RopeInv
<1>2. \A kind, name, i : Finished(call, launches, lane, kind, name, i)
  <2>1. DOMAIN launches = {}
    BY <1>1
  <2> QED BY <2>1 DEF Finished, Ahead
<1> DEFINE dest(name) == IF call.inplace THEN call[name] ELSE Rope!Fresh(call, name)
<1> DEFINE names == {Rope!Operands(call)[j] : j \in DOMAIN Rope!Operands(call)}
<1> DEFINE targets == UNION {{Rope!Cell(dest(name), i) : i \in Rope!Indices(call[name].sh)} : name \in names}
<1> DEFINE scratch == IF Rope!Plan(call) = Rope!EagerRope(call) THEN {"out_q", "out_k"} ELSE {}
<1>3. names = RopeNames(call)
  <2>1. call.two \in BOOLEAN
    BY <1>1, RopeAssumption
  <2> QED BY <2>1 DEF Rope!Operands, RopeNames
<1>4. ASSUME NEW name \in RopeNames(call)
      PROVE  \/ dest(name) = Into(call, name) /\ ~CopiesBack(call)
             \/ dest(name) = call[name] /\ CopiesBack(call)
  BY DEF Into, CopiesBack, Afresh
<1>5. ASSUME NEW name \in names, NEW i \in Rope!Indices(call[name].sh)
      PROVE  Rope!Holds(Rope!Cell(dest(name), i)) = [of |-> <<name, i>>, turns |-> 1]
  <2>1. Rope!Cell(dest(name), i) \in DOMAIN memory /\ memory[Rope!Cell(dest(name), i)] = Value(name, i)
    <3> HIDE DEF dest
    <3> QED BY <1>1, <1>2, <1>3, <1>4, <1>5 DEF Written
  <2> HIDE DEF dest
  <2> QED BY <2>1 DEF Rope!Holds, Value
<1>6. ASSUME NEW cell \in DOMAIN memory
      PROVE  cell \in targets \/ cell[1] \in scratch
  <2>1. PICK name \in RopeNames(call) : \E i \in Rope!Indices(call[name].sh) :
          cell = Rope!Cell(Into(call, name), i) \/ (CopiesBack(call) /\ cell = Rope!Cell(call[name], i))
    BY <1>1, <1>6 DEF Written
  <2>2. PICK i \in Rope!Indices(call[name].sh) :
          cell = Rope!Cell(Into(call, name), i) \/ (CopiesBack(call) /\ cell = Rope!Cell(call[name], i))
    BY <2>1
  <2>3. CASE cell = Rope!Cell(dest(name), i)
    <3> HIDE DEF dest
    <3>1. cell \in {Rope!Cell(dest(name), o) : o \in Rope!Indices(call[name].sh)}
      BY <2>3
    <3> QED BY <1>3, <3>1
  <2>4. CASE cell # Rope!Cell(dest(name), i)
    <3>1. CopiesBack(call) /\ cell = Rope!Cell(Into(call, name), i)
      BY <1>4, <2>2, <2>4
    <3>2. Rope!Plan(call) = Rope!EagerRope(call) /\ Into(call, name) = Rope!Fresh(call, name)
      BY <3>1 DEF CopiesBack, Afresh, Into
    <3>3. cell[1] = Rope!Fresh(call, name).store
      BY <3>1, <3>2 DEF Rope!Cell
    <3>4. cell[1] \in {"out_q", "out_k"}
      BY <1>1, <3>3, FreshViews
    <3> QED BY <3>2, <3>4
  <2> QED BY <2>3, <2>4
<1> QED BY <1>5, <1>6 DEF Rope!RotatedOnce

\* So does a step of another kernel.
LEMMA RopeIdle ==
  ASSUME RopeInv, UNCHANGED rope_vars
  PROVE  RopeInv'
BY DEF RopeInv, rope_vars, Underway, Gate

RopePart == kernel = "rope" => RopeInv

LEMMA RopePartInit == ReductionsInit => RopePart
BY RopeStarts DEF ReductionsInit, RopePart

LEMMA RopePartNext == ASSUME RopePart, [ReductionsNext]_reductions_vars PROVE RopePart'
<1> SUFFICES ASSUME kernel' = "rope" PROVE RopeInv'
  BY DEF RopePart
<1>1. CASE UNCHANGED reductions_vars
  BY <1>1, RopeIdle DEF reductions_vars, RopePart
<1>2. CASE ReductionsNext
  BY <1>2, RopeKept, RopeIdle DEF ReductionsNext, RopePart
<1> QED BY <1>1, <1>2

\* Whatever the order of the threads, a rotary embedding that is not refused leaves each
\* element of its results rotated once from the values the call began with, and writes
\* nothing else.
THEOREM RotatesOnce ==
  ReductionsSpec => []RotatedOnce
<1>1. ReductionsInit => RopePart
  BY RopePartInit
<1>2. RopePart /\ [ReductionsNext]_reductions_vars => RopePart'
  BY RopePartNext
<1>3. RopePart => RotatedOnce
  BY RopeDone DEF RotatedOnce, RopePart
<1> QED BY <1>1, <1>2, <1>3, PTL DEF ReductionsSpec

-----------------------------------------------------------------------------
(* The graph of the cut. *)

\* What the constants of the graph say of its slots.
LEMMA CutGraph ==
  /\ N \in Nat /\ Cut!Nodes = 0 .. N - 1 /\ Cut!Big = N + 2
  /\ \A i \in Cut!Nodes : Cut!Slots(i) \in Nat
  /\ \A i \in Cut!Nodes : \A s \in 1 .. Cut!Slots(i) :
       /\ Neighbours[i][s] \in Cut!Nodes
       /\ <<i, Neighbours[i][s]>> \in Cut!Edges
       /\ <<Neighbours[i][s], i>> \in Cut!Edges
  /\ \A i, j \in Cut!Nodes : <<i, j>> \in Cut!Edges =>
       \E s \in 1 .. Cut!Slots(i) : Neighbours[i][s] = j
<1>1. N \in Nat /\ Cut!Nodes = 0 .. N - 1 /\ Cut!Big = N + 2
  BY CutAssumption DEF Cut!Nodes, Cut!Big
<1>2. ASSUME NEW i \in Cut!Nodes
      PROVE  /\ Cut!Slots(i) \in Nat /\ DOMAIN Neighbours[i] = 1 .. Cut!Slots(i)
             /\ \A s \in 1 .. Cut!Slots(i) : Neighbours[i][s] \in Cut!Nodes
  <2>1. Neighbours[i] \in Seq(0 .. N - 1)
    BY <1>1, CutAssumption
  <2> QED BY <1>1, <2>1 DEF Cut!Slots
<1>3. ASSUME NEW i \in Cut!Nodes, NEW s \in 1 .. Cut!Slots(i)
      PROVE  <<i, Neighbours[i][s]>> \in Cut!Edges /\ <<Neighbours[i][s], i>> \in Cut!Edges
  <2>1. Neighbours[i][s] \in Cut!Nodes /\ s \in DOMAIN Neighbours[i]
    BY <1>2
  <2>2. \E t \in DOMAIN Neighbours[Neighbours[i][s]] : Neighbours[Neighbours[i][s]][t] = i
    BY <1>1, <2>1, CutAssumption
  <2> QED BY <2>1, <2>2 DEF Cut!Edges
<1>4. ASSUME NEW i \in Cut!Nodes, NEW j \in Cut!Nodes, <<i, j>> \in Cut!Edges
      PROVE  \E s \in 1 .. Cut!Slots(i) : Neighbours[i][s] = j
  BY <1>2, <1>4 DEF Cut!Edges
<1> QED BY <1>1, <1>2, <1>3, <1>4

\* The sums of MinCut are those of Iteration.
LEMMA CutSums == \A m, f : Cut!Total(m, f) = Total(m, f)
BY DEF Cut!Total, Total

\* A neighbour has one slot.
LEMMA OneSlot ==
  ASSUME NEW i \in Cut!Nodes, NEW s \in 1 .. Cut!Slots(i), NEW t \in 1 .. Cut!Slots(i),
         Neighbours[i][s] = Neighbours[i][t]
  PROVE  s = t
<1>1. i \in 0 .. N - 1
  BY CutGraph
<1>2. Neighbours[i] \in Seq(0 .. N - 1)
  BY <1>1, CutAssumption
<1>3. s \in DOMAIN Neighbours[i] /\ t \in DOMAIN Neighbours[i]
  BY <1>2 DEF Cut!Slots
<1> QED BY <1>1, <1>3, CutAssumption

LEMMA EdgeEnds ==
  ASSUME NEW ij \in Cut!Edges
  PROVE  /\ ij[1] \in Cut!Nodes /\ ij[2] \in Cut!Nodes /\ ij = <<ij[1], ij[2]>>
         /\ Cut!Back(ij) = <<ij[2], ij[1]>> /\ Cut!Back(ij) \in Cut!Edges
         /\ \E s \in 1 .. Cut!Slots(ij[1]) : Neighbours[ij[1]][s] = ij[2]
<1>1. PICK i, j : i = ij[1] /\ j = ij[2] /\ ij = <<i, j>> /\ i \in Cut!Nodes /\ j \in Cut!Nodes
                /\ <<i, j>> \in Cut!Edges
  <2>1. ij \in Cut!Nodes \X Cut!Nodes
    BY DEF Cut!Edges
  <2>2. ij = <<ij[1], ij[2]>> /\ ij[1] \in Cut!Nodes /\ ij[2] \in Cut!Nodes
    BY <2>1
  <2> QED BY <2>2
<1>2. PICK s \in 1 .. Cut!Slots(i) : Neighbours[i][s] = j
  BY <1>1, CutGraph
<1>3. <<j, i>> \in Cut!Edges
  BY <1>1, <1>2, CutGraph
<1> QED BY <1>1, <1>2, <1>3 DEF Cut!Back

-----------------------------------------------------------------------------
(* The search from the sink. *)

Residual(i, j) == <<i, j>> \in Cut!Edges /\ r[<<i, j>>] > 0

Found(f, d, i) ==
  /\ f[i] = Cut!Big
  /\ \E j \in Cut!Nodes : <<i, j>> \in Cut!Edges /\ f[j] = d /\ r[<<i, j>>] > 0
Stage(d, f) == [i \in Cut!Nodes |-> IF Found(f, d, i) THEN d + 1 ELSE f[i]]
Terminals == [i \in Cut!Nodes |-> IF rt[i] > 0 THEN 1 ELSE Cut!Big]

Searched(L) ==
  /\ L \in [0 .. N -> [Cut!Nodes -> 1 .. Cut!Big]]
  /\ L[0] = Terminals
  /\ \A d \in 1 .. N : L[d] = Stage(d, L[d - 1])

\* The search is N rounds of labels.
LEMMA SearchRuns == \E L : Searched(L) /\ Cut!global_relabel = L[N]
<1> DEFINE S == [Cut!Nodes -> 1 .. Cut!Big]
           G == [d \in 1 .. N |-> [f \in S |-> Stage(d, f)]]
           Eq(L) == L = [d \in 0 .. N |-> IF d = 0 THEN Terminals ELSE Stage(d, L[d - 1])]
           a == CHOOSE L : Eq(L)
<1>1. Terminals \in S
  BY CutGraph DEF Terminals
<1>2. ASSUME NEW d \in 1 .. N, NEW f \in S PROVE Stage(d, f) \in S
  <2>1. d + 1 \in 1 .. Cut!Big
    BY CutGraph
  <2> QED BY <2>1 DEF Stage
<1>3. G \in StepFcns(N, S)
  <2> HIDE DEF S
  <2> QED BY <1>2 DEF StepFcns
<1>4. PICK L : IsIteration(L, N, S, Terminals, G)
  <2> HIDE DEF G, S
  <2> QED BY <1>1, <1>3, CutGraph, IterationExists
<1>5. L \in [0 .. N -> S] /\ L[0] = Terminals /\ \A d \in 1 .. N : L[d] = G[d][L[d - 1]]
  BY <1>4 DEF IsIteration
<1>6. \A d \in 1 .. N : L[d] = Stage(d, L[d - 1])
  <2> TAKE d \in 1 .. N
  <2>1. d - 1 \in 0 .. N
    BY CutGraph
  <2>2. L[d - 1] \in S
    BY <1>5, <2>1
  <2>3. G[d][L[d - 1]] = Stage(d, L[d - 1])
    BY <2>2
  <2> HIDE DEF G
  <2> QED BY <1>5, <2>3
<1>7. Eq(L)
  <2>1. L = [d \in 0 .. N |-> L[d]]
    BY <1>5
  <2>2. \A d \in 0 .. N : L[d] = IF d = 0 THEN Terminals ELSE Stage(d, L[d - 1])
    BY <1>5, <1>6, CutGraph
  <2> QED BY <2>1, <2>2
<1>8. Eq(a)
  <2> HIDE DEF Eq
  <2> QED BY <1>7
<1>9. Cut!global_relabel = a[N]
  BY DEF Cut!global_relabel, Terminals, Stage, Found
<1> HIDE DEF a
<1>10. DOMAIN a = 0 .. N /\ a[0] = Terminals /\ \A d \in 1 .. N : a[d] = Stage(d, a[d - 1])
  BY <1>8, CutGraph
<1> DEFINE T == {d \in 0 .. N : a[d] \in S}
<1>11. 0 \in T
  BY <1>1, <1>10, CutGraph
<1>12. ASSUME NEW d \in 0 .. N - 1, d \in T PROVE d + 1 \in T
  <2>1. d + 1 \in 1 .. N /\ d + 1 \in 0 .. N /\ (d + 1) - 1 = d /\ a[d] \in S
    BY <1>12, CutGraph
  <2>2. a[d + 1] = Stage(d + 1, a[d])
    BY <1>10, <2>1
  <2>3. a[d + 1] \in S
    BY <1>2, <2>1, <2>2
  <2> QED BY <2>1, <2>3
<1>13. 0 .. N \subseteq T
  <2> HIDE DEF T
  <2> QED BY <1>11, <1>12, CutGraph, SetInduction
<1>14. a \in [0 .. N -> S]
  <2>1. a = [d \in 0 .. N |-> a[d]]
    BY <1>8
  <2>2. \A d \in 0 .. N : a[d] \in S
    BY <1>13
  <2> HIDE DEF S
  <2> QED BY <2>1, <2>2
<1> QED BY <1>9, <1>10, <1>14 DEF Searched

Levelled(L, d, i) == L[d][i] <= d + 1 \/ L[d][i] = Cut!Big
Descends(L, d, i, j) == Residual(i, j) /\ L[d][j] <= d => L[d][i] <= L[d][j] + 1
Preceded(L, d, i) == L[d][i] \in 2 .. d + 1 => \E j \in Cut!Nodes : L[d][j] = L[d][i] - 1

\* One stage labels more nodes, one above the labels of the stage before.
LEMMA StageStep ==
  ASSUME NEW L, Searched(L), NEW d \in 0 .. N - 1, NEW i \in Cut!Nodes
  PROVE  /\ d \in 0 .. N /\ d + 1 \in 1 .. N /\ d + 1 \in 0 .. N
         /\ L[d][i] \in 1 .. Cut!Big /\ L[d + 1][i] \in 1 .. Cut!Big
         /\ L[d][i] # Cut!Big => L[d + 1][i] = L[d][i]
         /\ L[d][i] = Cut!Big =>
              \/ L[d + 1][i] = Cut!Big /\ \A j \in Cut!Nodes : Residual(i, j) => L[d][j] # d + 1
              \/ L[d + 1][i] = d + 2 /\ \E j \in Cut!Nodes : Residual(i, j) /\ L[d][j] = d + 1
<1>1. d \in 0 .. N /\ d + 1 \in 1 .. N /\ d + 1 \in 0 .. N /\ (d + 1) - 1 = d /\ (d + 1) + 1 = d + 2
  BY CutGraph
<1>2. L[d] \in [Cut!Nodes -> 1 .. Cut!Big] /\ L[d + 1] \in [Cut!Nodes -> 1 .. Cut!Big]
      /\ L[d + 1] = Stage(d + 1, L[d])
  BY <1>1 DEF Searched
<1>3. L[d + 1][i] = IF Found(L[d], d + 1, i) THEN d + 2 ELSE L[d][i]
  BY <1>1, <1>2 DEF Stage
<1>4. L[d][i] \in 1 .. Cut!Big /\ L[d + 1][i] \in 1 .. Cut!Big
  BY <1>2
<1>5. Found(L[d], d + 1, i) <=>
        L[d][i] = Cut!Big /\ \E j \in Cut!Nodes : Residual(i, j) /\ L[d][j] = d + 1
  BY DEF Found, Residual
<1> QED BY <1>1, <1>3, <1>4, <1>5

\* After d rounds a label is at most d + 1, or none.
LEMMA LabelsLevelled ==
  ASSUME NEW L, Searched(L) PROVE \A d \in 0 .. N : \A i \in Cut!Nodes : Levelled(L, d, i)
<1> DEFINE P(d) == \A i \in Cut!Nodes : Levelled(L, d, i)
           T == {d \in 0 .. N : P(d)}
<1>1. P(0)
  BY CutGraph DEF Searched, Terminals, Levelled
<1>2. ASSUME NEW d \in 0 .. N - 1, P(d) PROVE P(d + 1)
  <2> SUFFICES ASSUME NEW i \in Cut!Nodes PROVE Levelled(L, d + 1, i)
    OBVIOUS
  <2>1. L[d][i] <= d + 1 \/ L[d][i] = Cut!Big
    BY <1>2 DEF Levelled
  <2>2. L[d][i] \in Int /\ d \in Int
    BY StageStep, CutGraph
  <2> QED BY <2>1, <2>2, StageStep DEF Levelled
<1> HIDE DEF P
<1>3. 0 \in T
  BY <1>1, CutGraph
<1>4. ASSUME NEW d \in 0 .. N - 1, d \in T PROVE d + 1 \in T
  <2>1. P(d) /\ d + 1 \in 0 .. N
    BY <1>4, CutGraph
  <2> QED BY <1>2, <2>1
<1>5. 0 .. N \subseteq T
  <2> HIDE DEF T
  <2> QED BY <1>3, <1>4, CutGraph, SetInduction
<1> QED BY <1>5 DEF P

\* A round labels what has an edge to a node labelled before.
LEMMA LabelsDescend ==
  ASSUME NEW L, Searched(L)
  PROVE  \A d \in 0 .. N : \A i, j \in Cut!Nodes : Descends(L, d, i, j)
<1> DEFINE P(d) == \A i, j \in Cut!Nodes : Descends(L, d, i, j)
           T == {d \in 0 .. N : P(d)}
<1>1. P(0)
  <2> SUFFICES ASSUME NEW i \in Cut!Nodes, NEW j \in Cut!Nodes PROVE ~(L[0][j] <= 0)
    BY DEF Descends
  <2>1. L[0] \in [Cut!Nodes -> 1 .. Cut!Big]
    BY CutGraph DEF Searched
  <2> QED BY <2>1, CutGraph
<1>2. ASSUME NEW d \in 0 .. N - 1, P(d) PROVE P(d + 1)
  <2> SUFFICES ASSUME NEW i \in Cut!Nodes, NEW j \in Cut!Nodes, Residual(i, j), L[d + 1][j] <= d + 1
               PROVE  L[d + 1][i] <= L[d + 1][j] + 1
    BY DEF Descends
  <2>1. d \in Nat /\ L[d][j] \in Int /\ L[d + 1][j] \in Int /\ L[d][i] \in Int /\ L[d + 1][i] \in Int
        /\ Cut!Big = N + 2 /\ N \in Nat /\ d + 1 <= N
    <3>1. L[d][j] \in 1 .. Cut!Big /\ L[d + 1][j] \in 1 .. Cut!Big
      BY StageStep
    <3>2. L[d][i] \in 1 .. Cut!Big /\ L[d + 1][i] \in 1 .. Cut!Big
      BY StageStep
    <3>3. N \in Nat /\ Cut!Big = N + 2
      BY CutGraph
    <3>4. d \in Nat /\ d + 1 <= N
      BY <3>3
    <3>5. 1 .. Cut!Big \subseteq Int
      OBVIOUS
    <3> HIDE DEF P, T
    <3> QED BY ONLY <3>1, <3>2, <3>3, <3>4, <3>5
  <2>2. L[d + 1][j] = L[d][j]
    BY <2>1, StageStep
  <2>3. L[d][i] <= d + 1 \/ L[d][i] = Cut!Big
    BY <2>1, LabelsLevelled, StageStep DEF Levelled
  <2>4. CASE L[d][j] <= d
    <3>1. L[d][i] <= L[d][j] + 1
      BY <1>2, <2>4 DEF Descends
    <3>2. L[d + 1][i] = L[d][i]
      BY <2>1, <2>4, <3>1, StageStep
    <3> QED BY <2>2, <3>1, <3>2
  <2>5. CASE L[d][j] = d + 1
    <3>1. L[d + 1][i] <= d + 2
      <4>1. CASE L[d][i] = Cut!Big
        BY <2>1, <2>5, <4>1, StageStep
      <4>2. CASE L[d][i] # Cut!Big
        BY <2>1, <2>3, <4>2, StageStep
      <4> QED BY <4>1, <4>2
    <3> QED BY <2>1, <2>2, <2>5, <3>1
  <2> QED BY <2>1, <2>2, <2>4, <2>5
<1> HIDE DEF P
<1>3. 0 \in T
  BY <1>1, CutGraph
<1>4. ASSUME NEW d \in 0 .. N - 1, d \in T PROVE d + 1 \in T
  <2>1. P(d) /\ d + 1 \in 0 .. N
    BY <1>4, CutGraph
  <2> QED BY <1>2, <2>1
<1>5. 0 .. N \subseteq T
  <2> HIDE DEF T
  <2> QED BY <1>3, <1>4, CutGraph, SetInduction
<1> QED BY <1>5 DEF P

\* Below every label is one smaller by one.
LEMMA LabelsPreceded ==
  ASSUME NEW L, Searched(L) PROVE \A d \in 0 .. N : \A i \in Cut!Nodes : Preceded(L, d, i)
<1> DEFINE P(d) == \A i \in Cut!Nodes : Preceded(L, d, i)
           T == {d \in 0 .. N : P(d)}
<1>1. P(0)
  BY DEF Preceded
<1>2. ASSUME NEW d \in 0 .. N - 1, P(d) PROVE P(d + 1)
  <2> SUFFICES ASSUME NEW i \in Cut!Nodes, L[d + 1][i] \in 2 .. (d + 1) + 1
               PROVE  \E j \in Cut!Nodes : L[d + 1][j] = L[d + 1][i] - 1
    BY DEF Preceded
  <2>1. d \in Nat /\ L[d][i] \in Int /\ L[d + 1][i] \in Int
        /\ Cut!Big = N + 2 /\ N \in Nat /\ d + 1 <= N
    BY StageStep, CutGraph
  <2>2. PICK j \in Cut!Nodes : L[d][j] = L[d + 1][i] - 1
    <3>1. CASE L[d][i] # Cut!Big
      <4>1. L[d + 1][i] = L[d][i]
        BY <3>1, StageStep
      <4>2. L[d][i] <= d + 1
        BY <3>1, LabelsLevelled, StageStep DEF Levelled
      <4>3. L[d][i] \in 2 .. d + 1
        BY <2>1, <4>1, <4>2
      <4>4. \E j \in Cut!Nodes : L[d][j] = L[d][i] - 1
        BY <1>2, <4>3 DEF Preceded
      <4> QED BY <4>1, <4>4
    <3>2. CASE L[d][i] = Cut!Big
      <4>1. L[d + 1][i] = d + 2 /\ \E j \in Cut!Nodes : Residual(i, j) /\ L[d][j] = d + 1
        BY <2>1, <3>2, StageStep
      <4>2. L[d + 1][i] - 1 = d + 1
        BY <2>1, <4>1
      <4> QED BY <4>1, <4>2
    <3> QED BY <3>1, <3>2
  <2>3. L[d][j] # Cut!Big
    BY <2>1, <2>2
  <2>4. L[d + 1][j] = L[d][j]
    BY <2>3, StageStep
  <2> QED BY <2>2, <2>4
<1> HIDE DEF P
<1>3. 0 \in T
  BY <1>1, CutGraph
<1>4. ASSUME NEW d \in 0 .. N - 1, d \in T PROVE d + 1 \in T
  <2>1. P(d) /\ d + 1 \in 0 .. N
    BY <1>4, CutGraph
  <2> QED BY <1>2, <2>1
<1>5. 0 .. N \subseteq T
  <2> HIDE DEF T
  <2> QED BY <1>3, <1>4, CutGraph, SetInduction
<1> QED BY <1>5 DEF P

\* A node with an edge to the sink keeps label 1.
LEMMA TerminalsFirst ==
  ASSUME NEW L, Searched(L), NEW i \in Cut!Nodes, rt[i] > 0
  PROVE  \A d \in 0 .. N : L[d][i] = 1
<1> DEFINE T == {d \in 0 .. N : L[d][i] = 1}
<1>1. 0 \in T
  BY CutGraph DEF Searched, Terminals
<1>2. ASSUME NEW d \in 0 .. N - 1, d \in T PROVE d + 1 \in T
  BY <1>2, StageStep, CutGraph
<1>3. 0 .. N \subseteq T
  <2> HIDE DEF T
  <2> QED BY <1>1, <1>2, CutGraph, SetInduction
<1> QED BY <1>3

\* There are not enough nodes for a label above N.
LEMMA LabelsUpToN ==
  ASSUME NEW L, Searched(L), NEW i \in Cut!Nodes PROVE L[N][i] # N + 1
<1> SUFFICES ASSUME L[N][i] = N + 1 PROVE FALSE
  OBVIOUS
<1>1. N \in Nat /\ N \in 0 .. N /\ Cut!Nodes = 0 .. N - 1
  BY CutGraph
<1> DEFINE Used(c) == \E j \in Cut!Nodes : L[N][j] = c
           T == {c \in 0 .. N : Used((N + 1) - c)}
<1>2. 0 \in T
  BY <1>1
<1>3. ASSUME NEW c \in 0 .. N - 1, c \in T PROVE c + 1 \in T
  <2>1. PICK j \in Cut!Nodes : L[N][j] = (N + 1) - c
    BY <1>3
  <2>2. L[N][j] \in 2 .. N + 1
    BY <1>1, <2>1
  <2>3. \E k \in Cut!Nodes : L[N][k] = L[N][j] - 1
    BY <1>1, <2>2, LabelsPreceded DEF Preceded
  <2>4. L[N][j] - 1 = (N + 1) - (c + 1) /\ c + 1 \in 0 .. N
    BY <1>1, <2>1
  <2> QED BY <2>3, <2>4
<1>4. 0 .. N \subseteq T
  <2> HIDE DEF T
  <2> QED BY <1>1, <1>2, <1>3, SetInduction
<1>5. \A c \in 1 .. N + 1 : Used(c)
  <2> TAKE c \in 1 .. N + 1
  <2>1. (N + 1) - c \in 0 .. N /\ (N + 1) - ((N + 1) - c) = c
    BY <1>1
  <2>2. (N + 1) - c \in T
    BY <1>4, <2>1
  <2>3. Used((N + 1) - ((N + 1) - c))
    BY <2>2
  <2> QED BY <2>1, <2>3
<1> DEFINE w == [c \in 1 .. N + 1 |-> CHOOSE j \in Cut!Nodes : L[N][j] = c]
<1>6. \A c \in 1 .. N + 1 : w[c] \in 0 .. N - 1 /\ L[N][w[c]] = c
  BY <1>1, <1>5
<1>7. w \in [1 .. N + 1 -> 0 .. N - 1]
  BY <1>6
<1>8. /\ IsFiniteSet(1 .. N + 1) /\ Cardinality(1 .. N + 1) = N + 1
      /\ IsFiniteSet(0 .. N - 1) /\ Cardinality(0 .. N - 1) = N
  <2>1. 1 \in Int /\ N + 1 \in Int /\ 0 \in Int /\ N - 1 \in Int
    BY <1>1
  <2>2. IsFiniteSet(1 .. N + 1) /\ Cardinality(1 .. N + 1) = IF 1 > N + 1 THEN 0 ELSE (N + 1) - 1 + 1
    BY <2>1, FS_Interval
  <2>3. IsFiniteSet(0 .. N - 1) /\ Cardinality(0 .. N - 1) = IF 0 > N - 1 THEN 0 ELSE (N - 1) - 0 + 1
    BY <2>1, FS_Interval
  <2> QED BY <1>1, <2>2, <2>3
<1>9. \E x, y \in 1 .. N + 1 : x # y /\ w[x] = w[y]
  <2> HIDE DEF w
  <2>1. PICK A, B : A = 1 .. N + 1 /\ B = 0 .. N - 1
    OBVIOUS
  <2>2. IsFiniteSet(A) /\ IsFiniteSet(B) /\ Cardinality(B) < Cardinality(A)
    BY <1>1, <1>8, <2>1
  <2>3. w \in [A -> B]
    BY <1>7, <2>1
  <2>4. \E x, y \in A : x # y /\ w[x] = w[y]
    BY <2>2, <2>3, FS_PigeonHole
  <2> QED BY <2>1, <2>4
<1> HIDE DEF w
<1> QED BY <1>6, <1>9

\* What a valid height is: no residual edge leads down by more than one.
Legal(k) ==
  /\ \A i \in Cut!Nodes : rt[i] > 0 => k[i] <= 1
  /\ \A i, j \in Cut!Nodes : Residual(i, j) => k[i] <= k[j] + 1

\* The heights that the search finds are valid, and from a node that cannot reach the
\* sink there is no edge to a node that can.
LEMMA SearchedHeights ==
  /\ Cut!global_relabel \in [Cut!Nodes -> 1 .. Cut!Big]
  /\ Legal(Cut!global_relabel)
  /\ \A i, j \in Cut!Nodes :
       Residual(i, j) /\ Cut!global_relabel[i] = Cut!Big => Cut!global_relabel[j] = Cut!Big
<1>1. PICK L : Searched(L) /\ Cut!global_relabel = L[N]
  BY SearchRuns
<1>2. PICK g : g = Cut!global_relabel
  OBVIOUS
<1>3. N \in Nat /\ N \in 0 .. N /\ Cut!Big = N + 2
  BY CutGraph
<1>4. g \in [Cut!Nodes -> 1 .. Cut!Big]
  BY <1>1, <1>2, <1>3 DEF Searched
<1>5. \A i \in Cut!Nodes : rt[i] > 0 => g[i] = 1
  BY <1>1, <1>2, <1>3, TerminalsFirst
<1>6. ASSUME NEW i \in Cut!Nodes, NEW j \in Cut!Nodes, Residual(i, j)
      PROVE  g[j] = Cut!Big \/ (g[i] <= g[j] + 1 /\ g[i] < Cut!Big)
  <2>1. g[i] \in 1 .. Cut!Big /\ g[j] \in 1 .. Cut!Big
    BY <1>4
  <2>2. g[j] # N + 1
    BY <1>1, <1>2, LabelsUpToN
  <2>3. g[j] <= N => g[i] <= g[j] + 1
    BY <1>1, <1>2, <1>3, <1>6, LabelsDescend DEF Descends
  <2> QED BY <1>3, <2>1, <2>2, <2>3
<1>7. ASSUME NEW i \in Cut!Nodes, NEW j \in Cut!Nodes, Residual(i, j)
      PROVE  g[i] <= g[j] + 1 /\ (g[i] = Cut!Big => g[j] = Cut!Big)
  <2>1. g[i] \in 1 .. Cut!Big /\ g[j] \in 1 .. Cut!Big
    BY <1>4
  <2> QED BY <1>3, <1>6, <1>7, <2>1
<1>8. \A i \in Cut!Nodes : rt[i] > 0 => g[i] <= 1
  BY <1>5
<1>9. Legal(g)
  BY <1>7, <1>8 DEF Legal
<1> QED BY <1>2, <1>4, <1>7, <1>9

\* No valid heights are above them.
LEMMA SearchedHighest ==
  ASSUME NEW k \in [Cut!Nodes -> 0 .. Cut!Big], Legal(k)
  PROVE  \A i \in Cut!Nodes : k[i] <= Cut!global_relabel[i]
<1>1. PICK L : Searched(L) /\ Cut!global_relabel = L[N]
  BY SearchRuns
<1> DEFINE P(d) == \A i \in Cut!Nodes : k[i] <= L[d][i]
           T == {d \in 0 .. N : P(d)}
<1>2. P(0)
  <2>1. 0 \in 0 .. N /\ Cut!Big \in Int
    BY CutGraph
  <2> QED BY <1>1, <2>1 DEF Searched, Terminals, Legal
<1>3. ASSUME NEW d \in 0 .. N - 1, P(d) PROVE P(d + 1)
  <2> SUFFICES ASSUME NEW i \in Cut!Nodes PROVE k[i] <= L[d + 1][i]
    OBVIOUS
  <2>1. k[i] \in 0 .. Cut!Big /\ Cut!Big = N + 2 /\ N \in Nat /\ d \in Nat
    BY CutGraph
  <2>2. L[d + 1][i] = L[d][i] \/ L[d + 1][i] = Cut!Big
        \/ (L[d + 1][i] = d + 2 /\ \E j \in Cut!Nodes : Residual(i, j) /\ L[d][j] = d + 1)
    BY <1>1, StageStep
  <2>3. CASE L[d + 1][i] = L[d][i]
    BY <1>3, <2>3
  <2>4. CASE L[d + 1][i] = Cut!Big
    BY <2>1, <2>4
  <2>5. ASSUME L[d + 1][i] = d + 2, NEW j \in Cut!Nodes, Residual(i, j), L[d][j] = d + 1
        PROVE  k[i] <= L[d + 1][i]
    <3>1. k[i] <= k[j] + 1 /\ k[j] <= d + 1 /\ k[j] \in 0 .. Cut!Big
      BY <1>3, <2>5 DEF Legal
    <3> QED BY <2>1, <2>5, <3>1
  <2> QED BY <2>2, <2>3, <2>4, <2>5
<1> HIDE DEF P
<1>4. 0 \in T
  BY <1>2, CutGraph
<1>5. ASSUME NEW d \in 0 .. N - 1, d \in T PROVE d + 1 \in T
  <2>1. P(d) /\ d + 1 \in 0 .. N
    BY <1>5, CutGraph
  <2> QED BY <1>3, <2>1
<1>6. 0 .. N \subseteq T
  <2> HIDE DEF T
  <2> QED BY <1>4, <1>5, CutGraph, SetInduction
<1>7. P(N)
  BY <1>6, CutGraph
<1> QED BY <1>1, <1>7 DEF P

-----------------------------------------------------------------------------
(* What cuts carry.  x, t, w and p are the residuals of the edges and to the sink, *)
(* the excesses and what was pushed and is not gathered.                          *)

Amounts(x, t, w, p) ==
  /\ x \in [Cut!Edges -> Nat] /\ t \in [Cut!Nodes -> Nat]
  /\ w \in [Cut!Nodes -> Nat] /\ p \in [Cut!Edges -> Nat]

GatheredOf(w, p, i) ==
  w[i] + Total(Cut!Slots(i), [s \in 1 .. Cut!Slots(i) |-> p[<<Neighbours[i][s], i>>]])

RestOf(x, t, w, p, i, S) == IF i \in S THEN t[i] + Cut!Leaving(x, i, S) ELSE GatheredOf(w, p, i)

RemainsOf(x, t, w, p, S) == Total(N, [s \in 1 .. N |-> RestOf(x, t, w, p, s - 1, S)])

\* What of two amounts of the edges is the same: of those from i, of those into i, of
\* all but one of them.
SameFrom(x, y, i) == \A j \in Cut!Nodes : <<i, j>> \in Cut!Edges => y[<<i, j>>] = x[<<i, j>>]
SameInto(p, q, i) == \A j \in Cut!Nodes : <<j, i>> \in Cut!Edges => q[<<j, i>>] = p[<<j, i>>]
OneFrom(x, y, i, j, a) ==
  /\ y[<<i, j>>] = x[<<i, j>>] + a
  /\ \A k \in Cut!Nodes : <<i, k>> \in Cut!Edges /\ k # j => y[<<i, k>>] = x[<<i, k>>]
OneInto(p, q, i, j, a) ==
  /\ q[<<j, i>>] = p[<<j, i>>] + a
  /\ \A k \in Cut!Nodes : <<k, i>> \in Cut!Edges /\ k # j => q[<<k, i>>] = p[<<k, i>>]
Adds(v, w, i, a) == v[i] = w[i] + a

\* Two amounts leave the same to carry, but for what i does.
SameRest(x, t, w, p, y, u, v, q, S, i) ==
  \A k \in Cut!Nodes : k # i => RestOf(y, u, v, q, k, S) = RestOf(x, t, w, p, k, S)

\* Sums of natural amounts are natural, and depend on the entries of one node.
LEMMA LeavingNatural ==
  ASSUME NEW x \in [Cut!Edges -> Nat], NEW i \in Cut!Nodes, NEW S
  PROVE  /\ Cut!Leaving(x, i, S) \in Nat
         /\ \A j \in Cut!Nodes : <<i, j>> \in Cut!Edges /\ j \notin S => x[<<i, j>>] <= Cut!Leaving(x, i, S)
<1> DEFINE f == [s \in 1 .. Cut!Slots(i) |-> IF Neighbours[i][s] \in S THEN 0 ELSE x[<<i, Neighbours[i][s]>>]]
<1>1. Cut!Slots(i) \in Nat /\ \A s \in 1 .. Cut!Slots(i) : <<i, Neighbours[i][s]>> \in Cut!Edges
  BY CutGraph
<1>2. \A s \in 1 .. Cut!Slots(i) : f[s] \in Nat
  BY <1>1
<1>3. Cut!Leaving(x, i, S) = Total(Cut!Slots(i), f)
  BY CutSums DEF Cut!Leaving
<1>4. /\ Total(Cut!Slots(i), f) \in Nat
      /\ \A s \in 1 .. Cut!Slots(i) : f[s] <= Total(Cut!Slots(i), f)
  <2> HIDE DEF f
  <2> QED BY <1>1, <1>2, SumNatural
<1>5. ASSUME NEW j \in Cut!Nodes, <<i, j>> \in Cut!Edges, j \notin S
      PROVE  x[<<i, j>>] <= Total(Cut!Slots(i), f)
  <2>1. PICK s \in 1 .. Cut!Slots(i) : Neighbours[i][s] = j
    BY <1>5, CutGraph
  <2>2. f[s] = x[<<i, j>>]
    BY <1>5, <2>1
  <2> HIDE DEF f
  <2> QED BY <1>4, <2>2
<1> HIDE DEF f
<1> QED BY <1>3, <1>4, <1>5

LEMMA GatheredNatural ==
  ASSUME NEW w \in [Cut!Nodes -> Nat], NEW p \in [Cut!Edges -> Nat], NEW i \in Cut!Nodes
  PROVE  /\ GatheredOf(w, p, i) \in Nat
         /\ w[i] <= GatheredOf(w, p, i)
         /\ (\A j \in Cut!Nodes : <<j, i>> \in Cut!Edges => p[<<j, i>>] = 0) => GatheredOf(w, p, i) = w[i]
<1> DEFINE f == [s \in 1 .. Cut!Slots(i) |-> p[<<Neighbours[i][s], i>>]]
<1>1. Cut!Slots(i) \in Nat
      /\ \A s \in 1 .. Cut!Slots(i) : Neighbours[i][s] \in Cut!Nodes /\ <<Neighbours[i][s], i>> \in Cut!Edges
  BY CutGraph
<1>2. \A s \in 1 .. Cut!Slots(i) : f[s] \in Nat
  BY <1>1
<1>3. GatheredOf(w, p, i) = w[i] + Total(Cut!Slots(i), f) /\ w[i] \in Nat
  BY DEF GatheredOf
<1>4. Total(Cut!Slots(i), f) \in Nat
  <2> HIDE DEF f
  <2> QED BY <1>1, <1>2, SumNatural
<1>5. ASSUME \A j \in Cut!Nodes : <<j, i>> \in Cut!Edges => p[<<j, i>>] = 0
      PROVE  Total(Cut!Slots(i), f) = 0
  <2>1. \A s \in 1 .. Cut!Slots(i) : f[s] = 0
    BY <1>1, <1>5
  <2> HIDE DEF f
  <2> QED BY <1>1, <2>1, SumZero
<1> HIDE DEF f
<1> QED BY <1>3, <1>4, <1>5

LEMMA LeavingSame ==
  ASSUME NEW x \in [Cut!Edges -> Nat], NEW y, NEW i \in Cut!Nodes, NEW S,
         SameFrom(x, y, i)
  PROVE  Cut!Leaving(y, i, S) = Cut!Leaving(x, i, S)
<1> DEFINE f == [s \in 1 .. Cut!Slots(i) |-> IF Neighbours[i][s] \in S THEN 0 ELSE x[<<i, Neighbours[i][s]>>]]
           g == [s \in 1 .. Cut!Slots(i) |-> IF Neighbours[i][s] \in S THEN 0 ELSE y[<<i, Neighbours[i][s]>>]]
<1>1. Cut!Slots(i) \in Nat
      /\ \A s \in 1 .. Cut!Slots(i) : Neighbours[i][s] \in Cut!Nodes /\ <<i, Neighbours[i][s]>> \in Cut!Edges
  BY CutGraph
<1>2. \A s \in 1 .. Cut!Slots(i) : f[s] \in Int /\ g[s] = f[s]
  BY <1>1 DEF SameFrom
<1>3. Cut!Leaving(x, i, S) = Total(Cut!Slots(i), f) /\ Cut!Leaving(y, i, S) = Total(Cut!Slots(i), g)
  BY CutSums DEF Cut!Leaving
<1> HIDE DEF f, g
<1> QED BY <1>1, <1>2, <1>3, SumSame

LEMMA LeavingChanged ==
  ASSUME NEW x \in [Cut!Edges -> Nat], NEW y, NEW i \in Cut!Nodes, NEW j \in Cut!Nodes,
         <<i, j>> \in Cut!Edges, NEW a \in Int, NEW S, j \notin S,
         OneFrom(x, y, i, j, a)
  PROVE  Cut!Leaving(y, i, S) = Cut!Leaving(x, i, S) + a
<1> DEFINE f == [s \in 1 .. Cut!Slots(i) |-> IF Neighbours[i][s] \in S THEN 0 ELSE x[<<i, Neighbours[i][s]>>]]
           g == [s \in 1 .. Cut!Slots(i) |-> IF Neighbours[i][s] \in S THEN 0 ELSE y[<<i, Neighbours[i][s]>>]]
<1>1. Cut!Slots(i) \in Nat
      /\ \A s \in 1 .. Cut!Slots(i) : Neighbours[i][s] \in Cut!Nodes /\ <<i, Neighbours[i][s]>> \in Cut!Edges
  BY CutGraph
<1>2. PICK q \in 1 .. Cut!Slots(i) : Neighbours[i][q] = j
  BY CutGraph
<1>3. \A s \in 1 .. Cut!Slots(i) : f[s] \in Int
  BY <1>1
<1>4. g[q] = f[q] + a
  BY <1>2 DEF OneFrom
<1>5. ASSUME NEW s \in 1 .. Cut!Slots(i), s # q PROVE g[s] = f[s]
  <2>1. Neighbours[i][s] # j
    BY <1>2, <1>5, OneSlot
  <2> QED BY <1>1, <2>1 DEF OneFrom
<1>6. Cut!Leaving(x, i, S) = Total(Cut!Slots(i), f) /\ Cut!Leaving(y, i, S) = Total(Cut!Slots(i), g)
  BY CutSums DEF Cut!Leaving
<1> HIDE DEF f, g
<1> QED BY <1>1, <1>3, <1>4, <1>5, <1>6, SumShifted

LEMMA LeavingWithin ==
  ASSUME NEW x, NEW y, NEW i \in Cut!Nodes, NEW j \in Cut!Nodes, NEW a, NEW S, j \in S,
         OneFrom(x, y, i, j, a)
  PROVE  Cut!Leaving(y, i, S) = Cut!Leaving(x, i, S)
<1> DEFINE f(z) == [s \in 1 .. Cut!Slots(i) |->
                      IF Neighbours[i][s] \in S THEN 0 ELSE z[<<i, Neighbours[i][s]>>]]
<1>1. ASSUME NEW s \in 1 .. Cut!Slots(i)
      PROVE  (IF Neighbours[i][s] \in S THEN 0 ELSE y[<<i, Neighbours[i][s]>>])
               = (IF Neighbours[i][s] \in S THEN 0 ELSE x[<<i, Neighbours[i][s]>>])
  <2>1. Neighbours[i][s] \in Cut!Nodes /\ <<i, Neighbours[i][s]>> \in Cut!Edges
    BY CutGraph
  <2>2. CASE Neighbours[i][s] \in S
    BY <2>2
  <2>3. CASE Neighbours[i][s] \notin S
    BY <2>1, <2>3 DEF OneFrom
  <2> QED BY <2>2, <2>3
<1>2. f(y) = f(x)
  BY <1>1
<1> QED BY <1>2, CutSums DEF Cut!Leaving

LEMMA GatheredSame ==
  ASSUME NEW w \in [Cut!Nodes -> Nat], NEW v, NEW p \in [Cut!Edges -> Nat], NEW q, NEW i \in Cut!Nodes,
         NEW a \in Int, Adds(v, w, i, a), SameInto(p, q, i)
  PROVE  GatheredOf(v, q, i) = GatheredOf(w, p, i) + a
<1> DEFINE f == [s \in 1 .. Cut!Slots(i) |-> p[<<Neighbours[i][s], i>>]]
           g == [s \in 1 .. Cut!Slots(i) |-> q[<<Neighbours[i][s], i>>]]
<1>1. Cut!Slots(i) \in Nat
      /\ \A s \in 1 .. Cut!Slots(i) : Neighbours[i][s] \in Cut!Nodes /\ <<Neighbours[i][s], i>> \in Cut!Edges
  BY CutGraph
<1>2. \A s \in 1 .. Cut!Slots(i) : f[s] \in Int /\ g[s] = f[s]
  BY <1>1 DEF SameInto
<1>3. GatheredOf(w, p, i) = w[i] + Total(Cut!Slots(i), f)
      /\ GatheredOf(v, q, i) = v[i] + Total(Cut!Slots(i), g) /\ w[i] \in Int
  BY DEF GatheredOf, Adds
<1> HIDE DEF f, g
<1>4. Total(Cut!Slots(i), g) = Total(Cut!Slots(i), f) /\ Total(Cut!Slots(i), f) \in Int
  BY <1>1, <1>2, SumSame
<1> QED BY <1>3, <1>4 DEF Adds

LEMMA GatheredChanged ==
  ASSUME NEW w \in [Cut!Nodes -> Nat], NEW v, NEW p \in [Cut!Edges -> Nat], NEW q,
         NEW i \in Cut!Nodes, NEW j \in Cut!Nodes, <<i, j>> \in Cut!Edges, NEW a \in Int,
         v[i] = w[i], OneInto(p, q, i, j, a)
  PROVE  GatheredOf(v, q, i) = GatheredOf(w, p, i) + a
<1> DEFINE f == [s \in 1 .. Cut!Slots(i) |-> p[<<Neighbours[i][s], i>>]]
           g == [s \in 1 .. Cut!Slots(i) |-> q[<<Neighbours[i][s], i>>]]
<1>1. Cut!Slots(i) \in Nat
      /\ \A s \in 1 .. Cut!Slots(i) : Neighbours[i][s] \in Cut!Nodes /\ <<Neighbours[i][s], i>> \in Cut!Edges
  BY CutGraph
<1>2. PICK c \in 1 .. Cut!Slots(i) : Neighbours[i][c] = j
  BY CutGraph
<1>3. \A s \in 1 .. Cut!Slots(i) : f[s] \in Nat
  BY <1>1
<1>4. g[c] = f[c] + a
  BY <1>2 DEF OneInto
<1>5. ASSUME NEW s \in 1 .. Cut!Slots(i), s # c PROVE g[s] = f[s]
  <2>1. Neighbours[i][s] # j
    BY <1>2, <1>5, OneSlot
  <2> QED BY <1>1, <2>1 DEF OneInto
<1>6. GatheredOf(w, p, i) = w[i] + Total(Cut!Slots(i), f)
      /\ GatheredOf(v, q, i) = v[i] + Total(Cut!Slots(i), g) /\ w[i] \in Int
  BY DEF GatheredOf
<1> HIDE DEF f, g
<1>7. Total(Cut!Slots(i), f) \in Nat
  BY <1>1, <1>3, SumNatural
<1>8. Total(Cut!Slots(i), g) = Total(Cut!Slots(i), f) + a
  <2>1. \A s \in 1 .. Cut!Slots(i) : f[s] \in Int
    BY <1>3
  <2> QED BY <1>1, <1>4, <1>5, <2>1, SumShifted
<1> QED BY <1>6, <1>7, <1>8

LEMMA RestNatural ==
  ASSUME NEW x, NEW t, NEW w, NEW p, Amounts(x, t, w, p), NEW S
  PROVE  /\ \A i \in Cut!Nodes : RestOf(x, t, w, p, i, S) \in Nat
         /\ RemainsOf(x, t, w, p, S) \in Nat
         /\ \A i \in Cut!Nodes : RestOf(x, t, w, p, i, S) <= RemainsOf(x, t, w, p, S)
<1>1. ASSUME NEW i \in Cut!Nodes PROVE RestOf(x, t, w, p, i, S) \in Nat
  <2>1. Cut!Leaving(x, i, S) \in Nat /\ GatheredOf(w, p, i) \in Nat /\ t[i] \in Nat
    BY LeavingNatural, GatheredNatural DEF Amounts
  <2> QED BY <2>1 DEF RestOf
<1> DEFINE f == [s \in 1 .. N |-> RestOf(x, t, w, p, s - 1, S)]
<1>2. N \in Nat /\ \A s \in 1 .. N : s - 1 \in Cut!Nodes
  BY CutGraph
<1>3. \A s \in 1 .. N : f[s] \in Nat
  BY <1>1, <1>2
<1>4. RemainsOf(x, t, w, p, S) = Total(N, f)
  BY DEF RemainsOf
<1>5. Total(N, f) \in Nat /\ \A s \in 1 .. N : f[s] <= Total(N, f)
  <2> HIDE DEF f
  <2> QED BY <1>2, <1>3, SumNatural
<1>6. ASSUME NEW i \in Cut!Nodes PROVE RestOf(x, t, w, p, i, S) <= Total(N, f)
  <2>1. i + 1 \in 1 .. N /\ (i + 1) - 1 = i
    BY CutGraph
  <2>2. f[i + 1] = RestOf(x, t, w, p, i, S)
    BY <2>1
  <2> HIDE DEF f
  <2> QED BY <1>5, <2>1, <2>2
<1> HIDE DEF f
<1> QED BY <1>1, <1>4, <1>5, <1>6

\* One node's rest changes by a.
LEMMA RemainsChanged ==
  ASSUME NEW x, NEW t, NEW w, NEW p, Amounts(x, t, w, p), NEW y, NEW u, NEW v, NEW q, NEW S,
         NEW i \in Cut!Nodes, NEW a \in Int,
         RestOf(y, u, v, q, i, S) = RestOf(x, t, w, p, i, S) + a,
         SameRest(x, t, w, p, y, u, v, q, S, i)
  PROVE  RemainsOf(y, u, v, q, S) = RemainsOf(x, t, w, p, S) + a
<1> DEFINE f == [s \in 1 .. N |-> RestOf(x, t, w, p, s - 1, S)]
           g == [s \in 1 .. N |-> RestOf(y, u, v, q, s - 1, S)]
<1>1. N \in Nat /\ \A s \in 1 .. N : s - 1 \in Cut!Nodes
  BY CutGraph
<1>2. i + 1 \in 1 .. N /\ (i + 1) - 1 = i
  BY CutGraph
<1>3. \A s \in 1 .. N : f[s] \in Int
  <2>1. \A s \in 1 .. N : RestOf(x, t, w, p, s - 1, S) \in Nat
    BY <1>1, RestNatural
  <2> QED BY <2>1
<1>4. g[i + 1] = f[i + 1] + a
  BY <1>2
<1>5. \A s \in 1 .. N : s # i + 1 => g[s] = f[s]
  BY <1>1 DEF SameRest
<1>6. RemainsOf(x, t, w, p, S) = Total(N, f) /\ RemainsOf(y, u, v, q, S) = Total(N, g)
  BY DEF RemainsOf
<1> HIDE DEF f, g
<1> QED BY <1>1, <1>2, <1>3, <1>4, <1>5, <1>6, SumShifted

LEMMA RemainsSame ==
  ASSUME NEW x, NEW t, NEW w, NEW p, Amounts(x, t, w, p), NEW y, NEW u, NEW v, NEW q, NEW S,
         \A k \in Cut!Nodes : RestOf(y, u, v, q, k, S) = RestOf(x, t, w, p, k, S)
  PROVE  RemainsOf(y, u, v, q, S) = RemainsOf(x, t, w, p, S)
<1> DEFINE f == [s \in 1 .. N |-> RestOf(x, t, w, p, s - 1, S)]
           g == [s \in 1 .. N |-> RestOf(y, u, v, q, s - 1, S)]
<1>1. N \in Nat /\ \A s \in 1 .. N : s - 1 \in Cut!Nodes
  BY CutGraph
<1>2. \A s \in 1 .. N : f[s] \in Int
  <2>1. \A s \in 1 .. N : RestOf(x, t, w, p, s - 1, S) \in Nat
    BY <1>1, RestNatural
  <2> QED BY <2>1
<1>3. \A s \in 1 .. N : g[s] = f[s]
  BY <1>1
<1>4. RemainsOf(x, t, w, p, S) = Total(N, f) /\ RemainsOf(y, u, v, q, S) = Total(N, g)
  BY DEF RemainsOf
<1> HIDE DEF f, g
<1> QED BY <1>1, <1>2, <1>3, <1>4, SumSame

\* y is x but with a less, with a more, or with a itself, at k.
Less(y, x, k, a) == y = [x EXCEPT ![k] = @ - a]
More(y, x, k, a) == y = [x EXCEPT ![k] = @ + a]
Puts(y, x, k, a) == y = [x EXCEPT ![k] = a]
Moves(y, x, i, j, a) == y = [x EXCEPT ![<<i, j>>] = x[<<i, j>>] - a, ![<<j, i>>] = x[<<j, i>>] + a]

\* Every cut carries less by what is pushed to the sink.
LEMMA SinkTakes ==
  ASSUME NEW x, NEW t, NEW w, NEW p, Amounts(x, t, w, p), NEW S, NEW i \in Cut!Nodes,
         NEW a \in Nat, a <= t[i], a <= w[i], NEW u, NEW v,
         Less(u, t, i, a), Less(v, w, i, a)
  PROVE  Amounts(x, u, v, p) /\ RemainsOf(x, u, v, p, S) = RemainsOf(x, t, w, p, S) + (0 - a)
<1>1. Amounts(x, u, v, p)
  BY DEF Amounts, Less
<1>2. PICK b : b = 0 - a
  OBVIOUS
<1>3. u[i] = t[i] + b /\ b \in Int /\ t[i] \in Nat /\ Adds(v, w, i, b) /\ SameInto(p, p, i)
  BY <1>2 DEF Amounts, Adds, SameInto, Less
<1>4. x \in [Cut!Edges -> Nat] /\ p \in [Cut!Edges -> Nat] /\ w \in [Cut!Nodes -> Nat]
  BY DEF Amounts
<1>5. RestOf(x, u, v, p, i, S) = RestOf(x, t, w, p, i, S) + b
  <2>1. CASE i \in S
    <3>1. Cut!Leaving(x, i, S) \in Nat
      BY <1>4, LeavingNatural
    <3> QED BY <1>3, <2>1, <3>1 DEF RestOf
  <2>2. CASE i \notin S
    <3>1. GatheredOf(v, p, i) = GatheredOf(w, p, i) + b
      BY <1>3, <1>4, GatheredSame
    <3> QED BY <2>2, <3>1 DEF RestOf
  <2> QED BY <2>1, <2>2
<1>6. ASSUME NEW k \in Cut!Nodes, k # i PROVE RestOf(x, u, v, p, k, S) = RestOf(x, t, w, p, k, S)
  <2>1. u[k] = t[k] /\ Adds(v, w, k, 0) /\ SameInto(p, p, k) /\ 0 \in Int
    BY <1>6 DEF Amounts, Adds, SameInto, Less
  <2>2. GatheredOf(v, p, k) = GatheredOf(w, p, k) + 0
    BY <1>4, <2>1, GatheredSame
  <2>3. GatheredOf(w, p, k) \in Nat
    BY <1>4, GatheredNatural
  <2> QED BY <2>1, <2>2, <2>3 DEF RestOf
<1>7. SameRest(x, t, w, p, x, u, v, p, S, i)
  BY <1>6 DEF SameRest
<1>8. RemainsOf(x, u, v, p, S) = RemainsOf(x, t, w, p, S) + b
  BY <1>3, <1>5, <1>7, RemainsChanged
<1> QED BY <1>1, <1>2, <1>8

\* A push along an edge takes from its start what it later brings to its end.
LEMMA Departs ==
  ASSUME NEW x, NEW t, NEW w, NEW p, Amounts(x, t, w, p), NEW S,
         NEW i \in Cut!Nodes, NEW j \in Cut!Nodes, <<i, j>> \in Cut!Edges,
         NEW a \in Nat, a <= x[<<i, j>>], a <= w[i], NEW y, NEW v,
         Less(y, x, <<i, j>>, a), Less(v, w, i, a)
  PROVE  /\ Amounts(y, t, v, p)
         /\ RemainsOf(y, t, v, p, S) = RemainsOf(x, t, w, p, S) + (IF i \in S /\ j \in S THEN 0 ELSE 0 - a)
<1>1. x \in [Cut!Edges -> Nat] /\ p \in [Cut!Edges -> Nat] /\ w \in [Cut!Nodes -> Nat]
      /\ t \in [Cut!Nodes -> Nat]
  BY DEF Amounts
<1>2. PICK b, c : b = 0 - a /\ c = (IF i \in S /\ j \in S THEN 0 ELSE b) /\ b \in Int /\ c \in Int
  OBVIOUS
<1>3. y \in [Cut!Edges -> Nat] /\ OneFrom(x, y, i, j, b)
      /\ \A k \in Cut!Nodes : k # i => SameFrom(x, y, k)
  <2>1. x[<<i, j>>] \in Nat /\ x[<<i, j>>] - a \in Nat /\ x[<<i, j>>] - a = x[<<i, j>>] + b
    BY <1>1, <1>2
  <2>2. \A ij \in Cut!Edges : y[ij] = IF ij = <<i, j>> THEN x[<<i, j>>] - a ELSE x[ij]
    BY <1>1 DEF Less
  <2>3. y \in [Cut!Edges -> Nat]
    BY <1>1, <2>1 DEF Less
  <2> QED BY <2>1, <2>2, <2>3 DEF OneFrom, SameFrom
<1>4. v \in [Cut!Nodes -> Nat] /\ Adds(v, w, i, b) /\ \A k \in Cut!Nodes : k # i => Adds(v, w, k, 0)
  BY <1>1, <1>2 DEF Adds, Less
<1>5. Amounts(y, t, v, p) /\ \A k \in Cut!Nodes : SameInto(p, p, k)
  BY <1>1, <1>3, <1>4 DEF Amounts, SameInto
<1>6. Cut!Leaving(x, i, S) \in Nat /\ t[i] \in Nat
  BY <1>1, LeavingNatural
<1>7. RestOf(y, t, v, p, i, S) = RestOf(x, t, w, p, i, S) + c
  <2>1. CASE i \in S /\ j \notin S
    <3>1. Cut!Leaving(y, i, S) = Cut!Leaving(x, i, S) + b
      BY <1>1, <1>2, <1>3, <2>1, LeavingChanged
    <3> QED BY <1>2, <1>6, <2>1, <3>1 DEF RestOf
  <2>2. CASE i \in S /\ j \in S
    <3>1. Cut!Leaving(y, i, S) = Cut!Leaving(x, i, S)
      BY <1>3, <2>2, LeavingWithin
    <3> QED BY <1>2, <1>6, <2>2, <3>1 DEF RestOf
  <2>3. CASE i \notin S
    <3>1. GatheredOf(v, p, i) = GatheredOf(w, p, i) + b
      BY <1>1, <1>2, <1>4, <1>5, GatheredSame
    <3> QED BY <1>2, <2>3, <3>1 DEF RestOf
  <2> QED BY <2>1, <2>2, <2>3
<1>8. ASSUME NEW k \in Cut!Nodes, k # i PROVE RestOf(y, t, v, p, k, S) = RestOf(x, t, w, p, k, S)
  <2>1. Adds(v, w, k, 0) /\ SameInto(p, p, k) /\ SameFrom(x, y, k) /\ 0 \in Int
    BY <1>3, <1>4, <1>5, <1>8
  <2>2. GatheredOf(v, p, k) = GatheredOf(w, p, k) + 0
    BY <1>1, <2>1, GatheredSame
  <2>3. GatheredOf(w, p, k) \in Nat
    BY <1>1, GatheredNatural
  <2>4. Cut!Leaving(y, k, S) = Cut!Leaving(x, k, S)
    BY <1>1, <2>1, LeavingSame
  <2> QED BY <2>2, <2>3, <2>4 DEF RestOf
<1>9. SameRest(x, t, w, p, y, t, v, p, S, i)
  BY <1>8 DEF SameRest
<1>10. RemainsOf(y, t, v, p, S) = RemainsOf(x, t, w, p, S) + c
  BY <1>2, <1>7, <1>9, RemainsChanged
<1> QED BY <1>2, <1>5, <1>10

\* What a push adds at its other end, the excess to come.
LEMMA Arrives ==
  ASSUME NEW x, NEW t, NEW w, NEW p, Amounts(x, t, w, p), NEW S,
         NEW i \in Cut!Nodes, NEW j \in Cut!Nodes, <<i, j>> \in Cut!Edges, <<j, i>> \in Cut!Edges,
         NEW a \in Nat, p[<<i, j>>] = 0, NEW y, NEW q,
         More(y, x, <<j, i>>, a), Puts(q, p, <<i, j>>, a),
         NEW c \in Int, c = IF i \in S /\ j \in S THEN 0 ELSE a
  PROVE  Amounts(y, t, w, q) /\ RemainsOf(y, t, w, q, S) = RemainsOf(x, t, w, p, S) + c
<1>1. x \in [Cut!Edges -> Nat] /\ p \in [Cut!Edges -> Nat] /\ w \in [Cut!Nodes -> Nat]
      /\ t \in [Cut!Nodes -> Nat]
  BY DEF Amounts
<1>2. y \in [Cut!Edges -> Nat] /\ OneFrom(x, y, j, i, a)
      /\ \A k \in Cut!Nodes : k # j => SameFrom(x, y, k)
  <2>1. x[<<j, i>>] \in Nat /\ x[<<j, i>>] + a \in Nat
    BY <1>1
  <2>2. \A ij \in Cut!Edges : y[ij] = IF ij = <<j, i>> THEN x[<<j, i>>] + a ELSE x[ij]
    BY <1>1 DEF More
  <2>3. y \in [Cut!Edges -> Nat]
    BY <1>1, <2>1 DEF More
  <2> QED BY <2>1, <2>2, <2>3 DEF OneFrom, SameFrom
<1>3. q \in [Cut!Edges -> Nat] /\ OneInto(p, q, j, i, a)
      /\ \A k \in Cut!Nodes : k # j => SameInto(p, q, k)
  <2>1. \A ij \in Cut!Edges : q[ij] = IF ij = <<i, j>> THEN a ELSE p[ij]
    BY <1>1 DEF Puts
  <2>2. q \in [Cut!Edges -> Nat]
    BY <1>1 DEF Puts
  <2> QED BY <2>1, <2>2 DEF OneInto, SameInto
<1>4. Amounts(y, t, w, q) /\ \A k \in Cut!Nodes : Adds(w, w, k, 0)
  BY <1>1, <1>2, <1>3 DEF Amounts, Adds
<1>5. Cut!Leaving(x, j, S) \in Nat /\ t[j] \in Nat
  BY <1>1, LeavingNatural
<1>6. RestOf(y, t, w, q, j, S) = RestOf(x, t, w, p, j, S) + c
  <2>1. CASE j \in S /\ i \notin S
    <3>1. Cut!Leaving(y, j, S) = Cut!Leaving(x, j, S) + a
      BY <1>1, <1>2, <2>1, LeavingChanged
    <3> QED BY <1>5, <2>1, <3>1 DEF RestOf
  <2>2. CASE i \in S /\ j \in S
    <3>1. Cut!Leaving(y, j, S) = Cut!Leaving(x, j, S)
      BY <1>2, <2>2, LeavingWithin
    <3> QED BY <1>5, <2>2, <3>1 DEF RestOf
  <2>3. CASE j \notin S
    <3>1. GatheredOf(w, q, j) = GatheredOf(w, p, j) + a
      BY <1>1, <1>3, GatheredChanged
    <3> QED BY <2>3, <3>1 DEF RestOf
  <2> QED BY <2>1, <2>2, <2>3
<1>7. ASSUME NEW k \in Cut!Nodes, k # j PROVE RestOf(y, t, w, q, k, S) = RestOf(x, t, w, p, k, S)
  <2>1. Adds(w, w, k, 0) /\ SameInto(p, q, k) /\ SameFrom(x, y, k) /\ 0 \in Int
    BY <1>2, <1>3, <1>4, <1>7
  <2>2. GatheredOf(w, q, k) = GatheredOf(w, p, k) + 0
    BY <1>1, <2>1, GatheredSame
  <2>3. GatheredOf(w, p, k) \in Nat
    BY <1>1, GatheredNatural
  <2>4. Cut!Leaving(y, k, S) = Cut!Leaving(x, k, S)
    BY <1>1, <2>1, LeavingSame
  <2> QED BY <2>2, <2>3, <2>4 DEF RestOf
<1>8. SameRest(x, t, w, p, y, t, w, q, S, j)
  BY <1>7 DEF SameRest
<1>9. RemainsOf(y, t, w, q, S) = RemainsOf(x, t, w, p, S) + c
  BY <1>6, <1>8, RemainsChanged
<1> QED BY <1>4, <1>9

\* No cut carries more or less for a push along an edge.
LEMMA EdgeTakes ==
  ASSUME NEW x, NEW t, NEW w, NEW p, Amounts(x, t, w, p), NEW S,
         NEW i \in Cut!Nodes, NEW j \in Cut!Nodes, i # j, <<i, j>> \in Cut!Edges, <<j, i>> \in Cut!Edges,
         NEW a \in Nat, a <= x[<<i, j>>], a <= w[i], p[<<i, j>>] = 0, NEW y, NEW v, NEW q,
         Moves(y, x, i, j, a), Less(v, w, i, a), Puts(q, p, <<i, j>>, a)
  PROVE  Amounts(y, t, v, q) /\ RemainsOf(y, t, v, q, S) = RemainsOf(x, t, w, p, S)
<1>1. PICK z : Less(z, x, <<i, j>>, a)
  BY DEF Less
<1>2. More(y, z, <<j, i>>, a)
  <2>1. x \in [Cut!Edges -> Nat] /\ <<j, i>> # <<i, j>>
    BY DEF Amounts
  <2>2. z[<<j, i>>] = x[<<j, i>>]
    BY <1>1, <2>1 DEF Less
  <2> QED BY <1>1, <2>1, <2>2 DEF Less, More, Moves
<1>3. /\ Amounts(z, t, v, p)
      /\ RemainsOf(z, t, v, p, S) = RemainsOf(x, t, w, p, S) + (IF i \in S /\ j \in S THEN 0 ELSE 0 - a)
  BY <1>1, Departs
<1>4. PICK c : c = (IF i \in S /\ j \in S THEN 0 ELSE a) /\ c \in Int
  OBVIOUS
<1>5. Amounts(y, t, v, q) /\ RemainsOf(y, t, v, q, S) = RemainsOf(z, t, v, p, S) + c
  BY <1>2, <1>3, <1>4, Arrives
<1>6. RemainsOf(x, t, w, p, S) \in Nat
  BY RestNatural
<1> QED BY <1>3, <1>4, <1>5, <1>6

Gathers(v, w, p, Q) == v = [i \in Cut!Nodes |-> IF i \in Q THEN GatheredOf(w, p, i) ELSE w[i]]
Clears(q, p, Q) == q = [ij \in Cut!Edges |-> IF ij[2] \in Q THEN 0 ELSE p[ij]]

\* Gathering what was pushed leaves what a node will have as it is.
LEMMA GatheringKeeps ==
  ASSUME NEW x, NEW t, NEW w, NEW p, Amounts(x, t, w, p), NEW S, NEW Q, NEW v, NEW q,
         Gathers(v, w, p, Q), Clears(q, p, Q)
  PROVE  Amounts(x, t, v, q) /\ RemainsOf(x, t, v, q, S) = RemainsOf(x, t, w, p, S)
<1>1. x \in [Cut!Edges -> Nat] /\ p \in [Cut!Edges -> Nat] /\ w \in [Cut!Nodes -> Nat]
      /\ t \in [Cut!Nodes -> Nat]
  BY DEF Amounts
<1>2. \A i \in Cut!Nodes : GatheredOf(w, p, i) \in Nat
  BY <1>1, GatheredNatural
<1>3. v \in [Cut!Nodes -> Nat] /\ q \in [Cut!Edges -> Nat]
  BY <1>1, <1>2 DEF Gathers, Clears
<1>4. Amounts(x, t, v, q)
  BY <1>1, <1>3 DEF Amounts
<1>5. ASSUME NEW i \in Cut!Nodes PROVE GatheredOf(v, q, i) = GatheredOf(w, p, i)
  <2>1. CASE i \in Q
    <3>1. \A j \in Cut!Nodes : <<j, i>> \in Cut!Edges => q[<<j, i>>] = 0
      BY <2>1 DEF Clears
    <3>2. v[i] = GatheredOf(w, p, i)
      BY <2>1 DEF Gathers
    <3> QED BY <1>3, <3>1, <3>2, GatheredNatural
  <2>2. CASE i \notin Q
    <3>1. Adds(v, w, i, 0) /\ SameInto(p, q, i) /\ 0 \in Int
      BY <1>1, <2>2 DEF Adds, SameInto, Gathers, Clears
    <3>2. GatheredOf(v, q, i) = GatheredOf(w, p, i) + 0
      BY <1>1, <3>1, GatheredSame
    <3> QED BY <1>2, <3>2
  <2> QED BY <2>1, <2>2
<1>6. \A i \in Cut!Nodes : RestOf(x, t, v, q, i, S) = RestOf(x, t, w, p, i, S)
  BY <1>5 DEF RestOf
<1> QED BY <1>4, <1>6, RemainsSame

-----------------------------------------------------------------------------
(* The invariant of the minimum cut. *)

Stops == {"top", "push", "relabel", "last", "done"}

CutTyped ==
  /\ term \in [Cut!Nodes -> Nat \X Nat] /\ cap \in [Cut!Edges -> Nat]
  /\ r \in [Cut!Edges -> Nat] /\ inc \in [Cut!Edges -> Nat]
  /\ e \in [Cut!Nodes -> Nat] /\ rt \in [Cut!Nodes -> Nat]
  /\ h \in [Cut!Nodes -> 0 .. Cut!Big]
  /\ list \in SUBSET Cut!Nodes /\ queued \in SUBSET Cut!Nodes
  /\ slot \in [Cut!Nodes -> Nat] /\ seen \in [Cut!Nodes -> {<<>>} \cup (Nat \X Nat)]
  /\ it \in 0 .. relabel_every - 1
  /\ host_pc \in Stops

\* A node that can still push is on the list of the kernel that will see to it.
Waits(i) == e[i] > 0 /\ h[i] < Cut!Big
WaitingListed ==
  \A i \in Cut!Nodes : Waits(i) =>
    /\ host_pc = "push" \/ (host_pc = "top" /\ it # 0) => i \in list
    /\ host_pc = "relabel" => i \in queued
    /\ host_pc \notin {"last", "done"}

\* What a push thread read of an edge is still there.
PushApart(i) ==
  seen[i] # <<>> =>
    /\ host_pc = "push" /\ i \in list /\ slot[i] \in 1 .. Cut!Slots(i)
    /\ seen[i] = <<r[Cut!At(i)], r[Cut!Back(Cut!At(i))]>>
    /\ Cut!Admissible(Cut!At(i))
PushesApart == \A i \in Cut!Nodes : PushApart(i)

\* What was pushed is still to be gathered, by a queued node, and its slot is past.
SlotPast(i, j) == \E s \in 1 .. Cut!Slots(i) : s < slot[i] /\ Neighbours[i][s] = j
PushQueued(i, j) ==
  inc[<<i, j>>] > 0 =>
    /\ host_pc \in {"push", "relabel"} /\ j \in queued
    /\ host_pc = "push" => SlotPast(i, j)
PushedQueued == \A i, j \in Cut!Nodes : <<i, j>> \in Cut!Edges => PushQueued(i, j)

\* The flow has taken the same from every cut.
CutOf(tm, c, S) ==
  Total(N, [s \in 1 .. N |-> IF s - 1 \in S THEN tm[s - 1][2] + Cut!Leaving(c, s - 1, S)
                                ELSE tm[s - 1][1]])
Even(tm, c, x, t, w, p) ==
  \A S, T \in SUBSET Cut!Nodes :
    CutOf(tm, c, S) - RemainsOf(x, t, w, p, S) = CutOf(tm, c, T) - RemainsOf(x, t, w, p, T)
FlowCrossesAll == Even(term, cap, r, rt, e, inc)

CutInv ==
  /\ CutTyped
  /\ Legal(h)
  /\ WaitingListed
  /\ PushesApart
  /\ PushedQueued
  /\ FlowCrossesAll
  /\ host_pc = "done" => h = Cut!global_relabel

LEMMA CutNatural ==
  ASSUME NEW tm \in [Cut!Nodes -> Nat \X Nat], NEW c \in [Cut!Edges -> Nat], NEW S
  PROVE  CutOf(tm, c, S) \in Nat
<1> DEFINE f == [s \in 1 .. N |-> IF s - 1 \in S THEN tm[s - 1][2] + Cut!Leaving(c, s - 1, S)
                                ELSE tm[s - 1][1]]
<1>1. N \in Nat /\ \A s \in 1 .. N : s - 1 \in Cut!Nodes
  BY CutGraph
<1>2. \A i \in Cut!Nodes : tm[i][1] \in Nat /\ tm[i][2] \in Nat /\ Cut!Leaving(c, i, S) \in Nat
  BY LeavingNatural
<1>3. \A s \in 1 .. N : f[s] \in Nat
  BY <1>1, <1>2
<1>4. Total(N, f) \in Nat
  <2> HIDE DEF f
  <2> QED BY <1>1, <1>3, SumNatural
<1> QED BY <1>4 DEF CutOf

LEMMA LeavingZero ==
  ASSUME NEW x, NEW i \in Cut!Nodes, NEW S,
         \A j \in Cut!Nodes : <<i, j>> \in Cut!Edges /\ j \notin S => x[<<i, j>>] = 0
  PROVE  Cut!Leaving(x, i, S) = 0
<1> DEFINE f == [s \in 1 .. Cut!Slots(i) |-> IF Neighbours[i][s] \in S THEN 0 ELSE x[<<i, Neighbours[i][s]>>]]
<1>1. Cut!Slots(i) \in Nat
      /\ \A s \in 1 .. Cut!Slots(i) : Neighbours[i][s] \in Cut!Nodes /\ <<i, Neighbours[i][s]>> \in Cut!Edges
  BY CutGraph
<1>2. \A s \in 1 .. Cut!Slots(i) : f[s] = 0
  BY <1>1
<1>3. Total(Cut!Slots(i), f) = 0
  <2> HIDE DEF f
  <2> QED BY <1>1, <1>2, SumZero
<1> QED BY <1>3, CutSums DEF Cut!Leaving

LEMMA CutInitInv == ASSUME Cut!Init PROVE CutInv
<1>1. /\ term \in [Cut!Nodes -> Nat \X Nat] /\ cap \in [Cut!Edges -> Nat] /\ r = cap
      /\ e = [i \in Cut!Nodes |-> term[i][1]] /\ rt = [i \in Cut!Nodes |-> term[i][2]]
      /\ h = [i \in Cut!Nodes |-> 0] /\ inc = [ij \in Cut!Edges |-> 0]
      /\ slot = [i \in Cut!Nodes |-> 0] /\ seen = [i \in Cut!Nodes |-> <<>>]
      /\ list = {} /\ queued = {} /\ it = 0 /\ host_pc = "top"
  <2>1. term \in [Cut!Nodes -> TermCaps] /\ cap \in [Cut!Edges -> EdgeCaps]
    BY DEF Cut!Init
  <2>2. term \in [Cut!Nodes -> Nat \X Nat]
    BY <2>1, CutAssumption
  <2>3. cap \in [Cut!Edges -> Nat]
    BY <2>1, CutAssumption
  <2> QED BY <2>2, <2>3 DEF Cut!Init
<1>2. \A i \in Cut!Nodes : e[i] = term[i][1] /\ rt[i] = term[i][2] /\ term[i][1] \in Nat /\ term[i][2] \in Nat
  BY <1>1
<1>3. CutTyped
  <2>1. e \in [Cut!Nodes -> Nat] /\ rt \in [Cut!Nodes -> Nat]
    BY <1>1, <1>2
  <2>2. h \in [Cut!Nodes -> 0 .. Cut!Big] /\ it \in 0 .. relabel_every - 1
    BY <1>1, CutGraph, CutAssumption
  <2>3. slot \in [Cut!Nodes -> Nat] /\ seen \in [Cut!Nodes -> {<<>>} \cup (Nat \X Nat)]
        /\ inc \in [Cut!Edges -> Nat] /\ host_pc \in Stops
    BY <1>1 DEF Stops
  <2> QED BY <1>1, <2>1, <2>2, <2>3 DEF CutTyped
<1>4. Legal(h)
  BY <1>1 DEF Legal
<1>5. WaitingListed
  BY <1>1 DEF WaitingListed
<1>6. PushesApart
  BY <1>1 DEF PushesApart, PushApart
<1>7. PushedQueued
  BY <1>1 DEF PushedQueued, PushQueued
<1>8. ASSUME NEW S \in SUBSET Cut!Nodes PROVE RemainsOf(r, rt, e, inc, S) = CutOf(term, cap, S)
  <2>1. ASSUME NEW i \in Cut!Nodes PROVE GatheredOf(e, inc, i) = e[i]
    BY <1>1, <1>3, GatheredNatural DEF CutTyped
  <2>2. ASSUME NEW s \in 1 .. N
        PROVE  RestOf(r, rt, e, inc, s - 1, S)
                 = IF s - 1 \in S THEN term[s - 1][2] + Cut!Leaving(cap, s - 1, S) ELSE term[s - 1][1]
    <3>1. s - 1 \in Cut!Nodes
      BY CutGraph
    <3> QED BY <1>1, <1>2, <2>1, <3>1 DEF RestOf
  <2> QED BY <2>2 DEF RemainsOf, CutOf
<1>9. FlowCrossesAll
  <2>1. \A S \in SUBSET Cut!Nodes : CutOf(term, cap, S) \in Nat
    BY <1>1, CutNatural
  <2> QED BY <1>8, <2>1 DEF FlowCrossesAll, Even
<1> QED BY <1>1, <1>3, <1>4, <1>5, <1>6, <1>7, <1>9 DEF CutInv

\* At the end, the cut that the heights describe carries the flow and no more, and any
\* other that carries no more is on its side of it.
LEMMA CutDone == ASSUME CutInv PROVE Cut!CutIsMinimum
<1> DEFINE side == {i \in Cut!Nodes : h[i] >= Cut!Big}
           Left(S) == RemainsOf(r, rt, e, inc, S)
<1> SUFFICES ASSUME host_pc = "done", NEW S \in SUBSET Cut!Nodes
             PROVE  \/ Cut!CutValue(S) > Cut!CutValue(side)
                    \/ Cut!CutValue(S) = Cut!CutValue(side) /\ S \subseteq side
  BY DEF Cut!CutIsMinimum
<1>1. h = Cut!global_relabel /\ h \in [Cut!Nodes -> 1 .. Cut!Big] /\ Legal(h)
      /\ \A i, j \in Cut!Nodes : Residual(i, j) /\ h[i] = Cut!Big => h[j] = Cut!Big
  BY SearchedHeights DEF CutInv
<1>2. Amounts(r, rt, e, inc) /\ Cut!Big \in Nat /\ Cut!Big > 1
  <2>1. Amounts(r, rt, e, inc)
    BY DEF CutInv, CutTyped, Amounts
  <2> QED BY <2>1, CutGraph
<1>3. ASSUME NEW i \in Cut!Nodes PROVE RestOf(r, rt, e, inc, i, side) = 0
  <2>1. h[i] \in 1 .. Cut!Big /\ rt[i] \in Nat /\ e[i] \in Nat
    BY <1>1, <1>2 DEF Amounts
  <2>2. CASE i \in side
    <3>1. h[i] = Cut!Big
      BY <1>2, <2>1, <2>2
    <3>2. rt[i] = 0
      BY <1>1, <1>2, <2>1, <3>1 DEF Legal
    <3>3. \A j \in Cut!Nodes : <<i, j>> \in Cut!Edges /\ j \notin side => r[<<i, j>>] = 0
      <4> SUFFICES ASSUME NEW j \in Cut!Nodes, <<i, j>> \in Cut!Edges, r[<<i, j>>] # 0 PROVE j \in side
        OBVIOUS
      <4>1. r[<<i, j>>] \in Nat
        BY <1>2 DEF Amounts
      <4>2. Residual(i, j)
        BY <4>1 DEF Residual
      <4> QED BY <1>1, <1>2, <3>1, <4>2
    <3> HIDE DEF side
    <3>4. Cut!Leaving(r, i, side) = 0
      BY <3>3, LeavingZero
    <3> QED BY <2>2, <3>2, <3>4 DEF RestOf
  <2>3. CASE i \notin side
    <3>1. h[i] < Cut!Big
      BY <1>2, <2>1, <2>3
    <3>2. e[i] = 0
      BY <2>1, <3>1 DEF CutInv, WaitingListed, Waits
    <3>3. \A j \in Cut!Nodes : <<j, i>> \in Cut!Edges => inc[<<j, i>>] = 0
      <4> SUFFICES ASSUME NEW j \in Cut!Nodes, <<j, i>> \in Cut!Edges PROVE inc[<<j, i>>] = 0
        OBVIOUS
      <4>1. inc[<<j, i>>] \in Nat
        BY <1>2 DEF Amounts
      <4>2. ~(inc[<<j, i>>] > 0)
        BY DEF CutInv, PushedQueued, PushQueued
      <4> QED BY <4>1, <4>2
    <3>4. GatheredOf(e, inc, i) = e[i]
      BY <1>2, <3>3, GatheredNatural DEF Amounts
    <3> HIDE DEF side
    <3> QED BY <2>3, <3>2, <3>4 DEF RestOf
  <2> QED BY <2>2, <2>3
<1>4. Left(side) = 0
  <2> DEFINE f == [s \in 1 .. N |-> RestOf(r, rt, e, inc, s - 1, side)]
  <2> HIDE DEF side
  <2>1. N \in Nat /\ \A s \in 1 .. N : s - 1 \in Cut!Nodes
    BY CutGraph
  <2>2. \A s \in 1 .. N : f[s] = 0
    BY <1>3, <2>1
  <2>3. Left(side) = Total(N, f)
    BY DEF RemainsOf
  <2> HIDE DEF f
  <2> QED BY <2>1, <2>2, <2>3, SumZero
<1>5. /\ Left(S) \in Nat
      /\ \A i \in Cut!Nodes :
           RestOf(r, rt, e, inc, i, S) <= Left(S) /\ RestOf(r, rt, e, inc, i, S) \in Nat
  BY <1>2, RestNatural
<1>6. Cut!CutValue(S) = CutOf(term, cap, S) /\ Cut!CutValue(side) = CutOf(term, cap, side)
  BY CutSums DEF Cut!CutValue, CutOf
<1>7. CutOf(term, cap, S) \in Nat /\ CutOf(term, cap, side) \in Nat
  BY CutNatural DEF CutInv, CutTyped
<1>8. CutOf(term, cap, S) - Left(S) = CutOf(term, cap, side) - Left(side)
  <2>1. side \in SUBSET Cut!Nodes
    OBVIOUS
  <2> HIDE DEF side
  <2> QED BY <2>1 DEF CutInv, FlowCrossesAll, Even
<1>9. CASE Left(S) > 0
  <2> HIDE DEF side, Left
  <2> QED BY <1>4, <1>5, <1>6, <1>7, <1>8, <1>9
<1>10. CASE Left(S) = 0
  <2> DEFINE k == [i \in Cut!Nodes |-> IF i \in S THEN Cut!Big ELSE 0]
  <2>1. \A i \in Cut!Nodes : RestOf(r, rt, e, inc, i, S) = 0
    <3> HIDE DEF Left
    <3> QED BY <1>5, <1>10
  <2>2. ASSUME NEW i \in S
        PROVE  rt[i] = 0 /\ \A j \in Cut!Nodes : Residual(i, j) => j \in S
    <3>1. i \in Cut!Nodes /\ rt[i] \in Nat /\ r \in [Cut!Edges -> Nat]
      BY <1>2 DEF Amounts
    <3>2. Cut!Leaving(r, i, S) \in Nat
          /\ \A j \in Cut!Nodes : <<i, j>> \in Cut!Edges /\ j \notin S => r[<<i, j>>] <= Cut!Leaving(r, i, S)
      BY <3>1, LeavingNatural
    <3>3. rt[i] + Cut!Leaving(r, i, S) = 0
      BY <2>1, <3>1 DEF RestOf
    <3>4. rt[i] = 0 /\ Cut!Leaving(r, i, S) = 0
      BY <3>1, <3>2, <3>3
    <3>5. ASSUME NEW j \in Cut!Nodes, Residual(i, j), j \notin S PROVE FALSE
      <4>1. <<i, j>> \in Cut!Edges /\ r[<<i, j>>] > 0 /\ r[<<i, j>>] \in Nat
        BY <3>1, <3>5 DEF Residual
      <4> QED BY <3>2, <3>4, <3>5, <4>1
    <3> QED BY <3>4, <3>5
  <2>3. k \in [Cut!Nodes -> 0 .. Cut!Big]
    BY <1>2
  <2>4. Legal(k)
    BY <1>2, <2>2 DEF Legal
  <2>5. \A i \in Cut!Nodes : k[i] <= h[i]
    <3> HIDE DEF k
    <3> QED BY <1>1, <2>3, <2>4, SearchedHighest
  <2>6. S \subseteq side
    BY <1>1, <1>2, <2>5
  <2> HIDE DEF side, Left
  <2> QED BY <1>4, <1>6, <1>7, <1>8, <1>10, <2>6
<1>11. Left(S) > 0 \/ Left(S) = 0
  BY <1>5
<1> QED BY <1>9, <1>10, <1>11

-----------------------------------------------------------------------------
(* The kernels of the minimum cut. *)

LEMMA LeastOf ==
  ASSUME NEW T \in SUBSET Nat, T # {}
  PROVE  Cut!Min(T) \in T /\ \A y \in T : Cut!Min(T) <= y
<1>1. \E x \in T : \A y \in T : x <= y
  BY LeastNatural
<1> QED BY <1>1 DEF Cut!Min

LEMMA LesserOf ==
  ASSUME NEW a \in Nat, NEW b \in Nat
  PROVE  Cut!Min({a, b}) \in Nat /\ Cut!Min({a, b}) <= a /\ Cut!Min({a, b}) <= b
         /\ (Cut!Min({a, b}) = a \/ Cut!Min({a, b}) = b)
<1>1. {a, b} \in SUBSET Nat /\ {a, b} # {} /\ a \in {a, b} /\ b \in {a, b}
  OBVIOUS
<1>2. Cut!Min({a, b}) \in {a, b} /\ \A y \in {a, b} : Cut!Min({a, b}) <= y
  BY <1>1, LeastOf
<1> QED BY <1>1, <1>2

LEMMA GreaterOf ==
  ASSUME NEW a \in Nat, NEW b \in Nat
  PROVE  Cut!Max({a, b}) \in Nat /\ a <= Cut!Max({a, b}) /\ b <= Cut!Max({a, b})
         /\ (Cut!Max({a, b}) = a \/ Cut!Max({a, b}) = b)
<1>1. \E x \in {a, b} : \A y \in {a, b} : x >= y
  <2>1. CASE a >= b
    BY <2>1
  <2>2. CASE b >= a
    BY <2>2
  <2> QED BY <2>1, <2>2
<1>2. Cut!Max({a, b}) \in {a, b} /\ \A y \in {a, b} : Cut!Max({a, b}) >= y
  BY <1>1 DEF Cut!Max
<1> QED BY <1>2

\* A node never falls, and rises at most one above those below it.
LEMMA NewHeights ==
  ASSUME CutTyped, NEW i \in Cut!Nodes, NEW k, k = Cut!NewHeight(i)
  PROVE  /\ k \in 0 .. Cut!Big /\ h[i] <= k
         /\ rt[i] > 0 => k <= h[i] \/ k <= 1
         /\ \A j \in Cut!Nodes : Residual(i, j) => k <= h[i] \/ k <= h[j] + 1
<1> DEFINE below == {h[j] : j \in {j \in Cut!Nodes : <<i, j>> \in Cut!Edges /\ r[<<i, j>>] > 0}}
                      \cup (IF rt[i] > 0 THEN {0} ELSE {Cut!Big})
<1>1. h \in [Cut!Nodes -> 0 .. Cut!Big] /\ Cut!Big \in Nat
  <2>1. h \in [Cut!Nodes -> 0 .. Cut!Big]
    BY DEF CutTyped
  <2> QED BY <2>1, CutGraph
<1>2. below \in SUBSET Nat /\ below # {}
  <2>1. \A j \in Cut!Nodes : h[j] \in Nat
    BY <1>1
  <2>2. \A y \in below : y = 0 \/ y = Cut!Big \/ \E j \in Cut!Nodes : y = h[j]
    OBVIOUS
  <2>3. 0 \in below \/ Cut!Big \in below
    OBVIOUS
  <2> HIDE DEF below
  <2> QED BY <1>1, <2>1, <2>2, <2>3
<1>3. (rt[i] > 0 => 0 \in below) /\ \A j \in Cut!Nodes : Residual(i, j) => h[j] \in below
  BY DEF Residual
<1>4. PICK m : m = Cut!Min(below)
  OBVIOUS
<1>5. m \in Nat /\ \A y \in below : m <= y
  <2> HIDE DEF below
  <2> QED BY <1>2, <1>4, LeastOf
<1>6. k = IF Cut!Gathered(i) > 0 /\ h[i] < Cut!Big THEN Cut!Max({h[i], Cut!Min({m + 1, Cut!Big})}) ELSE h[i]
  BY <1>4 DEF Cut!NewHeight
<1> HIDE DEF below
<1>7. PICK l : l = Cut!Min({m + 1, Cut!Big}) /\ l \in Nat /\ l <= m + 1 /\ l <= Cut!Big
  BY <1>1, <1>5, LesserOf
<1>8. h[i] \in Nat /\ h[i] <= Cut!Big
  BY <1>1
<1>9. PICK c : c = Cut!Max({h[i], l}) /\ c \in Nat /\ h[i] <= c /\ (c = h[i] \/ c = l)
  BY <1>7, <1>8, GreaterOf
<1>10. k = h[i] \/ k = c
  BY <1>6, <1>7, <1>9
<1>11. k \in Nat /\ h[i] <= k /\ k <= Cut!Big /\ (k = h[i] \/ k <= m + 1)
  BY <1>5, <1>7, <1>8, <1>9, <1>10
<1>12. k \in 0 .. Cut!Big
  BY <1>1, <1>11
<1>13. rt[i] > 0 => k <= h[i] \/ k <= 1
  BY <1>3, <1>5, <1>8, <1>11
<1>14. ASSUME NEW j \in Cut!Nodes, Residual(i, j) PROVE k <= h[i] \/ k <= h[j] + 1
  <2>1. h[j] \in Nat /\ m <= h[j]
    BY <1>1, <1>3, <1>5, <1>14
  <2> QED BY <1>5, <1>8, <1>11, <2>1
<1> QED BY <1>11, <1>12, <1>13, <1>14

\* The lists after a search hold all that waits.
LEMMA TopKeeps == ASSUME CutInv, Cut!Top PROVE CutInv'
<1>1. /\ host_pc = "top" /\ queued' = {} /\ slot' = [i \in Cut!Nodes |-> 0]
      /\ term' = term /\ cap' = cap /\ r' = r /\ e' = e /\ rt' = rt /\ inc' = inc /\ seen' = seen /\ it' = it
  BY DEF Cut!Top
<1>2. \/ /\ it = 0 /\ h' = Cut!global_relabel
         /\ list' = {i \in Cut!Nodes : e[i] > 0 /\ h'[i] < Cut!Big}
         /\ host_pc' = IF list' = {} THEN "last" ELSE "push"
      \/ it # 0 /\ host_pc' = "push" /\ h' = h /\ list' = list
  BY DEF Cut!Top
<1>3. CutTyped
  BY DEF CutInv
<1>4. h' \in [Cut!Nodes -> 0 .. Cut!Big] /\ Legal(h')
  <2>1. CASE h' = Cut!global_relabel
    <3>1. h' \in [Cut!Nodes -> 1 .. Cut!Big] /\ Legal(h') /\ 1 .. Cut!Big \subseteq 0 .. Cut!Big
      BY <2>1, SearchedHeights
    <3> QED BY <3>1
  <2>2. CASE h' = h
    BY <2>2 DEF CutInv, CutTyped
  <2> QED BY <1>2, <2>1, <2>2
<1>5. Legal(h)'
  BY <1>1, <1>4 DEF Legal, Residual
<1>6. list' \in SUBSET Cut!Nodes /\ host_pc' \in {"last", "push"}
  BY <1>2, <1>3 DEF CutTyped
<1>7. CutTyped'
  <2>1. slot' \in [Cut!Nodes -> Nat]
    BY <1>1
  <2>2. queued' \in SUBSET Cut!Nodes
    BY <1>1
  <2> QED BY <1>1, <1>3, <1>4, <1>6, <2>1, <2>2 DEF CutTyped, Stops
<1>8. WaitingListed'
  <2> SUFFICES ASSUME NEW i \in Cut!Nodes, e[i] > 0, h'[i] < Cut!Big
               PROVE  host_pc' = "push" /\ i \in list'
    BY <1>1 DEF WaitingListed, Waits
  <2> QED BY <1>1, <1>2 DEF CutInv, WaitingListed, Waits
<1>9. PushesApart'
  BY <1>1 DEF CutInv, PushesApart, PushApart
<1>10. PushedQueued'
  BY <1>1 DEF CutInv, PushedQueued, PushQueued
<1>11. FlowCrossesAll'
  BY <1>1 DEF CutInv, FlowCrossesAll
<1>12. host_pc' # "done"
  BY <1>6
<1> QED BY <1>5, <1>7, <1>8, <1>9, <1>10, <1>11, <1>12 DEF CutInv

LEMMA PushOverKeeps == ASSUME CutInv, Cut!PushOver PROVE CutInv'
<1>1. /\ host_pc = "push" /\ host_pc' = "relabel" /\ \A i \in list : slot[i] > Cut!Slots(i)
      /\ queued' = queued \cup {i \in list : e[i] > 0 /\ h[i] < Cut!Big}
      /\ term' = term /\ cap' = cap /\ r' = r /\ e' = e /\ rt' = rt /\ h' = h /\ inc' = inc
      /\ list' = list /\ slot' = slot /\ seen' = seen /\ it' = it
  BY DEF Cut!PushOver
<1>2. CutTyped'
  BY <1>1 DEF CutInv, CutTyped, Stops
<1>3. Legal(h)'
  BY <1>1 DEF CutInv, Legal, Residual
<1>4. WaitingListed'
  <2> SUFFICES ASSUME NEW i \in Cut!Nodes, e[i] > 0, h[i] < Cut!Big PROVE i \in queued'
    BY <1>1 DEF WaitingListed, Waits
  <2> QED BY <1>1 DEF CutInv, WaitingListed, Waits
<1>5. PushesApart'
  <2> SUFFICES ASSUME NEW i \in Cut!Nodes, seen[i] # <<>> PROVE FALSE
    BY <1>1 DEF PushesApart, PushApart
  <2>1. i \in list /\ slot[i] \in 1 .. Cut!Slots(i)
    BY DEF CutInv, PushesApart, PushApart
  <2>2. Cut!Slots(i) \in Nat
    BY CutGraph
  <2> QED BY <1>1, <2>1, <2>2
<1>6. PushedQueued'
  BY <1>1 DEF CutInv, PushedQueued, PushQueued
<1>7. FlowCrossesAll'
  BY <1>1 DEF CutInv, FlowCrossesAll
<1> QED BY <1>1, <1>2, <1>3, <1>4, <1>5, <1>6, <1>7 DEF CutInv

LEMMA LastKeeps == ASSUME CutInv, Cut!LastRelabel PROVE CutInv'
<1>1. /\ host_pc = "last" /\ host_pc' = "done" /\ h' = Cut!global_relabel
      /\ term' = term /\ cap' = cap /\ r' = r /\ e' = e /\ rt' = rt /\ inc' = inc
      /\ list' = list /\ queued' = queued /\ slot' = slot /\ seen' = seen /\ it' = it
  BY DEF Cut!LastRelabel
<1>2. h' \in [Cut!Nodes -> 1 .. Cut!Big] /\ Legal(h')
  BY <1>1, SearchedHeights
<1>3. CutTyped'
  <2>1. h' \in [Cut!Nodes -> 0 .. Cut!Big]
    BY <1>2
  <2> QED BY <1>1, <2>1 DEF CutInv, CutTyped, Stops
<1>4. Legal(h)'
  BY <1>1, <1>2 DEF Legal, Residual
<1>5. WaitingListed'
  <2> SUFFICES ASSUME NEW i \in Cut!Nodes, e[i] > 0, h'[i] < Cut!Big PROVE FALSE
    BY <1>1 DEF WaitingListed, Waits
  <2>1. h \in [Cut!Nodes -> 0 .. Cut!Big] /\ Legal(h)
    BY DEF CutInv, CutTyped
  <2>2. h[i] <= h'[i]
    BY <1>1, <2>1, SearchedHighest
  <2>3. h[i] \in Int /\ h'[i] \in Int /\ Cut!Big \in Int
    BY <1>2, <2>1, CutGraph
  <2>4. Waits(i)
    BY <2>2, <2>3 DEF Waits
  <2> QED BY <1>1, <2>4 DEF CutInv, WaitingListed
<1>6. PushesApart'
  BY <1>1 DEF CutInv, PushesApart, PushApart
<1>7. PushedQueued'
  BY <1>1 DEF CutInv, PushedQueued, PushQueued
<1>8. FlowCrossesAll'
  BY <1>1 DEF CutInv, FlowCrossesAll
<1>9. h' = Cut!global_relabel'
  BY <1>1 DEF Cut!global_relabel
<1> QED BY <1>3, <1>4, <1>5, <1>6, <1>7, <1>8, <1>9 DEF CutInv

\* A step that takes the same from what remains of every cut keeps the flow even.
LEMMA EvenKept ==
  ASSUME NEW tm \in [Cut!Nodes -> Nat \X Nat], NEW c \in [Cut!Edges -> Nat],
         NEW x, NEW t, NEW w, NEW p, Amounts(x, t, w, p), Even(tm, c, x, t, w, p),
         NEW y, NEW u, NEW v, NEW q, NEW a \in Int,
         \A S \in SUBSET Cut!Nodes : RemainsOf(y, u, v, q, S) = RemainsOf(x, t, w, p, S) + a
  PROVE  Even(tm, c, y, u, v, q)
<1> SUFFICES ASSUME NEW S \in SUBSET Cut!Nodes, NEW T \in SUBSET Cut!Nodes
             PROVE  CutOf(tm, c, S) - RemainsOf(y, u, v, q, S) = CutOf(tm, c, T) - RemainsOf(y, u, v, q, T)
  BY DEF Even
<1>1. CutOf(tm, c, S) \in Nat /\ CutOf(tm, c, T) \in Nat
  BY CutNatural
<1>2. RemainsOf(x, t, w, p, S) \in Nat /\ RemainsOf(x, t, w, p, T) \in Nat
  BY RestNatural
<1>3. CutOf(tm, c, S) - RemainsOf(x, t, w, p, S) = CutOf(tm, c, T) - RemainsOf(x, t, w, p, T)
  BY DEF Even
<1>4. /\ RemainsOf(y, u, v, q, S) = RemainsOf(x, t, w, p, S) + a
      /\ RemainsOf(y, u, v, q, T) = RemainsOf(x, t, w, p, T) + a
  OBVIOUS
<1> QED BY <1>1, <1>2, <1>3, <1>4

\* Gathering moves no flow, and a new height is one above a residual neighbour at most.
LEMMA RelabelKeeps == ASSUME CutInv, Cut!Relabel PROVE CutInv'
<1>1. /\ host_pc = "relabel" /\ host_pc' \in {"last", "top"}
      /\ e' = [i \in Cut!Nodes |-> IF i \in queued THEN Cut!Gathered(i) ELSE e[i]]
      /\ inc' = [ij \in Cut!Edges |-> IF ij[2] \in queued THEN 0 ELSE inc[ij]]
      /\ h' = [i \in Cut!Nodes |-> IF i \in queued THEN Cut!NewHeight(i) ELSE h[i]]
      /\ list' = queued /\ it' = (it + 1) % relabel_every
      /\ term' = term /\ cap' = cap /\ r' = r /\ rt' = rt
      /\ queued' = queued /\ slot' = slot /\ seen' = seen
  BY DEF Cut!Relabel
<1>2. host_pc' = IF Cut!Active(e', h') = {} THEN "last" ELSE "top"
  BY DEF Cut!Relabel
<1>3. CutTyped /\ Amounts(r, rt, e, inc)
  BY DEF CutInv, CutTyped, Amounts
<1>4. ASSUME NEW i \in Cut!Nodes PROVE Cut!Gathered(i) = GatheredOf(e, inc, i)
  BY CutSums DEF Cut!Gathered, GatheredOf
<1>5. Gathers(e', e, inc, queued) /\ Clears(inc', inc, queued)
  BY <1>1, <1>4 DEF Gathers, Clears
<1>6. Amounts(r, rt, e', inc') /\ \A S : RemainsOf(r, rt, e', inc', S) = RemainsOf(r, rt, e, inc, S)
  BY <1>3, <1>5, GatheringKeeps
<1>7. ASSUME NEW i \in Cut!Nodes
      PROVE  /\ h[i] \in 0 .. Cut!Big /\ h'[i] \in 0 .. Cut!Big /\ h[i] <= h'[i]
             /\ rt[i] > 0 => h'[i] <= h[i] \/ h'[i] <= 1
             /\ \A j \in Cut!Nodes : Residual(i, j) => h'[i] <= h[i] \/ h'[i] <= h[j] + 1
  <2>1. h[i] \in 0 .. Cut!Big
    BY <1>3 DEF CutTyped
  <2>2. CASE i \in queued
    <3>1. h'[i] = Cut!NewHeight(i)
      BY <1>1, <2>2
    <3> QED BY <1>3, <2>1, <3>1, NewHeights
  <2>3. CASE i \notin queued
    <3>1. h'[i] = h[i]
      BY <1>1, <2>3
    <3> QED BY <2>1, <3>1, CutGraph
  <2> QED BY <2>2, <2>3
<1>8. h' \in [Cut!Nodes -> 0 .. Cut!Big]
  <2>1. h' = [i \in Cut!Nodes |-> h'[i]]
    BY <1>1
  <2> QED BY <1>7, <2>1
<1>9. it' \in 0 .. relabel_every - 1
  <2>1. it \in Nat /\ relabel_every \in Nat \ {0}
    BY <1>3, CutAssumption DEF CutTyped
  <2> QED BY <1>1, <2>1
<1>10. CutTyped'
  <2>1. e' \in [Cut!Nodes -> Nat] /\ inc' \in [Cut!Edges -> Nat]
    BY <1>6 DEF Amounts
  <2> QED BY <1>1, <1>3, <1>8, <1>9, <2>1 DEF CutTyped, Stops
<1>11. Legal(h)'
  <2>1. Legal(h)
    BY DEF CutInv
  <2>2. ASSUME NEW i \in Cut!Nodes, rt[i] > 0 PROVE h'[i] <= 1
    <3>1. h[i] <= 1
      BY <2>1, <2>2 DEF Legal
    <3>2. h[i] \in 0 .. Cut!Big /\ h'[i] \in 0 .. Cut!Big /\ (h'[i] <= h[i] \/ h'[i] <= 1)
      BY <1>7, <2>2
    <3> QED BY <3>1, <3>2, CutGraph
  <2>3. ASSUME NEW i \in Cut!Nodes, NEW j \in Cut!Nodes, Residual(i, j) PROVE h'[i] <= h'[j] + 1
    <3>1. h[i] <= h[j] + 1
      BY <2>1, <2>3 DEF Legal
    <3>2. h[i] \in 0 .. Cut!Big /\ h'[i] \in 0 .. Cut!Big /\ (h'[i] <= h[i] \/ h'[i] <= h[j] + 1)
      BY <1>7, <2>3
    <3>3. h[j] \in 0 .. Cut!Big /\ h'[j] \in 0 .. Cut!Big /\ h[j] <= h'[j]
      BY <1>7
    <3>4. h[i] \in Int /\ h'[i] \in Int /\ h[j] \in Int /\ h'[j] \in Int
      BY <3>2, <3>3, CutGraph
    <3> QED BY <3>1, <3>2, <3>3, <3>4
  <2> QED BY <1>1, <2>2, <2>3 DEF Legal, Residual
<1>12. ASSUME NEW i \in Cut!Nodes, e'[i] > 0, h'[i] < Cut!Big PROVE i \in queued /\ host_pc' = "top"
  <2>1. i \in queued
    <3> SUFFICES ASSUME i \notin queued PROVE FALSE
      OBVIOUS
    <3>1. e[i] > 0 /\ h[i] < Cut!Big
      BY <1>1, <1>12
    <3> QED BY <1>1, <3>1 DEF CutInv, WaitingListed, Waits
  <2>2. i \in Cut!Active(e', h')
    BY <1>12, <2>1 DEF Cut!Active
  <2> QED BY <1>2, <2>1, <2>2
<1>13. WaitingListed'
  <2> SUFFICES ASSUME NEW i \in Cut!Nodes, e'[i] > 0, h'[i] < Cut!Big
               PROVE  host_pc' = "top" /\ i \in list'
    BY DEF WaitingListed, Waits
  <2> QED BY <1>1, <1>12
<1>14. PushesApart'
  BY <1>1 DEF CutInv, PushesApart, PushApart
<1>15. PushedQueued'
  <2> SUFFICES ASSUME NEW i \in Cut!Nodes, NEW j \in Cut!Nodes, <<i, j>> \in Cut!Edges, inc'[<<i, j>>] > 0
               PROVE  FALSE
    BY DEF PushedQueued, PushQueued
  <2>1. inc'[<<i, j>>] = IF j \in queued THEN 0 ELSE inc[<<i, j>>]
    BY <1>1
  <2>2. inc[<<i, j>>] > 0 => j \in queued
    BY DEF CutInv, PushedQueued, PushQueued
  <2> QED BY <2>1, <2>2
<1>16. FlowCrossesAll'
  <2>1. \A S \in SUBSET Cut!Nodes : RemainsOf(r, rt, e', inc', S) = RemainsOf(r, rt, e, inc, S) + 0
    BY <1>3, <1>6, RestNatural
  <2>2. term \in [Cut!Nodes -> Nat \X Nat] /\ cap \in [Cut!Edges -> Nat] /\ 0 \in Int
        /\ Even(term, cap, r, rt, e, inc)
    BY <1>3 DEF CutTyped, CutInv, FlowCrossesAll
  <2>3. Even(term, cap, r, rt, e', inc')
    BY <1>3, <2>1, <2>2, EvenKept
  <2> QED BY <1>1, <2>3 DEF FlowCrossesAll
<1>17. host_pc' # "done"
  BY <1>1
<1> QED BY <1>10, <1>11, <1>13, <1>14, <1>15, <1>16, <1>17 DEF CutInv

\* A push to the sink takes as much from every cut.
LEMMA SinkKeeps == ASSUME CutInv, NEW i \in Cut!Nodes, Cut!PushToSink(i) PROVE CutInv'
<1>1. /\ host_pc = "push" /\ i \in list /\ seen[i] = <<>> /\ slot[i] = 0
      /\ slot' = [slot EXCEPT ![i] = IF h[i] >= Cut!Big THEN Cut!Slots(i) + 1 ELSE 1]
      /\ term' = term /\ cap' = cap /\ r' = r /\ h' = h /\ inc' = inc /\ list' = list
      /\ queued' = queued /\ seen' = seen /\ it' = it /\ host_pc' = host_pc
  BY DEF Cut!PushToSink, Cut!Pushing
<1>2. PICK a : /\ a = IF h[i] = 1 THEN Cut!Min({e[i], rt[i]}) ELSE 0
               /\ Less(rt', rt, i, a) /\ Less(e', e, i, a)
  BY DEF Cut!PushToSink, Less
<1>3. CutTyped /\ Amounts(r, rt, e, inc)
  BY DEF CutInv, CutTyped, Amounts
<1>4. a \in Nat /\ a <= rt[i] /\ a <= e[i] /\ rt[i] \in Nat /\ e[i] \in Nat
  <2>1. rt[i] \in Nat /\ e[i] \in Nat
    BY <1>3 DEF Amounts
  <2> QED BY <1>2, <2>1, LesserOf
<1>5. Amounts(r, rt', e', inc)
      /\ \A S : RemainsOf(r, rt', e', inc, S) = RemainsOf(r, rt, e, inc, S) + (0 - a)
  BY <1>2, <1>3, <1>4, SinkTakes
<1>6. \A k \in Cut!Nodes : (rt'[k] > 0 => rt[k] > 0) /\ (e'[k] > 0 => e[k] > 0)
  BY <1>2, <1>3, <1>4 DEF Amounts, Less
<1>7. slot' \in [Cut!Nodes -> Nat] /\ \A k \in Cut!Nodes : k # i => slot'[k] = slot[k]
  <2>1. Cut!Slots(i) + 1 \in Nat /\ slot \in [Cut!Nodes -> Nat]
    BY <1>3, CutGraph DEF CutTyped
  <2> QED BY <1>1, <2>1
<1>8. CutTyped'
  <2>1. e' \in [Cut!Nodes -> Nat] /\ rt' \in [Cut!Nodes -> Nat]
    BY <1>5 DEF Amounts
  <2> QED BY <1>1, <1>3, <1>7, <2>1 DEF CutTyped
<1>9. Legal(h)'
  BY <1>1, <1>6 DEF CutInv, Legal, Residual
<1>10. WaitingListed'
  BY <1>1, <1>6 DEF CutInv, WaitingListed, Waits
<1>11. PushesApart'
  <2> SUFFICES ASSUME NEW k \in Cut!Nodes, seen[k] # <<>> PROVE PushApart(k)'
    BY <1>1 DEF PushesApart, PushApart
  <2>1. PushApart(k) /\ slot'[k] = slot[k]
    BY <1>1, <1>7 DEF CutInv, PushesApart
  <2> QED BY <1>1, <2>1 DEF PushApart, Cut!At, Cut!Back, Cut!Admissible
<1>12. PushedQueued'
  <2> SUFFICES ASSUME NEW k \in Cut!Nodes, NEW j \in Cut!Nodes, <<k, j>> \in Cut!Edges PROVE PushQueued(k, j)'
    BY DEF PushedQueued
  <2>1. PushQueued(k, j)
    BY DEF CutInv, PushedQueued
  <2>2. CASE k = i
    <3>1. ~SlotPast(i, j)
      BY <1>1 DEF SlotPast
    <3> QED BY <1>1, <2>1, <2>2, <3>1 DEF PushQueued
  <2>3. CASE k # i
    <3>1. SlotPast(k, j)' = SlotPast(k, j)
      BY <1>7, <2>3 DEF SlotPast
    <3> QED BY <1>1, <2>1, <3>1 DEF PushQueued
  <2> QED BY <2>2, <2>3
<1>13. FlowCrossesAll'
  <2>1. term \in [Cut!Nodes -> Nat \X Nat] /\ cap \in [Cut!Edges -> Nat] /\ Even(term, cap, r, rt, e, inc)
    BY <1>3 DEF CutTyped, CutInv, FlowCrossesAll
  <2>2. PICK b : b = 0 - a /\ b \in Int
    BY <1>4
  <2>3. \A S \in SUBSET Cut!Nodes : RemainsOf(r, rt', e', inc, S) = RemainsOf(r, rt, e, inc, S) + b
    BY <1>5, <2>2
  <2>4. Even(term, cap, r, rt', e', inc)
    BY <1>3, <2>1, <2>2, <2>3, EvenKept
  <2> QED BY <1>1, <2>4 DEF FlowCrossesAll
<1> QED BY <1>1, <1>8, <1>9, <1>10, <1>11, <1>12, <1>13 DEF CutInv

\* A residual edge down by one cannot be pushed along from the other end.
LEMMA ReadKeeps == ASSUME CutInv, NEW i \in Cut!Nodes, Cut!ReadSlot(i) PROVE CutInv'
<1>1. /\ host_pc = "push" /\ i \in list /\ slot[i] <= Cut!Slots(i) /\ seen[i] = <<>> /\ slot[i] > 0
      /\ term' = term /\ cap' = cap /\ r' = r /\ e' = e /\ rt' = rt /\ h' = h /\ inc' = inc
      /\ list' = list /\ queued' = queued /\ it' = it /\ host_pc' = host_pc
  BY DEF Cut!ReadSlot, Cut!Pushing
<1>2. \/ /\ Cut!Admissible(Cut!At(i)) /\ slot' = slot
         /\ seen' = [seen EXCEPT ![i] = <<r[Cut!At(i)], r[Cut!Back(Cut!At(i))]>>]
      \/ slot' = [slot EXCEPT ![i] = @ + 1] /\ seen' = seen
  BY DEF Cut!ReadSlot
<1>3. CutTyped
  BY DEF CutInv
<1>4. slot[i] \in 1 .. Cut!Slots(i) /\ slot \in [Cut!Nodes -> Nat]
  <2>1. slot \in [Cut!Nodes -> Nat] /\ Cut!Slots(i) \in Nat
    BY <1>3, CutGraph DEF CutTyped
  <2> QED BY <1>1, <2>1
<1>5. r[Cut!At(i)] \in Nat /\ r[Cut!Back(Cut!At(i))] \in Nat
  <2>1. <<i, Neighbours[i][slot[i]]>> \in Cut!Edges /\ <<Neighbours[i][slot[i]], i>> \in Cut!Edges
    BY <1>4, CutGraph
  <2>2. r \in [Cut!Edges -> Nat]
    BY <1>3 DEF CutTyped
  <2> QED BY <2>1, <2>2 DEF Cut!At, Cut!Back
<1>6. /\ slot' \in [Cut!Nodes -> Nat]
      /\ \A k \in Cut!Nodes : slot[k] <= slot'[k] /\ (k # i => slot'[k] = slot[k])
      /\ seen' \in [Cut!Nodes -> {<<>>} \cup (Nat \X Nat)] /\ \A k \in Cut!Nodes : k # i => seen'[k] = seen[k]
  <2>1. seen \in [Cut!Nodes -> {<<>>} \cup (Nat \X Nat)]
    BY <1>3 DEF CutTyped
  <2>2. CASE slot' = slot /\ seen' = [seen EXCEPT ![i] = <<r[Cut!At(i)], r[Cut!Back(Cut!At(i))]>>]
    <3>1. \A k \in Cut!Nodes : slot[k] \in Nat
      BY <1>4
    <3>2. <<r[Cut!At(i)], r[Cut!Back(Cut!At(i))]>> \in Nat \X Nat
      BY <1>5
    <3> QED BY <1>4, <2>1, <2>2, <3>1, <3>2
  <2>3. CASE slot' = [slot EXCEPT ![i] = @ + 1] /\ seen' = seen
    BY <1>4, <2>1, <2>3
  <2> QED BY <1>2, <2>2, <2>3
<1>7. CutTyped'
  BY <1>1, <1>3, <1>6 DEF CutTyped
<1>8. Legal(h)'
  BY <1>1 DEF CutInv, Legal, Residual
<1>9. WaitingListed'
  BY <1>1 DEF CutInv, WaitingListed, Waits
<1>10. PushesApart'
  <2> SUFFICES ASSUME NEW k \in Cut!Nodes, seen'[k] # <<>> PROVE PushApart(k)'
    BY DEF PushesApart, PushApart
  <2>1. CASE k # i
    <3>1. PushApart(k) /\ slot'[k] = slot[k] /\ seen'[k] = seen[k]
      BY <1>6, <2>1 DEF CutInv, PushesApart
    <3> QED BY <1>1, <3>1 DEF PushApart, Cut!At, Cut!Back, Cut!Admissible
  <2>2. CASE k = i
    <3>1. seen' = [seen EXCEPT ![i] = <<r[Cut!At(i)], r[Cut!Back(Cut!At(i))]>>] /\ slot' = slot
          /\ Cut!Admissible(Cut!At(i))
      BY <1>1, <1>2, <2>2
    <3>2. seen'[i] = <<r[Cut!At(i)], r[Cut!Back(Cut!At(i))]>>
      BY <1>3, <3>1 DEF CutTyped
    <3>3. /\ Cut!At(i)' = Cut!At(i) /\ Cut!Back(Cut!At(i))' = Cut!Back(Cut!At(i))
          /\ Cut!Admissible(Cut!At(i))' = Cut!Admissible(Cut!At(i))
      BY <1>1, <3>1 DEF Cut!At, Cut!Back, Cut!Admissible
    <3> QED BY <1>1, <1>4, <2>2, <3>1, <3>2, <3>3 DEF PushApart
  <2> QED BY <2>1, <2>2
<1>11. PushedQueued'
  <2> SUFFICES ASSUME NEW k \in Cut!Nodes, NEW j \in Cut!Nodes, <<k, j>> \in Cut!Edges PROVE PushQueued(k, j)'
    BY DEF PushedQueued
  <2>1. PushQueued(k, j)
    BY DEF CutInv, PushedQueued
  <2>2. SlotPast(k, j) => SlotPast(k, j)'
    <3>1. slot[k] <= slot'[k] /\ slot[k] \in Nat /\ slot'[k] \in Nat
      BY <1>4, <1>6
    <3> QED BY <3>1 DEF SlotPast
  <2> QED BY <1>1, <2>1, <2>2 DEF PushQueued
<1>12. FlowCrossesAll'
  BY <1>1 DEF CutInv, FlowCrossesAll
<1> QED BY <1>1, <1>7, <1>8, <1>9, <1>10, <1>11, <1>12 DEF CutInv

\* A push over an edge opens only the edge back, which leads up.
LEMMA WriteKeeps == ASSUME CutInv, NEW i \in Cut!Nodes, Cut!WriteSlot(i) PROVE CutInv'
<1>1. CutTyped /\ Amounts(r, rt, e, inc) /\ r \in [Cut!Edges -> Nat]
      /\ slot \in [Cut!Nodes -> Nat] /\ seen \in [Cut!Nodes -> {<<>>} \cup (Nat \X Nat)]
  BY DEF CutInv, CutTyped, Amounts
<1>2. /\ seen[i] # <<>> /\ seen' = [seen EXCEPT ![i] = <<>>] /\ slot' = [slot EXCEPT ![i] = @ + 1]
      /\ queued' = queued \cup {Cut!At(i)[2]}
      /\ term' = term /\ cap' = cap /\ rt' = rt /\ h' = h /\ list' = list /\ it' = it
      /\ host_pc' = host_pc
  BY DEF Cut!WriteSlot
<1>3. /\ host_pc = "push" /\ i \in list /\ slot[i] \in 1 .. Cut!Slots(i)
      /\ seen[i] = <<r[Cut!At(i)], r[Cut!Back(Cut!At(i))]>> /\ Cut!Admissible(Cut!At(i))
  BY <1>2 DEF CutInv, PushesApart, PushApart
<1>4. PICK j \in Cut!Nodes : /\ j = Neighbours[i][slot[i]] /\ <<i, j>> \in Cut!Edges /\ <<j, i>> \in Cut!Edges
  BY <1>3, CutGraph
<1>5. Cut!At(i) = <<i, j>> /\ Cut!Back(Cut!At(i)) = <<j, i>>
  BY <1>4 DEF Cut!At, Cut!Back
<1>6. h[i] = h[j] + 1 /\ h[i] \in Nat /\ h[j] \in Nat
  <2>1. h \in [Cut!Nodes -> 0 .. Cut!Big] /\ Cut!Big \in Nat
    BY <1>1, CutGraph DEF CutTyped
  <2> QED BY <1>3, <1>5, <2>1 DEF Cut!Admissible
<1>7. i # j
  BY <1>6
<1>8. PICK a : a = Cut!Min({e[i], r[<<i, j>>]})
  OBVIOUS
<1>9. Moves(r', r, i, j, a) /\ Puts(inc', inc, <<i, j>>, a) /\ Less(e', e, i, a)
  <2>1. PICK b, c, d : b = seen[i][1] /\ c = seen[i][2] /\ d = Cut!Min({e[i], b})
    OBVIOUS
  <2>2. /\ r' = [r EXCEPT ![Cut!At(i)] = b - d, ![Cut!Back(Cut!At(i))] = c + d]
        /\ inc' = [inc EXCEPT ![Cut!At(i)] = d] /\ e' = [e EXCEPT ![i] = @ - d]
    BY <2>1 DEF Cut!WriteSlot
  <2>3. b = r[<<i, j>>] /\ c = r[<<j, i>>]
    BY <1>3, <1>5, <2>1
  <2>4. d = a
    BY <1>8, <2>1, <2>3
  <2>5. Moves(r', r, i, j, a)
    BY <1>5, <2>2, <2>3, <2>4 DEF Moves
  <2> QED BY <1>5, <2>2, <2>4, <2>5 DEF Puts, Less
<1>10. a \in Nat /\ a <= r[<<i, j>>] /\ a <= e[i] /\ r[<<i, j>>] \in Nat /\ e[i] \in Nat
  <2>1. r[<<i, j>>] \in Nat /\ e[i] \in Nat
    BY <1>1, <1>4 DEF Amounts
  <2> QED BY <1>8, <2>1, LesserOf
<1>11. inc[<<i, j>>] = 0
  <2>1. inc[<<i, j>>] \in Nat
    BY <1>1, <1>4 DEF Amounts
  <2>2. ~SlotPast(i, j)
    <3> SUFFICES ASSUME NEW s \in 1 .. Cut!Slots(i), s < slot[i], Neighbours[i][s] = j PROVE FALSE
      BY DEF SlotPast
    <3>1. s = slot[i]
      BY <1>3, <1>4, OneSlot
    <3>2. s \in Nat
      OBVIOUS
    <3> QED BY <3>1, <3>2
  <2>3. PushQueued(i, j)
    BY <1>4 DEF CutInv, PushedQueued
  <2> QED BY <1>3, <2>1, <2>2, <2>3 DEF PushQueued
<1>12. Amounts(r', rt, e', inc')
       /\ \A S : RemainsOf(r', rt, e', inc', S) = RemainsOf(r, rt, e, inc, S)
  BY <1>1, <1>4, <1>7, <1>9, <1>10, <1>11, EdgeTakes
<1>13. \A k, l \in Cut!Nodes : <<k, l>> \in Cut!Edges /\ <<k, l>> # <<i, j>> /\ <<k, l>> # <<j, i>>
         => r'[<<k, l>>] = r[<<k, l>>]
  BY <1>1, <1>9 DEF Moves
<1>14. \A k \in Cut!Nodes : (e'[k] > 0 => e[k] > 0) /\ (k # i => slot'[k] = slot[k] /\ seen'[k] = seen[k])
  <2>1. \A k \in Cut!Nodes : e'[k] > 0 => e[k] > 0
    BY <1>1, <1>9, <1>10 DEF Amounts, Less
  <2>2. \A k \in Cut!Nodes : k # i => slot'[k] = slot[k] /\ seen'[k] = seen[k]
    BY <1>1, <1>2
  <2> QED BY <2>1, <2>2
<1>15. slot'[i] = slot[i] + 1 /\ seen'[i] = <<>> /\ slot[i] \in Nat
  BY <1>1, <1>2
<1>16. CutTyped'
  <2>1. r' \in [Cut!Edges -> Nat] /\ e' \in [Cut!Nodes -> Nat] /\ inc' \in [Cut!Edges -> Nat]
    BY <1>12 DEF Amounts
  <2>2. slot' \in [Cut!Nodes -> Nat] /\ seen' \in [Cut!Nodes -> {<<>>} \cup (Nat \X Nat)]
    BY <1>1, <1>2
  <2>3. queued' \in SUBSET Cut!Nodes
    <3>1. queued \in SUBSET Cut!Nodes
      BY <1>1 DEF CutTyped
    <3> QED BY <1>2, <1>5, <3>1
  <2> QED BY <1>1, <1>2, <2>1, <2>2, <2>3 DEF CutTyped
<1>17. Legal(h)'
  <2>1. Legal(h)
    BY DEF CutInv
  <2>2. ASSUME NEW k \in Cut!Nodes, NEW l \in Cut!Nodes, <<k, l>> \in Cut!Edges, r'[<<k, l>>] > 0
        PROVE  h[k] <= h[l] + 1
    <3>1. CASE <<k, l>> = <<i, j>>
      BY <1>6, <3>1
    <3>2. CASE <<k, l>> = <<j, i>>
      BY <1>6, <3>2
    <3>3. CASE <<k, l>> # <<i, j>> /\ <<k, l>> # <<j, i>>
      BY <1>13, <2>1, <2>2, <3>3 DEF Legal, Residual
    <3> QED BY <3>1, <3>2, <3>3
  <2> QED BY <1>2, <2>1, <2>2 DEF Legal, Residual
<1>18. WaitingListed'
  BY <1>2, <1>3, <1>14 DEF CutInv, WaitingListed, Waits
<1>19. PushesApart'
  <2> SUFFICES ASSUME NEW k \in Cut!Nodes, seen'[k] # <<>> PROVE PushApart(k)'
    BY DEF PushesApart, PushApart
  <2>1. k # i /\ seen'[k] = seen[k] /\ slot'[k] = slot[k]
    BY <1>14, <1>15
  <2>2. /\ k \in list /\ slot[k] \in 1 .. Cut!Slots(k)
        /\ seen[k] = <<r[Cut!At(k)], r[Cut!Back(Cut!At(k))]>> /\ Cut!Admissible(Cut!At(k))
    BY <2>1 DEF CutInv, PushesApart, PushApart
  <2>3. PICK l \in Cut!Nodes : /\ l = Neighbours[k][slot[k]]
                               /\ <<k, l>> \in Cut!Edges /\ <<l, k>> \in Cut!Edges
    BY <2>2, CutGraph
  <2>4. Cut!At(k) = <<k, l>> /\ Cut!Back(Cut!At(k)) = <<l, k>> /\ h[k] = h[l] + 1
    BY <2>2, <2>3 DEF Cut!At, Cut!Back, Cut!Admissible
  <2>5. ~(k = j /\ l = i)
    BY <1>6, <2>4
  <2>6. r'[<<k, l>>] = r[<<k, l>>] /\ r'[<<l, k>>] = r[<<l, k>>]
    BY <1>13, <2>1, <2>3, <2>5
  <2>7. Cut!At(k)' = <<k, l>> /\ Cut!Back(Cut!At(k))' = <<l, k>>
    BY <2>1, <2>3 DEF Cut!At, Cut!Back
  <2>8. Cut!Admissible(Cut!At(k))'
    BY <1>2, <2>4, <2>7 DEF Cut!Admissible
  <2> QED BY <1>2, <1>3, <2>1, <2>2, <2>4, <2>6, <2>7, <2>8 DEF PushApart
<1>20. PushedQueued'
  <2> SUFFICES ASSUME NEW k \in Cut!Nodes, NEW l \in Cut!Nodes, <<k, l>> \in Cut!Edges, inc'[<<k, l>>] > 0
               PROVE  l \in queued' /\ SlotPast(k, l)'
    BY <1>2, <1>3 DEF PushedQueued, PushQueued
  <2>1. CASE <<k, l>> = <<i, j>>
    <3>1. l \in queued'
      BY <1>2, <1>5, <2>1
    <3>2. slot[i] < slot'[i] /\ Neighbours[i][slot[i]] = j
      BY <1>4, <1>15
    <3> QED BY <1>3, <2>1, <3>1, <3>2 DEF SlotPast
  <2>2. CASE <<k, l>> # <<i, j>>
    <3>1. inc'[<<k, l>>] = inc[<<k, l>>]
      BY <1>1, <1>9, <2>2 DEF Amounts, Puts
    <3>2. l \in queued /\ SlotPast(k, l)
      BY <1>3, <3>1 DEF CutInv, PushedQueued, PushQueued
    <3>3. slot[k] <= slot'[k] /\ slot[k] \in Nat /\ slot'[k] \in Nat
      <4>1. slot[k] \in Nat
        BY <1>1
      <4> QED BY <1>14, <1>15, <4>1
    <3>4. SlotPast(k, l)'
      BY <3>2, <3>3 DEF SlotPast
    <3> QED BY <1>2, <3>2, <3>4
  <2> QED BY <2>1, <2>2
<1>21. FlowCrossesAll'
  <2>1. \A S \in SUBSET Cut!Nodes : RemainsOf(r', rt, e', inc', S) = RemainsOf(r, rt, e, inc, S) + 0
    BY <1>1, <1>12, RestNatural
  <2>2. term \in [Cut!Nodes -> Nat \X Nat] /\ cap \in [Cut!Edges -> Nat] /\ 0 \in Int
        /\ Even(term, cap, r, rt, e, inc)
    BY <1>1 DEF CutTyped, CutInv, FlowCrossesAll
  <2>3. Even(term, cap, r', rt, e', inc')
    BY <1>1, <2>1, <2>2, EvenKept
  <2> QED BY <1>2, <2>3 DEF FlowCrossesAll
<1> QED BY <1>2, <1>3, <1>16, <1>17, <1>18, <1>19, <1>20, <1>21 DEF CutInv

LEMMA CutNextInv == ASSUME CutInv, [Cut!Next]_cut_vars PROVE CutInv'
<1>1. CASE Cut!Next
  <2>1. CASE Cut!Top
    BY <2>1, TopKeeps
  <2>2. CASE Cut!PushOver
    BY <2>2, PushOverKeeps
  <2>3. CASE Cut!Relabel
    BY <2>3, RelabelKeeps
  <2>4. CASE Cut!LastRelabel
    BY <2>4, LastKeeps
  <2>5. ASSUME NEW i \in Cut!Nodes, Cut!PushToSink(i) PROVE CutInv'
    BY <2>5, SinkKeeps
  <2>6. ASSUME NEW i \in Cut!Nodes, Cut!ReadSlot(i) PROVE CutInv'
    BY <2>6, ReadKeeps
  <2>7. ASSUME NEW i \in Cut!Nodes, Cut!WriteSlot(i) PROVE CutInv'
    BY <2>7, WriteKeeps
  <2> QED BY <1>1, <2>1, <2>2, <2>3, <2>4, <2>5, <2>6, <2>7 DEF Cut!Next
<1>2. CASE UNCHANGED cut_vars
  <2>1. /\ term' = term /\ cap' = cap /\ r' = r /\ e' = e /\ rt' = rt /\ h' = h /\ inc' = inc
        /\ list' = list /\ queued' = queued /\ slot' = slot /\ seen' = seen /\ it' = it /\ host_pc' = host_pc
    BY <1>2 DEF cut_vars
  <2>2. CutTyped'
    BY <2>1 DEF CutInv, CutTyped
  <2>3. Legal(h)'
    BY <2>1 DEF CutInv, Legal, Residual
  <2>4. WaitingListed'
    BY <2>1 DEF CutInv, WaitingListed, Waits
  <2>5. PushesApart'
    BY <2>1 DEF CutInv, PushesApart, PushApart, Cut!At, Cut!Back, Cut!Admissible
  <2>6. PushedQueued'
    BY <2>1 DEF CutInv, PushedQueued, PushQueued, SlotPast
  <2>7. FlowCrossesAll'
    BY <2>1 DEF CutInv, FlowCrossesAll
  <2>8. (host_pc = "done" => h = Cut!global_relabel)'
    BY <2>1 DEF CutInv, Cut!global_relabel
  <2> QED BY <2>2, <2>3, <2>4, <2>5, <2>6, <2>7, <2>8 DEF CutInv
<1> QED BY <1>1, <1>2

-----------------------------------------------------------------------------
(* Behaviours of ReductionsSpec. *)

CutPart == kernel = "cut" => CutInv

\* No step lowers a height, a search from the sink in the middle of the work included.
NoHeightFalls == \A i \in Cut!Nodes : h'[i] >= h[i]
HeightsNeverFall == [][kernel = "cut" => NoHeightFalls]_reductions_vars

\* Valid heights are below what a search finds, and the heights at hand are valid.
LEMMA HeightsKept ==
  ASSUME CutInv, [Cut!Next]_cut_vars PROVE NoHeightFalls
<1> SUFFICES ASSUME NEW i \in Cut!Nodes PROVE h'[i] >= h[i]
  BY DEF NoHeightFalls
<1>1. CutTyped /\ Legal(h)
  BY DEF CutInv
<1>2. h \in [Cut!Nodes -> 0 .. Cut!Big] /\ h[i] \in Int
  BY <1>1 DEF CutTyped
<1>3. h' = Cut!global_relabel => h'[i] >= h[i]
  <2>1. h[i] <= Cut!global_relabel[i] /\ Cut!global_relabel[i] \in Int
    BY <1>1, <1>2, SearchedHighest, SearchedHeights
  <2> QED BY <1>2, <2>1
<1>4. h' = h => h'[i] >= h[i]
  BY <1>2
<1>5. CASE Cut!Top \/ Cut!LastRelabel
  BY <1>3, <1>4, <1>5 DEF Cut!Top, Cut!LastRelabel
<1>6. CASE Cut!Relabel
  <2>1. h'[i] = (IF i \in queued THEN Cut!NewHeight(i) ELSE h[i])
    BY <1>6 DEF Cut!Relabel
  <2>2. Cut!NewHeight(i) \in Int /\ h[i] <= Cut!NewHeight(i)
    BY <1>1, NewHeights
  <2> QED BY <1>2, <2>1, <2>2
<1>7. CASE Cut!PushOver \/ UNCHANGED cut_vars
  BY <1>4, <1>7 DEF Cut!PushOver, cut_vars
<1>8. CASE \E k \in Cut!Nodes : Cut!PushToSink(k) \/ Cut!ReadSlot(k) \/ Cut!WriteSlot(k)
  BY <1>4, <1>8 DEF Cut!PushToSink, Cut!ReadSlot, Cut!WriteSlot
<1> QED BY <1>5, <1>6, <1>7, <1>8 DEF Cut!Next, Cut!vars, cut_vars

LEMMA CutPartInit == ReductionsInit => CutPart
<1> SUFFICES ASSUME ReductionsInit, kernel = "cut" PROVE CutInv
  BY DEF CutPart
<1>1. Cut!Init
  BY DEF ReductionsInit
<1> QED BY <1>1, CutInitInv

LEMMA CutPartNext == ASSUME CutPart, [ReductionsNext]_reductions_vars PROVE CutPart'
<1> SUFFICES ASSUME kernel' = "cut" PROVE CutInv'
  BY DEF CutPart
<1>1. kernel = "cut"
  BY DEF ReductionsNext, reductions_vars
<1>2. [Cut!Next]_cut_vars
  BY <1>1 DEF ReductionsNext, reductions_vars
<1>3. CutInv
  BY <1>1 DEF CutPart
<1> QED BY <1>2, <1>3, CutNextInv

\* Whatever the graph, its capacities and how the threads interleave, the cut that is
\* returned when the loop stops is a minimum, with "the largest source side among the
\* minimum cuts" (comfy_kitchen/__init__.py:1331, min_cut.cu:26-141).
THEOREM CutsAreMinimum == ReductionsSpec => []CutIsMinimum
<1>1. ReductionsInit => CutPart
  BY CutPartInit
<1>2. CutPart /\ [ReductionsNext]_reductions_vars => CutPart'
  BY CutPartNext
<1>3. CutPart => CutIsMinimum
  BY CutDone DEF CutPart, CutIsMinimum
<1> QED BY <1>1, <1>2, <1>3, PTL DEF ReductionsSpec

\* Whatever the graph and however the threads interleave, no height ever falls: a search
\* from the sink finds heights at least those the pushes have reached
\* (min_cut.cu:58-79, 136-146).
THEOREM HeightsOnlyRise == ReductionsSpec => HeightsNeverFall
<1>1. ReductionsInit => CutPart
  BY CutPartInit
<1>2. CutPart /\ [ReductionsNext]_reductions_vars => CutPart'
  BY CutPartNext
<1>3. CutPart /\ [ReductionsNext]_reductions_vars => [kernel = "cut" => NoHeightFalls]_reductions_vars
  <2> SUFFICES ASSUME CutInv, [ReductionsNext]_reductions_vars, kernel = "cut" PROVE NoHeightFalls
    BY DEF CutPart
  <2>1. [Cut!Next]_cut_vars
    BY DEF ReductionsNext, reductions_vars
  <2> QED BY <2>1, HeightsKept
<1> QED BY <1>1, <1>2, <1>3, PTL DEF ReductionsSpec, HeightsNeverFall

-----------------------------------------------------------------------------
(* The types of all four. *)

\* The launch under way is one of those there are, and what a sum holds was added in one of
\* them.
LaunchTyped == launch \in 1 .. MaxLaunches
LEMMA LaunchStays ==
  ASSUME MaxLaunches \in Nat \ {0}
  PROVE  /\ ReductionsInit => LaunchTyped
         /\ LaunchTyped /\ [ReductionsNext]_reductions_vars => LaunchTyped'
<1>1. ReductionsInit => LaunchTyped
  BY DEF ReductionsInit, Init, LaunchTyped
<1>2. ASSUME LaunchTyped, [ReductionsNext]_reductions_vars PROVE LaunchTyped'
  <2>1. [Next]_vars
    BY <1>2 DEF ReductionsNext, reductions_vars
  <2>2. CASE Launch
    BY <1>2, <2>2 DEF Launch, LaunchTyped
  <2>3. CASE launch' = launch
    BY <1>2, <2>3 DEF LaunchTyped
  <2> QED BY <2>1, <2>2, <2>3 DEF vars, Next, Step, Add, Fence, Arrive, Finish, Reach
<1> QED BY <1>1, <1>2

LEMMA SplitTypes ==
  ASSUME IsFiniteSet(Warps), Warps # {}, SplitInv, LaunchTyped
  PROVE  TypeOK
<1>1. SplitTyped /\ launch \in 1 .. MaxLaunches /\ launch \in Nat
  BY DEF SplitInv, LaunchTyped, SplitTyped
<1>2. Cardinality(Warps) \in Nat
  BY FS_CardinalityType
<1>3. counter \in 0 .. Cardinality(Warps)
  <2>1. CASE AllDone
    BY <1>2, <2>1 DEF SplitInv, SumsWholeAndScratchClean
  <2>2. CASE ~AllDone
    <3>1. Cardinality(Arrived) <= Cardinality(Warps) /\ Cardinality(Arrived) \in Nat
      <4>1. Arrived \subseteq Warps
        BY DEF Arrived
      <4> QED BY <4>1, FS_Subset, FS_CardinalityType
    <3> QED BY <1>2, <2>2, <3>1 DEF SplitInv, CounterCountsArrived
  <2> QED BY <2>1, <2>2
<1>4. ASSUME NEW c \in Cells PROVE workspace[c] \in Seq((1 .. launch) \X Warps)
  <2>1. workspace[c] \in Seq(Nat \X Warps)
    BY <1>1 DEF SplitTyped
  <2>2. CASE AllDone
    <3>1. workspace[c] = << >>
      BY <2>2 DEF SplitInv, SumsWholeAndScratchClean
    <3> QED BY <3>1
  <2>3. CASE ~AllDone
    <3>1. SumOf(workspace[c], Landed(c), launch)
      BY <2>3 DEF SplitInv, SumsOfLanded
    <3>2. ASSUME NEW i \in DOMAIN workspace[c] PROVE workspace[c][i] \in (1 .. launch) \X Warps
      <4>1. workspace[c][i] \in {<<launch, w>> : w \in Landed(c)}
        BY <3>1 DEF SumOf
      <4>2. launch \in 1 .. launch
        BY <1>1
      <4> QED BY <4>1, <4>2 DEF Landed
    <3> QED BY <2>1, <3>2
  <2> QED BY <2>2, <2>3
<1>5. workspace \in [Cells -> Seq((1 .. launch) \X Warps)]
  BY <1>1, <1>4 DEF SplitTyped
<1> QED BY <1>1, <1>3, <1>5 DEF TypeOK, SplitTyped, SplitPlaces

LEMMA CutTypes ==
  ASSUME CutInv
  PROVE  Cut!TypeOK
BY DEF CutInv, CutTyped, Stops, Cut!TypeOK

LEMMA RopeTypes ==
  ASSUME RopeInv
  PROVE  Rope!TypeOK
<1>1. CASE outcome \in {"called", "raised"}
  <2>1. DOMAIN memory = {} /\ DOMAIN lane = {} /\ DOMAIN read = {}
    BY <1>1 DEF RopeInv
  <2> QED BY <1>1, <2>1 DEF RopeInv, Rope!TypeOK
<1>2. CASE outcome \in {"running", "done"}
  <2>1. \A cell \in DOMAIN memory : memory[cell].turns \in Nat
    <3>1. \A cell \in DOMAIN memory : \E name, i : memory[cell] = Value(name, i)
      BY <1>2 DEF RopeInv, Written
    <3> QED BY <3>1 DEF Value
  <2>2. ASSUME NEW t \in DOMAIN lane PROVE lane[t] \in 0 .. Len(Rope!ThreadOps(call, Head(launches)))
    <3>1. outcome = "running"
      BY <1>2 DEF RopeInv
    <3>2. Underway(call, launches, lane, read)
      BY <3>1 DEF RopeInv
    <3>3. Len(Ops(call, launches)) \in Nat
      BY <3>2 DEF Underway, Gate, SummedFirst, InTurn
    <3>4. lane[t] \in Nat /\ lane[t] <= Len(Ops(call, launches))
      BY <3>2 DEF Underway
    <3> QED BY <3>3, <3>4 DEF Ops
  <2>3. DOMAIN read = DOMAIN lane
    BY <1>2 DEF RopeInv, Underway
  <2>4. outcome \in {"called", "running", "raised", "done"} /\ (outcome = "called" => call \in RopeCalls)
    BY DEF RopeInv
  <2> QED BY <2>1, <2>2, <2>3, <2>4 DEF Rope!TypeOK
<1> QED BY <1>1, <1>2 DEF RopeInv

\* Whichever kernel runs, for any of their inputs, its variables have their types: sums hold
\* additions of launches there have been, the counter of arrivals never exceeds the warps
\* (w4a8_gemm.cu:245-262), children are nodes below the root (mesh_bvh.cu:48-84), residuals,
\* excess and heights are in range (min_cut.cu:30-116), and a thread is at one of its
\* operations (_rope_utils.py:91-121).
THEOREM ReductionsTypeCorrect ==
  ASSUME IsFiniteSet(Warps), Warps # {}, MaxLaunches \in Nat \ {0}
  PROVE  ReductionsSpec => []ReductionsTypeOK
<1> DEFINE Inv == SplitInv /\ LaunchTyped /\ MeshPart /\ CutPart /\ RopePart
<1>1. ReductionsInit => Inv
  BY SplitsInit, LaunchStays, MeshPartInit, CutPartInit, RopePartInit
<1>2. Inv /\ [ReductionsNext]_reductions_vars => Inv'
  BY SplitsNext, LaunchStays, MeshPartNext, CutPartNext, RopePartNext
<1>3. Inv => ReductionsTypeOK
  <2> SUFFICES ASSUME Inv PROVE ReductionsTypeOK
    OBVIOUS
  <2>1. TypeOK
    BY SplitTypes
  <2>2. ASSUME kernel = "mesh" PROVE Mesh!TypeOK
    <3>1. MeshInv /\ n \in 1 .. MaxLeaves
      BY <2>2 DEF MeshPart
    <3>2. MaxLeaves \in Nat /\ n <= MaxLeaves
      BY <3>1, MeshAssumption
    <3> QED BY <3>1, <3>2, MeshTypes
  <2>3. kernel = "cut" => Cut!TypeOK
    BY CutTypes DEF CutPart
  <2>4. kernel = "rope" => Rope!TypeOK
    BY RopeTypes DEF RopePart
  <2> QED BY <2>1, <2>2, <2>3, <2>4 DEF ReductionsTypeOK
<1> QED BY <1>1, <1>2, <1>3, PTL DEF ReductionsSpec
=============================================================================
