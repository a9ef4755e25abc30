---------------------------- MODULE SplitReduction ----------------------------
(***************************************************************************)
(* The in-kernel end of the split-K W4A8 GEMM (w4a8_gemm.cu:255-262,        *)
(* 393-455).  The warps of a tile add their sums into a workspace, then      *)
(* count themselves in; the one that finds every other warp counted reads    *)
(* the sums back, writes the output and leaves workspace and counter at      *)
(* zero for the next launch.                                                 *)
(*                                                                          *)
(* Data abstraction.  A sum is the sequence of the contributions added to    *)
(* it, in the order they reached the L2 cache.  An atomicAdd whose result    *)
(* is unused returns before its addition is performed: it is in `flight`     *)
(* until then, and a fence waits for it.  Tiles share nothing, so one is     *)
(* modelled.                                                                 *)
(***************************************************************************)
EXTENDS Integers, Sequences, FiniteSets

CONSTANTS Warps,      \* the K splits of the tile
          Cells,      \* output elements of the tile
          MaxLaunches \* bound on the launches over one workspace

VARIABLES
  workspace, \* [cell -> contributions]
  counter,   \* counters[output_tile]
  flight,    \* [warp -> cells its additions have not reached]
  pc,        \* [warp -> what it does next]
  output,    \* [cell -> contributions it was computed from]
  launch     \* number of the launch, which names its contributions

vars == <<workspace, counter, flight, pc, output, launch>>

Of(w) == <<launch, w>>
Goto(w, l) == pc' = [pc EXCEPT ![w] = l]

Add(w) ==
  /\ pc[w] = "add"
  /\ flight' = [flight EXCEPT ![w] = Cells]
  /\ Goto(w, "fence")
  /\ UNCHANGED <<workspace, counter, output, launch>>

Reach(w, c) ==
  /\ c \in flight[w]
  /\ workspace' = [workspace EXCEPT ![c] = Append(@, Of(w))]
  /\ flight' = [flight EXCEPT ![w] = @ \ {c}]
  /\ UNCHANGED <<counter, pc, output, launch>>

\* As Fence, without waiting.
FenceAtOnce(w) ==
  /\ pc[w] = "fence"
  /\ Goto(w, "arrive")
  /\ UNCHANGED <<workspace, counter, flight, output, launch>>

Fence(w) ==
  /\ pc[w] = "fence"
  /\ flight[w] = {}
  /\ Goto(w, "arrive")
  /\ UNCHANGED <<workspace, counter, flight, output, launch>>

\* The prior count comes back with the atomicAdd.
Arrive(w) ==
  /\ pc[w] = "arrive"
  /\ counter' = counter + 1
  /\ Goto(w, IF counter = Cardinality(Warps) - 1 THEN "finish" ELSE "done")
  /\ UNCHANGED <<workspace, flight, output, launch>>

\* Lines 436-454: the warp covers the tile, re-zeroes it and its counter.
Finish(w) ==
  /\ pc[w] = "finish"
  /\ output' = workspace
  /\ workspace' = [c \in Cells |-> <<>>]
  /\ counter' = 0
  /\ Goto(w, "done")
  /\ UNCHANGED <<flight, launch>>

AllDone == \A w \in Warps : pc[w] = "done"

\* The next launch on the stream, over the same workspace.
Launch ==
  /\ AllDone
  /\ launch < MaxLaunches
  /\ launch' = launch + 1
  /\ pc' = [w \in Warps |-> "add"]
  /\ UNCHANGED <<workspace, counter, flight, output>>

Init ==
  /\ workspace = [c \in Cells |-> <<>>]
  /\ counter = 0
  /\ flight = [w \in Warps |-> {}]
  /\ pc = [w \in Warps |-> "add"]
  /\ output = [c \in Cells |-> <<>>]
  /\ launch = 1

Step(w) ==
  Add(w) \/ Fence(w) \/ Arrive(w) \/ Finish(w) \/ \E c \in Cells : Reach(w, c)

Next == Launch \/ \E w \in Warps : Step(w)

Spec == Init /\ [][Next]_vars

-----------------------------------------------------------------------------
TypeOK ==
  /\ workspace \in [Cells -> Seq((1 .. launch) \X Warps)]
  /\ counter \in 0 .. Cardinality(Warps)
  /\ flight \in [Warps -> SUBSET Cells]
  /\ pc \in [Warps -> {"add", "fence", "arrive", "finish", "done"}]
  /\ launch \in 1 .. MaxLaunches

\* Once a launch is over, every output element was computed from the sum of
\* every split of this launch, each added once, and the workspace and the
\* counter are zero again, as the next launch needs them
\* (w4a8_gemm.cu:255-262).
SumsWholeAndScratchClean ==
  AllDone =>
    /\ \A c \in Cells :
         /\ Len(output[c]) = Cardinality(Warps)
         /\ {output[c][i] : i \in DOMAIN output[c]} = {Of(w) : w \in Warps}
         /\ workspace[c] = <<>>
    /\ counter = 0
=============================================================================
