------------------------------ MODULE VerifyLoop ------------------------------
(***************************************************************************)
(* What a speculative decode loop over one GatedDeltaNet layer is promised, *)
(* with no buffers, parities or deferred commits: a sequence of committed   *)
(* tokens, a step of proposed rows that form a forest over it, one output   *)
(* per row that depends on the committed tokens and the row's own ancestors *)
(* only, and the acceptance of one root path, which is appended.            *)
(*                                                                          *)
(* A token is a pair <<step, row>>, so two rows are never confused.  The    *)
(* recurrence is kept free: the output of a row is the sequence of tokens   *)
(* it was folded from.                                                      *)
(***************************************************************************)
EXTENDS Integers, Sequences

CONSTANTS SlotMax   \* rows of a step never exceed it

VARIABLES committed,  \* tokens accepted so far
          tree,       \* [r -> parent of r], -1 for a row on the committed prefix
          outputs,    \* [r -> tokens the output of row r was computed from]
          step        \* number of the current step

avars == <<committed, tree, outputs, step>>

\* The rows from a root of the forest down to r, oldest first.
PathTo(parent, r) ==
  LET up[n \in 0 .. SlotMax] == IF n = 0 THEN r
                                ELSE IF up[n - 1] = -1 THEN -1
                                ELSE parent[up[n - 1]]
      depth == CHOOSE n \in 0 .. SlotMax : up[n] = -1 /\ \A m \in 0 .. n - 1 : up[m] # -1
  IN  [i \in 1 .. depth |-> up[depth - i]]

Tokens(path, s) == [i \in DOMAIN path |-> <<s, path[i]>>]

Forests == UNION {{p \in [0 .. n - 1 -> -1 .. n - 2] : \A r \in DOMAIN p : p[r] < r} :
                    n \in 1 .. SlotMax}

AInit == /\ committed = <<>>
         /\ tree = <<>>
         /\ outputs = <<>>
         /\ step = 0

\* The rows of the next step are proposed; nothing is known of their outputs.
AnyPropose == /\ tree' \in Forests
              /\ step' = step + 1
              /\ outputs' = <<>>
              /\ UNCHANGED committed

\* Every row is scored against the committed tokens and its own ancestors.
Score == /\ tree # <<>>
         /\ outputs' = [r \in DOMAIN tree |-> committed \o Tokens(PathTo(tree, r), step)]
         /\ UNCHANGED <<committed, tree, step>>

\* The verifier keeps one root path of the scored rows, possibly none of them.
Accept == /\ outputs # <<>>
          /\ \E r \in DOMAIN tree \cup {-1} :
                committed' = committed \o Tokens(PathTo(tree, r), step)
          /\ tree' = <<>>
          /\ outputs' = <<>>
          /\ UNCHANGED step

ANext == AnyPropose \/ Score \/ Accept

ASpec == AInit /\ [][ANext]_avars
=============================================================================
