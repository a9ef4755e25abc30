------------------------ MODULE DeferredDecode_proofs ------------------------
(***************************************************************************)
(* Proofs about DeferredDecode for every number of slots, window, row count *)
(* and length of the run.                                                   *)
(***************************************************************************)
EXTENDS DeferredDecode, Iteration, FiniteSetTheorems

USE SlotMaxAssumption, WindowAssumption, StepSizesAssumption, PathsAssumption,
    MaxStepsAssumption

-----------------------------------------------------------------------------
(* The operators of the conv call. *)

\* The rows met on the way from row r through parent[], -1 once it left them.
Walk(parent, r, n) ==
  LET up[d \in 0 .. n] == IF d = 0 THEN r
                          ELSE IF up[d - 1] = -1 THEN -1
                          ELSE parent[up[d - 1]]
  IN  up

\* Parents of m rows: each is before its row or is -1.
Parents(m) == [0 .. m - 1 -> -1 .. m - 2]

\* What a walk is, without the recursion.
IsWalk(up, parent, r, n, m) ==
  /\ up \in [0 .. n -> -1 .. m - 1]
  /\ up[0] = r
  /\ \A d \in 1 .. n : up[d] = IF up[d - 1] = -1 THEN -1 ELSE parent[up[d - 1]]

\* Such a walk exists.
LEMMA WalkType ==
  ASSUME NEW n \in Nat, NEW m \in Nat, NEW parent \in Parents(m), NEW r \in -1 .. m - 1
  PROVE  IsWalk(Walk(parent, r, n), parent, r, n, m)
<1> DEFINE S == -1 .. m - 1
           Up(p) == IF p = -1 THEN -1 ELSE parent[p]
           G == [d \in 1 .. n |-> [p \in S |-> Up(p)]]
           Eq(f) == f = [d \in 0 .. n |-> IF d = 0 THEN r ELSE Up(f[d - 1])]
           a == CHOOSE f : Eq(f)
<1>1. n \in Nat /\ m \in Nat
  OBVIOUS
<1>2. r \in S /\ \A p \in S : Up(p) \in S
  BY DEF Parents
<1>3. G \in StepFcns(n, S)
  BY <1>2 DEF StepFcns
<1>4. PICK f : IsIteration(f, n, S, r, G)
  <2> HIDE DEF S, G
  <2> QED BY <1>1, <1>2, <1>3, IterationExists
<1>5. f \in [0 .. n -> S] /\ f[0] = r /\ \A d \in 1 .. n : f[d] = G[d][f[d - 1]]
  BY <1>4 DEF IsIteration
<1>6. \A d \in 1 .. n : f[d] = Up(f[d - 1])
  <2> TAKE d \in 1 .. n
  <2>1. d - 1 \in 0 .. n
    BY <1>1
  <2>2. f[d - 1] \in S
    BY <1>5, <2>1
  <2> HIDE DEF S
  <2>3. G[d][f[d - 1]] = Up(f[d - 1])
    BY <2>2
  <2> HIDE DEF G
  <2> QED BY <1>5, <2>3
<1>7. f = [d \in 0 .. n |-> f[d]]
  BY <1>5
<1>8. Eq(f)
  <2> HIDE DEF Up, G, S
  <2>1. \A d \in 0 .. n : f[d] = IF d = 0 THEN r ELSE Up(f[d - 1])
    BY <1>1, <1>5, <1>6
  <2> QED BY <1>7, <2>1
<1>9. Eq(a)
  <2> HIDE DEF Eq
  <2> QED BY <1>8
<1>10. Walk(parent, r, n) = a
  BY DEF Walk
<1> HIDE DEF a
<1>11. DOMAIN a = 0 .. n /\ a[0] = r /\ \A d \in 1 .. n : a[d] = Up(a[d - 1])
  BY <1>1, <1>9
<1>12. a = [d \in 0 .. n |-> a[d]]
  BY <1>9
<1>13. \A d \in 0 .. n : a[d] \in S
  <2> DEFINE T == {d \in 0 .. n : a[d] \in S}
  <2>1. 0 \in T
    BY <1>1, <1>2, <1>11
  <2>2. ASSUME NEW d \in 0 .. n - 1, d \in T
        PROVE  d + 1 \in T
    <3>1. d + 1 \in 1 .. n /\ d + 1 \in 0 .. n /\ (d + 1) - 1 = d
      BY <1>1
    <3>2. a[d + 1] = Up(a[d])
      BY <3>1, <1>11
    <3> QED BY <2>2, <3>1, <3>2, <1>2
  <2>3. 0 .. n \subseteq T
    <3> HIDE DEF T
    <3> QED BY <1>1, <2>1, <2>2, SetInduction
  <2> QED BY <2>3
<1>14. a \in [0 .. n -> S]
  BY <1>12, <1>13
<1> QED BY <1>10, <1>11, <1>14 DEF IsWalk

\* Following parent[] from a row ends in a row of the step or in -1.
LEMMA AncestorType ==
  ASSUME TypeOK, NEW r \in Rows
  PROVE  /\ Ancestor(r) = Walk(ctl.parent, r, Window)
         /\ Ancestor(r) \in [0 .. Window -> -1 .. seq - 1]
         /\ Ancestor(r)[0] = r
<1>1. seq \in Nat /\ ctl.parent \in Parents(seq) /\ r \in -1 .. seq - 1
  BY DEF TypeOK, CtlType, Rows, Parents
<1>2. Ancestor(r) = Walk(ctl.parent, r, Window)
  BY DEF Ancestor, Walk
<1>3. IsWalk(Ancestor(r), ctl.parent, r, Window, seq)
  BY <1>1, <1>2, WalkType
<1> QED BY <1>2, <1>3 DEF IsWalk

\* The taps of a row are tokens of the step or of the committed window.
LEMMA TapsType ==
  ASSUME TypeOK, NEW r \in Rows, NEW win \in [1 .. Window -> Tokens]
  PROVE  Taps(r, win) \in ConvOutputs
<1> DEFINE up == Ancestor(r)
           Left == {e \in 0 .. Window : up[e] = -1}
           First(e) == up[e] = -1 /\ \A f \in 0 .. e - 1 : up[f] # -1
           first == CHOOSE e \in 0 .. Window : First(e)
<1>1. up \in [0 .. Window -> -1 .. seq - 1] /\ up[0] = r /\ r # -1
  BY AncestorType DEF Rows
<1>2. step \in 0 .. MaxSteps /\ seq \in 0 .. SlotMax
  BY DEF TypeOK
<1> HIDE DEF up
<1>3. ASSUME NEW d \in 0 .. Window
      PROVE  (IF up[d] # -1 THEN <<step, up[d]>> ELSE win[Window - (d - first)]) \in Tokens
  <2>1. CASE up[d] # -1
    <3>1. up[d] \in -Window .. SlotMax - 1
      BY <2>1, <1>1, <1>2
    <3> QED BY <2>1, <3>1, <1>2 DEF Tokens
  <2>2. CASE up[d] = -1
    <3>1. Left # {} /\ Left \in SUBSET Nat
      BY <2>2
    <3>2. PICK e \in Left : \A f \in Left : e <= f
      BY <3>1, LeastNatural
    <3>3. e \in 0 .. Window /\ First(e)
      BY <3>2
    <3>4. first \in 0 .. Window /\ First(first)
      <4> HIDE DEF First
      <4> QED BY <3>3
    <3> HIDE DEF first
    <3>5. first # 0 /\ first <= d
      BY <3>4, <1>1, <2>2
    <3>6. Window - (d - first) \in 1 .. Window
      BY <3>4, <3>5
    <3> QED BY <2>2, <3>6
  <2> QED BY <2>1, <2>2
<1>4. Taps(r, win) = [d \in 0 .. Window |-> IF up[d] # -1 THEN <<step, up[d]>>
                                            ELSE win[Window - (d - first)]]
  BY DEF Taps, up
<1> HIDE DEF first
<1> QED BY <1>3, <1>4 DEF ConvOutputs
-----------------------------------------------------------------------------
(* The operators of the decode call. *)

\* Replaying accepted rows that are in the side buffers yields a state again.
LEMMA CommittedStateType ==
  ASSUME TypeOK, PendingWritten, pc # "verify", step > 0 \/ ctl.pending = 0
  PROVE  CommittedState \in Seq(Entries)
<1> DEFINE new == [i \in 1 .. ctl.pending |-> Replayed(ctl.slot[i - 1])]
<1>1. ctl.pending \in Nat /\ ctl.pending <= SlotMax /\ ctl.slot \in [Slots -> Slots]
  BY DEF TypeOK, CtlType
<1>2. ASSUME NEW i \in 1 .. ctl.pending
      PROVE  Replayed(ctl.slot[i - 1]) \in Entries
  <2>1. i - 1 \in 0 .. ctl.pending - 1 /\ i - 1 \in Slots /\ ctl.slot[i - 1] \in Slots
    <3>1. i - 1 \in 0 .. ctl.pending - 1 /\ i - 1 \in 0 .. SlotMax - 1
      BY <1>1
    <3> QED BY <1>1, <3>1 DEF Slots
  <2> DEFINE s == ctl.slot[i - 1]
             tok == <<IF pc = "propose" THEN step ELSE step - 1, s>>
  <2>2. Holds(1 - par, s, tok) /\ HoldsGates(1 - par, s, tok)
    BY <2>1 DEF PendingWritten
  <2>3. tok \in Tokens
    <3>1. step \in 0 .. MaxSteps /\ step - 1 \in 0 .. MaxSteps
      BY <1>1, <2>1 DEF TypeOK
    <3>2. s \in -Window .. SlotMax - 1
      BY <2>1 DEF Slots
    <3> QED BY <3>1, <3>2 DEF Tokens
  <2>4. gates_buf[1 - par][s] \in Tokens /\ qkv_buf[1 - par][s] \in ConvOutputs
        /\ sumsq_buf[1 - par][s] \in ConvOutputs
    BY <2>2, <2>3 DEF Holds, HoldsGates
  <2> QED BY <2>4 DEF Replayed, Entry, Entries
<1>3. new \in Seq(Entries)
  BY <1>1, <1>2
<1>4. state \in Seq(Entries)
  BY DEF TypeOK
<1> QED BY <1>3, <1>4 DEF CommittedState

\* The running state is a state before every program entry and after the last,
\* and grows by the rows the entries commit.
LEMMA RunningType ==
  ASSUME TypeOK, CommittedState \in Seq(Entries),
         \A r \in Rows : Current(r) \in Entries
  PROVE  /\ \A e \in 0 .. seq : Running(e) \in Seq(Entries)
         /\ Running(0) = CommittedState
         /\ \A e \in 1 .. seq :
              Running(e) = IF ctl.prog[e - 1].commit
                           THEN Append(Running(e - 1), Current(ctl.prog[e - 1].row))
                           ELSE Running(e - 1)
<1> DEFINE S == Seq(Entries)
           Run(n, st) == IF ctl.prog[n - 1].commit THEN Append(st, Current(ctl.prog[n - 1].row))
                         ELSE st
           G == [n \in 1 .. seq |-> [st \in S |-> Run(n, st)]]
           Eq(f) == f = [n \in 0 .. seq |-> IF n = 0 THEN CommittedState ELSE Run(n, f[n - 1])]
           run == CHOOSE f : Eq(f)
<1>1. seq \in Nat /\ ctl.prog \in [0 .. seq - 1 -> ProgramEntries(seq)]
  BY DEF TypeOK, CtlType
<1>2. \A n \in 1 .. seq : \A st \in S : Run(n, st) \in S
  <2> TAKE n \in 1 .. seq
  <2> TAKE st \in S
  <2>1. n - 1 \in 0 .. seq - 1
    BY <1>1
  <2>2. ctl.prog[n - 1].row \in Rows
    BY <1>1, <2>1 DEF ProgramEntries, Rows
  <2> HIDE DEF S
  <2>3. Append(st, Current(ctl.prog[n - 1].row)) \in S
    BY <2>2 DEF S
  <2> QED BY <2>3
<1>3. G \in StepFcns(seq, S)
  <2> HIDE DEF Run, S
  <2> QED BY <1>2 DEF StepFcns
<1>4. PICK f : IsIteration(f, seq, S, CommittedState, G)
  <2>1. CommittedState \in S
    OBVIOUS
  <2> HIDE DEF S, G
  <2> QED BY <1>1, <2>1, <1>3, IterationExists
<1>5. f \in [0 .. seq -> S] /\ f[0] = CommittedState
      /\ \A n \in 1 .. seq : f[n] = G[n][f[n - 1]]
  BY <1>4 DEF IsIteration
<1>6. \A n \in 1 .. seq : f[n] = Run(n, f[n - 1])
  <2> TAKE n \in 1 .. seq
  <2>1. n - 1 \in 0 .. seq
    BY <1>1
  <2>2. f[n - 1] \in S
    BY <1>5, <2>1
  <2> HIDE DEF S, Run
  <2>3. G[n][f[n - 1]] = Run(n, f[n - 1])
    BY <2>2
  <2> HIDE DEF G
  <2> QED BY <1>5, <2>3
<1>7. f = [n \in 0 .. seq |-> f[n]]
  BY <1>5
<1>8. Eq(f)
  <2>1. \A n \in 0 .. seq : f[n] = IF n = 0 THEN CommittedState ELSE Run(n, f[n - 1])
    <3> HIDE DEF Run
    <3> QED BY <1>1, <1>5, <1>6
  <2> HIDE DEF Run
  <2> QED BY <1>7, <2>1
<1>9. Eq(run)
  <2> HIDE DEF Eq
  <2> QED BY <1>8
<1>10. \A e : Running(e) = run[e]
  BY DEF Running
<1> HIDE DEF run, Run, S
<1>11. \A n \in 1 .. seq : run[n] = Run(n, run[n - 1])
  BY <1>1, <1>9
<1>12. \A n \in 0 .. seq : run[n] \in S
  <2> DEFINE T == {n \in 0 .. seq : run[n] \in S}
  <2>1. 0 \in T
    BY <1>1, <1>9 DEF S
  <2>2. ASSUME NEW n \in 0 .. seq - 1, n \in T
        PROVE  n + 1 \in T
    <3>1. n + 1 \in 1 .. seq /\ n + 1 \in 0 .. seq /\ (n + 1) - 1 = n
      BY <1>1
    <3>2. run[n + 1] = Run(n + 1, run[n])
      BY <3>1, <1>11
    <3> QED BY <2>2, <3>1, <3>2, <1>2
  <2>3. 0 .. seq \subseteq T
    <3> HIDE DEF T
    <3> QED BY <1>1, <2>1, <2>2, SetInduction
  <2> QED BY <2>3
<1>13. Running(0) = CommittedState
  BY <1>1, <1>9, <1>10
<1>14. \A e \in 1 .. seq : Running(e) = Run(e, Running(e - 1))
  BY <1>10, <1>11
<1> QED BY <1>10, <1>12, <1>13, <1>14 DEF S, Run
-----------------------------------------------------------------------------
(* SlotInv is inductive. *)

LEMMA InitSlotInv == Init => SlotInv
<1> SUFFICES ASSUME Init
             PROVE  SlotInv
  OBVIOUS
<1>1. \A j \in 1 .. Window : <<0, j - Window - 1>> \in Tokens
  BY DEF Tokens
<1>2. conv_state \in [1 .. Window -> Tokens]
  BY <1>1 DEF Init
<1>3a. <<>> \in Seq(Entries)
  OBVIOUS
<1>3. ctl \in CtlType(0)
  BY DEF Init, CtlType, Slots, Parity
<1>3b. Garbage \in Blank /\ \A p \in Parity : \A V : [s \in Slots |-> Garbage] \in [Slots -> V \cup Blank]
  BY DEF Blank
<1>4. TypeOK
  <2> HIDE DEF Blank
  <2>1. /\ proj_buf \in [Parity -> [Slots -> Tokens \cup Blank]]
        /\ qkv_buf \in [Parity -> [Slots -> ConvOutputs \cup Blank]]
        /\ gates_buf \in [Parity -> [Slots -> Tokens \cup Blank]]
        /\ sumsq_buf \in [Parity -> [Slots -> ConvOutputs \cup Blank]]
    BY <1>3b DEF Init
  <2>2. seq \in 0 .. SlotMax /\ ctl \in CtlType(seq) /\ step \in 0 .. MaxSteps
    BY <1>3 DEF Init
  <2>3. out \in [Rows -> Seq(Entries)] \cup {<<>>} /\ state \in Seq(Entries)
    BY <1>3a DEF Init
  <2>4. pc \in {"propose", "conv", "decode", "verify"}
    BY DEF Init
  <2> QED BY <1>2, <2>1, <2>2, <2>3, <2>4 DEF TypeOK
<1> QED BY <1>4 DEF Init, SlotInv, PendingWritten, RowsWritten, ProgramComplete, NoSpeculativeCommit, Rows

\* A stored slab holds the rows of the step.
LEMMA StoredRows ==
  ASSUME seq \in 0 .. SlotMax, NEW V, NEW slab \in [Slots -> V \cup Blank],
         NEW rows, \A r \in Rows : rows[r] \in V, NEW portable \in BOOLEAN
  PROVE  /\ Stored(slab, rows, portable) \in [Slots -> V \cup Blank]
         /\ \A r \in Rows : r \in Slots /\ Stored(slab, rows, portable)[r] = rows[r]
<1>1. \A s \in Slots : s < seq => s \in Rows
  BY DEF Slots, Rows
<1>2. Zero \in Blank
  BY DEF Blank
<1>3. \A r \in Rows : r \in Slots /\ r < seq
  BY DEF Slots, Rows
<1> QED BY <1>1, <1>2, <1>3 DEF Stored

\* The step a committed token belongs to is a number.
LEMMA StateSteps ==
  ASSUME TypeOK, NEW i \in DOMAIN state
  PROVE  state[i] \in Entries /\ state[i].gate[1] \in Int
<1>1. state[i] \in Entries
  BY DEF TypeOK
<1>2. state[i].gate \in Tokens
  BY <1>1 DEF Entries
<1> QED BY <1>1, <1>2 DEF Tokens

LEMMA WindowSteps ==
  ASSUME TypeOK, NEW j \in DOMAIN conv_state
  PROVE  conv_state[j] \in Tokens /\ conv_state[j][1] \in Int
<1>1. conv_state[j] \in Tokens
  BY DEF TypeOK
<1> QED BY <1>1 DEF Tokens

\* A program gives the rows parents before them in the step.
LEMMA ProgramParents ==
  ASSUME NEW n \in 1 .. SlotMax, NEW prog \in Programs(n)
  PROVE  /\ ParentsOf(prog) \in [0 .. n - 1 -> -1 .. n - 2]
         /\ \A r \in 0 .. n - 1 : ParentsOf(prog)[r] < r
<1>1. /\ prog \in [0 .. n - 1 -> ProgramEntries(n)]
      /\ \A r \in 0 .. n - 1 : \E e \in 0 .. n - 1 : prog[e].row = r
      /\ \A e \in 0 .. n - 1 : LastCommit(prog, e) < prog[e].row
  BY DEF Programs
<1>2. ASSUME NEW e \in 0 .. n - 1
      PROVE  LastCommit(prog, e) \in -1 .. n - 1
  <2> DEFINE done == {m \in 0 .. e - 1 : prog[m].commit}
  <2>1. CASE done = {}
    BY <2>1 DEF LastCommit
  <2>2. CASE done # {}
    <3>1. \E m \in done : \A k \in done : k <= m
      <4> DEFINE U == {k \in Nat : \A m \in done : m <= k}
      <4>1. U # {} /\ U \in SUBSET Nat
        <5>1. e \in U
          OBVIOUS
        <5> QED BY <5>1
      <4>2. PICK k \in U : \A y \in U : k <= y
        BY <4>1, LeastNatural
      <4>3. k \in done
        <5>1. SUFFICES ASSUME k \notin done
                       PROVE  FALSE
          OBVIOUS
        <5>2. \A m \in done : m < k
          BY <4>2, <5>1
        <5>3. k > 0
          BY <2>2, <5>2
        <5>4. k - 1 \in U
          BY <5>2, <5>3
        <5> QED BY <4>2, <5>4
      <4> QED BY <4>2, <4>3
    <3> DEFINE m == CHOOSE m \in done : \A k \in done : k <= m
    <3>2. m \in done
      BY <3>1
    <3>3. LastCommit(prog, e) = prog[m].row
      BY <2>2 DEF LastCommit
    <3> HIDE DEF m
    <3>4. m \in 0 .. n - 1
      BY <3>2
    <3>5. prog[m] \in ProgramEntries(n)
      BY <1>1, <3>4
    <3>6. prog[m].row \in 0 .. n - 1
      BY <3>5 DEF ProgramEntries
    <3> QED BY <3>3, <3>6
  <2> QED BY <2>1, <2>2
<1>3. ASSUME NEW r \in 0 .. n - 1
      PROVE  /\ LastCommit(prog, EntryOf(prog, r)) \in -1 .. n - 2
             /\ LastCommit(prog, EntryOf(prog, r)) < r
  <2>1. EntryOf(prog, r) \in 0 .. n - 1 /\ prog[EntryOf(prog, r)].row = r
    BY <1>1 DEF EntryOf
  <2>2. LastCommit(prog, EntryOf(prog, r)) \in -1 .. n - 1
        /\ LastCommit(prog, EntryOf(prog, r)) < r
    BY <1>1, <1>2, <2>1
  <2> QED BY <2>2
<1>4. DOMAIN prog = 0 .. n - 1
  BY <1>1
<1> QED BY <1>3, <1>4 DEF ParentsOf

LEMMA ProposeInv == SlotInv /\ Propose => SlotInv'
<1> SUFFICES ASSUME SlotInv, Propose
             PROVE  SlotInv'
  OBVIOUS
<1>1. PICK n \in StepSizes : \E prog \in Programs(n) :
         seq' = n /\ ctl' = [ctl EXCEPT !.prog = prog, !.parent = ParentsOf(prog)]
  BY DEF Propose
<1>2. PICK prog \in Programs(n) :
         seq' = n /\ ctl' = [ctl EXCEPT !.prog = prog, !.parent = ParentsOf(prog)]
  BY <1>1
<1>3. n \in 1 .. SlotMax
  OBVIOUS
<1>4. /\ prog \in [0 .. n - 1 -> ProgramEntries(n)]
      /\ \A r \in 0 .. n - 1 : \E e \in 0 .. n - 1 : prog[e].row = r
      /\ \A e \in 0 .. n - 1 : LastCommit(prog, e) < prog[e].row
  BY DEF Programs
<1>6. ParentsOf(prog) \in [0 .. n - 1 -> -1 .. n - 2]
  BY <1>3, ProgramParents
<1>7. ctl' \in CtlType(n)
  BY <1>2, <1>4, <1>6 DEF SlotInv, TypeOK, CtlType
<1>8. ctl'.pending = ctl.pending /\ ctl'.parity = ctl.parity /\ ctl'.slot = ctl.slot /\ ctl'.prog = prog
  BY <1>2 DEF SlotInv, TypeOK, CtlType
<1>9. step \in Nat /\ step' = step + 1 /\ step' \in 0 .. MaxSteps /\ pc = "propose" /\ pc' = "conv"
  BY DEF Propose, SlotInv, TypeOK
<1>10. TypeOK'
  BY <1>2, <1>3, <1>7, <1>9 DEF Propose, SlotInv, TypeOK, buffers, Rows
<1>11. PendingWritten'
  BY <1>8, <1>9 DEF Propose, SlotInv, PendingWritten, Holds, HoldsGates, buffers, par
<1>12. RowsWritten' /\ ProgramComplete'
  BY <1>2, <1>4, <1>8, <1>9 DEF RowsWritten, ProgramComplete, Rows
<1>13. NoSpeculativeCommit'
  <2>1. UNCHANGED <<state, conv_state>>
    BY DEF Propose
  <2>2. \A i \in DOMAIN state : state[i].gate[1] \in Int
    BY StateSteps DEF SlotInv
  <2>3. \A j \in DOMAIN conv_state : conv_state[j][1] \in Int
    BY WindowSteps DEF SlotInv
  <2> QED BY <1>9, <2>1, <2>2, <2>3 DEF SlotInv, NoSpeculativeCommit
<1> QED BY <1>9, <1>10, <1>11, <1>12, <1>13 DEF SlotInv
LEMMA ParityFacts ==
  ASSUME TypeOK
  PROVE  par \in Parity /\ 1 - par \in Parity /\ 1 - par # par
<1>1. ctl.parity = 0 \/ ctl.parity = 1
  BY DEF TypeOK, CtlType, Parity
<1> QED BY <1>1 DEF Parity, par

\* Committing the window reads old window tokens and accepted rows only.
LEMMA CommittedWindowType ==
  ASSUME SlotInv, pc = "conv"
  PROVE  /\ CommittedWindow \in [1 .. Window -> Tokens]
         /\ \A j \in 1 .. Window : CommittedWindow[j][1] < step \/ CommittedWindow[j][1] = 0
<1>1. ctl.pending \in Nat /\ ctl.pending <= SlotMax /\ ctl.slot \in [Slots -> Slots]
  BY DEF SlotInv, TypeOK, CtlType
<1>2. step \in Nat /\ step > 0 /\ step <= MaxSteps
  BY DEF SlotInv, TypeOK
<1>3. ASSUME NEW j \in 1 .. Window
      PROVE  /\ CommittedWindow[j] \in Tokens
             /\ CommittedWindow[j][1] < step \/ CommittedWindow[j][1] = 0
  <2>1. CASE ctl.pending + j <= Window
    <3>1. ctl.pending + j \in 1 .. Window
      BY <1>1, <2>1
    <3>2. conv_state[ctl.pending + j] \in Tokens /\ DOMAIN conv_state = 1 .. Window
      BY <3>1 DEF SlotInv, TypeOK
    <3> QED BY <2>1, <3>1, <3>2 DEF CommittedWindow, SlotInv, NoSpeculativeCommit
  <2>2. CASE ~(ctl.pending + j <= Window)
    <3> DEFINE i == ctl.pending + j - Window - 1
               s == ctl.slot[i]
    <3>1. i \in 0 .. ctl.pending - 1 /\ i \in 0 .. SlotMax - 1
      BY <1>1, <2>2
    <3>2. s \in Slots
      BY <1>1, <3>1 DEF Slots
    <3>3. proj_buf[1 - par][s] = <<step - 1, s>>
      BY <3>1 DEF SlotInv, PendingWritten, Holds
    <3>4. <<step - 1, s>> \in Tokens
      BY <1>2, <3>2 DEF Tokens, Slots
    <3>5. CommittedWindow[j] = proj_buf[1 - par][s]
      BY <2>2 DEF CommittedWindow
    <3> HIDE DEF s, i
    <3> QED BY <1>2, <3>3, <3>4, <3>5
  <2> QED BY <2>1, <2>2
<1>4. CommittedWindow = [j \in 1 .. Window |-> CommittedWindow[j]]
  BY DEF CommittedWindow
<1> HIDE DEF CommittedWindow
<1> QED BY <1>3, <1>4

LEMMA ConvInv == SlotInv /\ ConvStep => SlotInv'
<1> SUFFICES ASSUME SlotInv, ConvStep
             PROVE  SlotInv'
  OBVIOUS
<1>1. pc = "conv" /\ pc' = "decode" /\ UNCHANGED <<state, gates_buf, sumsq_buf, ctl, seq, out, step>>
  BY DEF ConvStep
<1>2. TypeOK /\ step \in 0 .. MaxSteps /\ seq \in 0 .. SlotMax
  BY DEF SlotInv, TypeOK
<1>3. conv_state' \in [1 .. Window -> Tokens]
      /\ \A j \in 1 .. Window : conv_state'[j][1] < step \/ conv_state'[j][1] = 0
  BY <1>1, CommittedWindowType DEF ConvStep
<1> DEFINE taps == [r \in Rows |-> Taps(r, CommittedWindow)]
<1>4. \A r \in Rows : taps[r] \in ConvOutputs
  <2> HIDE DEF CommittedWindow
  <2> QED BY <1>1, <1>2, CommittedWindowType, TapsType
<1>5. \A r \in Rows : ThisStep[r] = <<step, r>> /\ ThisStep[r] \in Tokens
  BY <1>2 DEF ThisStep, Tokens, Rows
<1>6. par \in Parity /\ 1 - par \in Parity /\ 1 - par # par /\ par' = par
  BY <1>1, <1>2, ParityFacts DEF par
<1>p. PICK portable \in Paths :
        /\ qkv_buf' = [qkv_buf EXCEPT ![par] = Stored(qkv_buf[par], taps, portable)]
        /\ proj_buf' = [proj_buf EXCEPT ![par] = Stored(proj_buf[par], ThisStep, portable)]
  BY DEF ConvStep
<1>q. portable \in BOOLEAN
  BY <1>p
<1> DEFINE qkv == Stored(qkv_buf[par], taps, portable)
           proj == Stored(proj_buf[par], ThisStep, portable)
<1>7. qkv_buf' = [qkv_buf EXCEPT ![par] = qkv] /\ proj_buf' = [proj_buf EXCEPT ![par] = proj]
  BY <1>p
<1>8. qkv \in [Slots -> ConvOutputs \cup Blank]
      /\ \A r \in Rows : r \in Slots /\ qkv[r] = taps[r]
  <2>1. qkv_buf[par] \in [Slots -> ConvOutputs \cup Blank]
    BY <1>2, <1>6 DEF TypeOK
  <2> HIDE DEF taps
  <2> QED BY <1>2, <1>4, <1>q, <2>1, StoredRows
<1>9. proj \in [Slots -> Tokens \cup Blank]
      /\ \A r \in Rows : proj[r] = <<step, r>>
  <2>1. proj_buf[par] \in [Slots -> Tokens \cup Blank]
    BY <1>2, <1>6 DEF TypeOK
  <2>2. \A r \in Rows : ThisStep[r] \in Tokens
    BY <1>5
  <2>3. proj \in [Slots -> Tokens \cup Blank] /\ \A r \in Rows : proj[r] = ThisStep[r]
    BY <1>2, <1>q, <2>1, <2>2, StoredRows
  <2> QED BY <1>5, <2>3
<1> HIDE DEF qkv, proj
<1>10. qkv_buf'[par] = qkv /\ proj_buf'[par] = proj
       /\ qkv_buf'[1 - par] = qkv_buf[1 - par] /\ proj_buf'[1 - par] = proj_buf[1 - par]
  BY <1>2, <1>6, <1>7 DEF TypeOK
<1>11. qkv_buf' \in [Parity -> [Slots -> ConvOutputs \cup Blank]]
       /\ proj_buf' \in [Parity -> [Slots -> Tokens \cup Blank]]
  BY <1>2, <1>6, <1>7, <1>8, <1>9 DEF TypeOK
<1>12. TypeOK'
  BY <1>1, <1>2, <1>3, <1>11 DEF TypeOK, Rows
<1>13. PendingWritten'
  BY <1>1, <1>6, <1>10 DEF SlotInv, PendingWritten, Holds, HoldsGates
<1>14. RowsWritten'
  <2>1. \A r \in Rows : qkv[r] \in ConvOutputs
    BY <1>4, <1>8
  <2>2. Rows' = Rows
    BY <1>1 DEF Rows
  <2>3. \A r \in Rows : Holds(par, r, <<step, r>>)'
    BY <1>1, <1>6, <1>9, <1>10, <2>1 DEF Holds
  <2> QED BY <1>1, <1>6, <2>2, <2>3 DEF RowsWritten, Holds
<1>15. ProgramComplete'
  BY <1>1 DEF SlotInv, ProgramComplete, Rows
<1>16. NoSpeculativeCommit'
  <2>1. DOMAIN conv_state' = 1 .. Window
    BY <1>3
  <2> QED BY <1>1, <1>3, <2>1 DEF SlotInv, NoSpeculativeCommit
<1> QED BY <1>1, <1>12, <1>13, <1>14, <1>15, <1>16 DEF SlotInv

LEMMA DecodeInv == SlotInv /\ DecodeStep => SlotInv'
<1> SUFFICES ASSUME SlotInv, DecodeStep
             PROVE  SlotInv'
  OBVIOUS
<1>1. pc = "decode" /\ pc' = "verify"
      /\ UNCHANGED <<conv_state, proj_buf, qkv_buf, ctl, seq, step>>
  BY DEF DecodeStep
<1>2. TypeOK /\ step \in 0 .. MaxSteps /\ step > 0 /\ seq \in 0 .. SlotMax
  BY <1>1 DEF SlotInv, TypeOK
<1>3. par \in Parity /\ 1 - par \in Parity /\ 1 - par # par /\ par' = par
  BY <1>1, <1>2, ParityFacts DEF par
<1>4. \A r \in Rows : Holds(par, r, <<step, r>>)
  BY <1>1 DEF SlotInv, RowsWritten
<1>5. \A r \in Rows : qkv_buf[par][r] \in ConvOutputs
  BY <1>4 DEF Holds
<1>6. \A r \in Rows : ThisStep[r] = <<step, r>> /\ ThisStep[r] \in Tokens
  BY <1>2 DEF ThisStep, Tokens, Rows
<1>7. CommittedState \in Seq(Entries)
  BY <1>1, <1>2, CommittedStateType DEF SlotInv
<1>8. out' \in [Rows -> Seq(Entries)]
  <2>1. \A r \in Rows : Current(r) \in Entries
    BY <1>5, <1>6 DEF Current, Entry, Entries, ThisStep
  <2>2. ASSUME NEW r \in Rows
        PROVE  RowOutput(r) \in Seq(Entries)
    <3>1. ctl.prog \in [Rows -> ProgramEntries(seq)]
      BY <1>2 DEF TypeOK, CtlType, Rows
    <3>2. EntryOf(ctl.prog, r) \in Rows
      BY <3>1 DEF SlotInv, ProgramComplete, EntryOf
    <3>3. EntryOf(ctl.prog, r) \in 0 .. seq
      BY <3>2, <1>2 DEF Rows
    <3>4. Running(EntryOf(ctl.prog, r)) \in Seq(Entries)
      BY <1>2, <1>7, <2>1, <3>3, RunningType
    <3>5. Current(r) \in Entries
      BY <2>1
    <3> QED BY <3>4, <3>5 DEF RowOutput
  <2>3. out' = [r \in Rows |-> RowOutput(r)]
    BY DEF DecodeStep
  <2> QED BY <2>2, <2>3
<1>p. PICK portable \in Paths : StoreGates(portable)
  BY DEF DecodeStep
<1>q. portable \in BOOLEAN
  BY <1>p
<1> DEFINE gates == Stored(gates_buf[par], ThisStep, portable)
           norms == Stored(sumsq_buf[par], qkv_buf[par], portable)
<1>9. gates_buf' = [gates_buf EXCEPT ![par] = gates] /\ sumsq_buf' = [sumsq_buf EXCEPT ![par] = norms]
  BY <1>p DEF StoreGates
<1>10. gates \in [Slots -> Tokens \cup Blank]
       /\ \A r \in Rows : gates[r] = <<step, r>>
  <2>1. gates_buf[par] \in [Slots -> Tokens \cup Blank]
    BY <1>2, <1>3 DEF TypeOK
  <2>2. \A r \in Rows : ThisStep[r] \in Tokens
    BY <1>6
  <2>3. gates \in [Slots -> Tokens \cup Blank] /\ \A r \in Rows : gates[r] = ThisStep[r]
    BY <1>2, <1>q, <2>1, <2>2, StoredRows
  <2> QED BY <1>6, <2>3
<1>11. norms \in [Slots -> ConvOutputs \cup Blank]
       /\ \A r \in Rows : norms[r] = qkv_buf[par][r]
  <2>1. sumsq_buf[par] \in [Slots -> ConvOutputs \cup Blank]
    BY <1>2, <1>3 DEF TypeOK
  <2> HIDE DEF gates
  <2> QED BY <1>2, <1>5, <1>q, <2>1, StoredRows, SMTT(30)
<1> HIDE DEF gates, norms
<1>12. gates_buf'[par] = gates /\ sumsq_buf'[par] = norms
  BY <1>2, <1>3, <1>9 DEF TypeOK
<1>13. gates_buf' \in [Parity -> [Slots -> Tokens \cup Blank]]
       /\ sumsq_buf' \in [Parity -> [Slots -> ConvOutputs \cup Blank]]
  BY <1>2, <1>3, <1>9, <1>10, <1>11 DEF TypeOK
<1>14. state' = CommittedState
  BY DEF DecodeStep
<1>15. TypeOK'
  BY <1>1, <1>2, <1>7, <1>8, <1>13, <1>14 DEF TypeOK, Rows
<1>16. PendingWritten'
  BY <1>1 DEF PendingWritten
<1>17. RowsWritten'
  <2>1. Rows' = Rows
    BY <1>1 DEF Rows
  <2>2. \A r \in Rows : Holds(par, r, <<step, r>>)'
    BY <1>1, <1>3, <1>4 DEF Holds
  <2>3. \A r \in Rows : HoldsGates(par, r, <<step, r>>)'
    BY <1>1, <1>3, <1>10, <1>11, <1>12 DEF HoldsGates
  <2> QED BY <1>1, <1>3, <2>1, <2>2, <2>3 DEF RowsWritten, Holds, HoldsGates
<1>18. ProgramComplete'
  BY <1>1 DEF SlotInv, ProgramComplete, Rows
<1>19. NoSpeculativeCommit'
  <2> DEFINE new == [i \in 1 .. ctl.pending |-> Replayed(ctl.slot[i - 1])]
  <2>1. ctl.pending \in Nat /\ state \in Seq(Entries)
    BY <1>2 DEF TypeOK, CtlType
  <2>2. ASSUME NEW i \in 1 .. ctl.pending
        PROVE  new[i].gate[1] = step - 1
    <3>1. i - 1 \in 0 .. ctl.pending - 1
      BY <2>1
    <3>2. HoldsGates(1 - par, ctl.slot[i - 1], <<step - 1, ctl.slot[i - 1]>>)
      BY <1>1, <3>1 DEF SlotInv, PendingWritten
    <3>3. new[i].gate = gates_buf[1 - par][ctl.slot[i - 1]]
      BY DEF Replayed, Entry
    <3>4. new[i].gate = <<step - 1, ctl.slot[i - 1]>>
      BY <3>2, <3>3 DEF HoldsGates
    <3> HIDE DEF new
    <3> QED BY <3>4
  <2>3. state' = state \o new
    BY <1>14 DEF CommittedState
  <2> DEFINE V == {Replayed(ctl.slot[i - 1]) : i \in 1 .. ctl.pending}
  <2>4. new \in Seq(V) /\ Len(new) = ctl.pending
    <3>1. new \in [1 .. ctl.pending -> V]
      OBVIOUS
    <3> HIDE DEF new, V
    <3> QED BY <2>1, <3>1
  <2>5. ASSUME NEW i \in DOMAIN state'
        PROVE  state'[i].gate[1] < step
    <3> HIDE DEF new
    <3>1. CASE i \in DOMAIN state
      <4>1. state'[i] = state[i]
        BY <2>1, <2>3, <2>4, <3>1
      <4> QED BY <3>1, <4>1 DEF SlotInv, NoSpeculativeCommit
    <3>2. CASE i \notin DOMAIN state
      <4>1. i - Len(state) \in 1 .. ctl.pending /\ state'[i] = new[i - Len(state)]
        BY <2>1, <2>3, <2>4, <2>5, <3>2
      <4> QED BY <1>2, <2>2, <4>1
    <3> QED BY <3>1, <3>2
  <2> QED BY <1>1, <2>5 DEF SlotInv, NoSpeculativeCommit
<1> QED BY <1>1, <1>2, <1>15, <1>16, <1>17, <1>18, <1>19 DEF SlotInv

LEMMA VerifyInv == SlotInv /\ Verify => SlotInv'
<1> SUFFICES ASSUME SlotInv, Verify
             PROVE  SlotInv'
  OBVIOUS
<1>1. pc = "verify" /\ pc' = "propose" /\ out' = <<>>
      /\ UNCHANGED <<conv_state, state, proj_buf, qkv_buf, gates_buf, sumsq_buf, seq, step>>
  BY DEF Verify, buffers
<1>2. PICK n \in 0 .. seq : \E path \in [1 .. n -> Rows] :
        ctl' = [ctl EXCEPT !.pending = n,
                           !.slot = [s \in Slots |-> IF s < n THEN path[s + 1] ELSE 0],
                           !.parity = 1 - @]
  BY DEF Verify
<1>3. PICK path \in [1 .. n -> Rows] :
        ctl' = [ctl EXCEPT !.pending = n,
                           !.slot = [s \in Slots |-> IF s < n THEN path[s + 1] ELSE 0],
                           !.parity = 1 - @]
  BY <1>2
<1>4. TypeOK /\ seq \in 0 .. SlotMax /\ n \in 0 .. SlotMax
  BY DEF SlotInv, TypeOK
<1>5. par \in Parity /\ 1 - par \in Parity
  BY <1>4, ParityFacts
<1> DEFINE slot == [s \in Slots |-> IF s < n THEN path[s + 1] ELSE 0]
<1>6. ctl'.pending = n /\ ctl'.slot = slot /\ par' = 1 - par /\ 1 - par' = par
      /\ ctl'.prog = ctl.prog /\ ctl'.parent = ctl.parent
  BY <1>3, <1>4, <1>5 DEF TypeOK, CtlType, par, Parity
<1>7. slot \in [Slots -> Slots]
  <2>1. ASSUME NEW s \in Slots
        PROVE  (IF s < n THEN path[s + 1] ELSE 0) \in Slots
    <3>1. CASE s < n
      <4>1. s + 1 \in 1 .. n
        BY <3>1, <1>4 DEF Slots
      <4>2. path[s + 1] \in Rows
        BY <4>1
      <4> QED BY <3>1, <4>2, <1>4 DEF Rows, Slots
    <3>2. CASE ~(s < n)
      BY <3>2 DEF Slots
    <3> QED BY <3>1, <3>2
  <2> QED BY <2>1
<1>8. ctl' \in CtlType(seq)
  BY <1>3, <1>4, <1>5, <1>7 DEF TypeOK, CtlType, par
<1>9. TypeOK'
  BY <1>1, <1>4, <1>8 DEF TypeOK, Rows
<1>10. PendingWritten'
  <2>1. ASSUME NEW i \in 0 .. ctl'.pending - 1
        PROVE  Holds(par, slot[i], <<step, slot[i]>>) /\ HoldsGates(par, slot[i], <<step, slot[i]>>)
    <3>1. i \in Slots /\ i < n /\ i + 1 \in 1 .. n
      BY <1>4, <1>6 DEF Slots
    <3>2. slot[i] \in Rows
      BY <3>1
    <3> HIDE DEF slot
    <3> QED BY <1>1, <3>2 DEF SlotInv, RowsWritten
  <2>2. ASSUME NEW i \in 0 .. ctl'.pending - 1
        PROVE  Holds(1 - par, ctl.slot[i], <<step, ctl.slot[i]>>)'
               /\ HoldsGates(1 - par, ctl.slot[i], <<step, ctl.slot[i]>>)'
    <3> HIDE DEF slot
    <3> QED BY <1>1, <1>6, <2>1 DEF Holds, HoldsGates
  <2> QED BY <1>1, <2>2 DEF PendingWritten, Holds, HoldsGates
<1>11. RowsWritten' /\ ProgramComplete' /\ NoSpeculativeCommit'
  BY <1>1, <1>6 DEF SlotInv, RowsWritten, ProgramComplete, Rows, NoSpeculativeCommit
<1> QED BY <1>1, <1>9, <1>10, <1>11 DEF SlotInv

LEMMA RerunInv == SlotInv /\ (Rerun \/ UNCHANGED vars) => SlotInv'
<1>1. ASSUME SlotInv, UNCHANGED vars
      PROVE  SlotInv'
  BY <1>1 DEF SlotInv, TypeOK, PendingWritten, RowsWritten, ProgramComplete, NoSpeculativeCommit,
              Holds, HoldsGates, Rows, par, vars
<1>2. ASSUME SlotInv, Rerun
      PROVE  SlotInv'
  <2>1. pc = "verify" /\ pc' = "conv" /\ ctl.pending = 0
        /\ UNCHANGED <<conv_state, state, proj_buf, qkv_buf, gates_buf, sumsq_buf, ctl, seq, out, step>>
    BY <1>2 DEF Rerun, buffers
  <2>2. TypeOK'
    BY <1>2, <2>1 DEF SlotInv, TypeOK, Rows
  <2>3. PendingWritten'
    BY <2>1 DEF PendingWritten
  <2>4. RowsWritten' /\ ProgramComplete' /\ NoSpeculativeCommit'
    BY <1>2, <2>1 DEF SlotInv, RowsWritten, ProgramComplete, Rows, NoSpeculativeCommit
  <2> QED BY <1>2, <2>1, <2>2, <2>3, <2>4 DEF SlotInv
<1> QED BY <1>1, <1>2

LEMMA NextSlotInv == SlotInv /\ [Next]_vars => SlotInv'
  BY ProposeInv, ConvInv, DecodeInv, VerifyInv, RerunInv DEF Next

LEMMA SlotInvariant == Spec => []SlotInv
<1>1. Init => SlotInv
  BY InitSlotInv
<1>2. SlotInv /\ [Next]_vars => SlotInv'
  BY NextSlotInv
<1> QED BY <1>1, <1>2, PTL DEF Spec

-----------------------------------------------------------------------------
(* The theorems. *)

\* A conv or decode call never reads an unwritten or zero-padded slot: the
\* committed window and state, the buffers and ctl keep their types.
THEOREM TypeCorrect == Spec => []TypeOK
<1>1. SlotInv => TypeOK
  BY DEF SlotInv
<1> QED BY <1>1, SlotInvariant, PTL

\* The rows of a step never reach the committed state or window in that step.
THEOREM NothingCommittedEarly == Spec => []NoSpeculativeCommit
<1>1. SlotInv => NoSpeculativeCommit
  BY DEF SlotInv
<1> QED BY <1>1, SlotInvariant, PTL

\* Neither call overwrites an accepted row before both calls committed it.
THEOREM PendingRowsSurvive == Spec => PendingSurvives
<1>1. SlotInv /\ [Next]_vars => [(pc \in {"conv", "decode"}) => PendingRows' = PendingRows]_vars
  <2> SUFFICES ASSUME SlotInv, Next, pc \in {"conv", "decode"}
               PROVE  PendingRows' = PendingRows
    OBVIOUS
  <2>1. TypeOK
    BY DEF SlotInv
  <2>2. par \in Parity /\ 1 - par \in Parity /\ 1 - par # par
    BY <2>1, ParityFacts
  <2>3. UNCHANGED ctl /\ UNCHANGED par
    BY DEF Next, Propose, ConvStep, DecodeStep, Verify, Rerun, par
  <2>4. /\ proj_buf'[1 - par] = proj_buf[1 - par] /\ qkv_buf'[1 - par] = qkv_buf[1 - par]
        /\ gates_buf'[1 - par] = gates_buf[1 - par] /\ sumsq_buf'[1 - par] = sumsq_buf[1 - par]
    <3>1. CASE ConvStep
      BY <2>1, <2>2, <3>1 DEF ConvStep, TypeOK
    <3>2. CASE DecodeStep
      BY <2>1, <2>2, <3>2 DEF DecodeStep, StoreGates, TypeOK
    <3> QED BY <3>1, <3>2 DEF Next, Propose, Verify, Rerun
  <2> QED BY <2>3, <2>4 DEF PendingRows, Replayed, Entry
<1> QED BY <1>1, SlotInvariant, PTL DEF Spec, PendingSurvives

\* The history of a state, one token at a time.
LEMMA HistoryAt ==
  ASSUME NEW s \in Seq(Entries)
  PROVE  /\ Len(History(s)) = Window + Len(s)
         /\ \A k \in 1 .. Window + Len(s) :
              History(s)[k] = IF k <= Window THEN <<0, k - Window - 1>> ELSE s[k - Window].gate
<1> DEFINE prefix == [j \in 1 .. Window |-> <<0, j - Window - 1>>]
<1>1. prefix \in Seq(Tokens) /\ Len(prefix) = Window
  <2>1. \A j \in 1 .. Window : <<0, j - Window - 1>> \in Tokens
    BY DEF Tokens
  <2>2. prefix \in [1 .. Window -> Tokens]
    BY <2>1
  <2> HIDE DEF prefix
  <2> QED BY <2>2
<1>2. Gates(s) \in Seq(Tokens) /\ Len(Gates(s)) = Len(s)
      /\ \A i \in 1 .. Len(s) : Gates(s)[i] = s[i].gate
  <2>1. ASSUME NEW i \in 1 .. Len(s)
        PROVE  s[i].gate \in Tokens
    <3>1. s[i] \in Entries
      OBVIOUS
    <3> QED BY <3>1 DEF Entries
  <2>2. Gates(s) \in [1 .. Len(s) -> Tokens]
    BY <2>1 DEF Gates
  <2> QED BY <2>2 DEF Gates
<1>3. History(s) = prefix \o Gates(s)
  BY DEF History
<1>4. \A k \in 1 .. Window : prefix[k] = <<0, k - Window - 1>>
  OBVIOUS
<1> HIDE DEF prefix
<1>5. Len(History(s)) = Window + Len(s)
  <2>1. prefix \in Seq(Tokens) /\ Gates(s) \in Seq(Tokens)
    BY <1>1, <1>2
  <2>2. Len(prefix \o Gates(s)) = Len(prefix) + Len(Gates(s))
    BY <2>1
  <2> QED BY <1>1, <1>2, <1>3, <2>2
<1>6. ASSUME NEW k \in 1 .. Window + Len(s)
      PROVE  History(s)[k] = IF k <= Window THEN <<0, k - Window - 1>> ELSE s[k - Window].gate
  <2>1. CASE k <= Window
    <3>1. k \in 1 .. Window
      BY <2>1
    <3>2. (prefix \o Gates(s))[k] = prefix[k]
      BY <1>1, <1>2, <3>1
    <3> QED BY <1>3, <1>4, <2>1, <3>1, <3>2
  <2>2. CASE ~(k <= Window)
    <3>1. k - Window \in 1 .. Len(s)
      BY <2>2
    <3>2. (prefix \o Gates(s))[k] = Gates(s)[k - Window]
      BY <1>1, <1>2, <2>2, <3>1
    <3> QED BY <1>2, <1>3, <2>2, <3>1, <3>2
  <2> QED BY <2>1, <2>2
<1> QED BY <1>5, <1>6

\* The committed state, one entry at a time.
LEMMA CommittedStateAt ==
  ASSUME SlotInv, pc = "conv"
  PROVE  /\ CommittedState \in Seq(Entries)
         /\ Len(CommittedState) = Len(state) + ctl.pending
         /\ \A k \in 1 .. Len(state) : CommittedState[k] = state[k]
         /\ \A i \in 1 .. ctl.pending :
              CommittedState[Len(state) + i].gate = proj_buf[1 - par][ctl.slot[i - 1]]
<1> DEFINE V == {Replayed(ctl.slot[i - 1]) : i \in 1 .. ctl.pending}
           new == [i \in 1 .. ctl.pending |-> Replayed(ctl.slot[i - 1])]
<1>1. ctl.pending \in Nat /\ state \in Seq(Entries) /\ step > 0
  BY DEF SlotInv, TypeOK, CtlType
<1>2. CommittedState \in Seq(Entries)
  BY <1>1, CommittedStateType DEF SlotInv
<1>3. CommittedState = state \o new
  BY DEF CommittedState
<1>4. \A i \in 1 .. ctl.pending : new[i] = Replayed(ctl.slot[i - 1])
  OBVIOUS
<1>5. new \in Seq(V) /\ Len(new) = ctl.pending
  <2>1. new \in [1 .. ctl.pending -> V]
    OBVIOUS
  <2> HIDE DEF new, V
  <2> QED BY <1>1, <2>1
<1>6. ASSUME NEW i \in 1 .. ctl.pending
      PROVE  Replayed(ctl.slot[i - 1]).gate = proj_buf[1 - par][ctl.slot[i - 1]]
  <2>1. i - 1 \in 0 .. ctl.pending - 1
    BY <1>1
  <2>2. Holds(1 - par, ctl.slot[i - 1], <<step - 1, ctl.slot[i - 1]>>)
        /\ HoldsGates(1 - par, ctl.slot[i - 1], <<step - 1, ctl.slot[i - 1]>>)
    BY <2>1 DEF SlotInv, PendingWritten
  <2> QED BY <2>2 DEF Holds, HoldsGates, Replayed, Entry
<1> HIDE DEF new, V
<1>7. Len(CommittedState) = Len(state) + ctl.pending
      /\ \A k \in 1 .. Len(state) : CommittedState[k] = state[k]
  <2>1. Len(state \o new) = Len(state) + Len(new)
    BY <1>1, <1>5
  <2>2. \A k \in 1 .. Len(state) : (state \o new)[k] = state[k]
    BY <1>1, <1>5
  <2> QED BY <1>3, <1>5, <2>1, <2>2
<1>8. ASSUME NEW i \in 1 .. ctl.pending
      PROVE  CommittedState[Len(state) + i] = new[i]
  <2>1. Len(state) \in Nat /\ Len(state) + i \in 1 .. Len(state) + Len(new)
        /\ Len(state) + i > Len(state) /\ Len(state) + i - Len(state) = i
    BY <1>1, <1>5
  <2>2. (state \o new)[Len(state) + i] = new[Len(state) + i - Len(state)]
    BY <1>1, <1>5, <2>1
  <2> QED BY <1>3, <2>1, <2>2
<1> QED BY <1>2, <1>4, <1>6, <1>7, <1>8

\* The conv call leaves what is to be replayed alone.
LEMMA ConvKeepsCommitted ==
  ASSUME SlotInv, ConvStep
  PROVE  CommittedState' = CommittedState
<1>1. TypeOK /\ par \in Parity /\ 1 - par \in Parity /\ 1 - par # par /\ par' = par
      /\ UNCHANGED <<state, gates_buf, sumsq_buf, ctl>>
  BY ParityFacts DEF SlotInv, ConvStep, par
<1>2. qkv_buf'[1 - par] = qkv_buf[1 - par]
  BY <1>1 DEF ConvStep, TypeOK
<1>3. \A s : Replayed(s)' = Replayed(s)
  BY <1>1, <1>2 DEF Replayed
<1> QED BY <1>1, <1>3 DEF CommittedState

\* The conv window and the recurrent state commit the same tokens, whatever
\* the accepted paths were; between the two calls the window is ahead.
THEOREM WindowFollowsState == Spec => []WindowMatchesState
<1>1. Init => WindowMatchesState
  <2> SUFFICES ASSUME Init
               PROVE  WindowMatchesState
    OBVIOUS
  <2>1. state \in Seq(Entries) /\ Len(state) = 0 /\ pc = "propose"
    BY DEF Init
  <2>2. Len(History(state)) = Window + Len(state)
        /\ \A k \in 1 .. Window + Len(state) :
             History(state)[k] = IF k <= Window THEN <<0, k - Window - 1>>
                                 ELSE state[k - Window].gate
    BY <2>1, HistoryAt
  <2>3. Last(Window, History(state)) = [j \in 1 .. Window |-> <<0, j - Window - 1>>]
    BY <2>1, <2>2 DEF Last
  <2> QED BY <2>1, <2>3 DEF Init, WindowMatchesState
<1>2. SlotInv /\ WindowMatchesState /\ [Next]_vars => WindowMatchesState'
  <2> SUFFICES ASSUME SlotInv, WindowMatchesState, [Next]_vars
               PROVE  WindowMatchesState'
    OBVIOUS
  <2>1. ASSUME ConvStep
        PROVE  WindowMatchesState'
    <3>1. pc = "conv" /\ pc' = "decode" /\ conv_state' = CommittedWindow
          /\ UNCHANGED <<state, gates_buf, sumsq_buf, ctl, seq, out, step>>
      BY <2>1 DEF ConvStep
    <3>2. CommittedState' = CommittedState
      BY <2>1, ConvKeepsCommitted
    <3>3. ctl.pending \in Nat /\ state \in Seq(Entries) /\ Len(state) \in Nat
      BY DEF SlotInv, TypeOK, CtlType
    <3> DEFINE H == History(state)
               C == History(CommittedState)
    <3>4. Len(H) = Window + Len(state) /\ Len(C) = Window + Len(state) + ctl.pending
      BY <3>1, <3>3, CommittedStateAt, HistoryAt
    <3>5. ASSUME NEW j \in 1 .. Window
          PROVE  CommittedWindow[j] = C[Len(C) - Window + j]
      <4>1. Len(C) - Window + j = Len(state) + ctl.pending + j
            /\ Len(C) - Window + j \in 1 .. Window + Len(CommittedState)
        <5>1. Len(CommittedState) = Len(state) + ctl.pending
          BY <3>1, CommittedStateAt
        <5> HIDE DEF C
        <5> QED BY <3>3, <3>4, <5>1
      <4> DEFINE k == Len(state) + ctl.pending + j
      <4>2. C[k] = IF k <= Window THEN <<0, k - Window - 1>> ELSE CommittedState[k - Window].gate
        BY <3>1, <4>1, CommittedStateAt, HistoryAt
      <4>3. CASE ctl.pending + j <= Window
        <5>1. conv_state[ctl.pending + j] = H[k]
          <6>1. conv_state = Last(Window, H)
            BY <3>1 DEF WindowMatchesState
          <6>2. ctl.pending + j \in 1 .. Window
            BY <3>3, <4>3
          <6>3. Last(Window, H)[ctl.pending + j] = H[Len(H) - Window + (ctl.pending + j)]
            BY <6>2 DEF Last
          <6>4. Len(H) - Window + (ctl.pending + j) = k
            BY <3>3, <3>4
          <6> QED BY <6>1, <6>3, <6>4
        <5>2. H[k] = IF k <= Window THEN <<0, k - Window - 1>> ELSE state[k - Window].gate
          <6>1. k \in 1 .. Window + Len(state)
            BY <3>3, <4>3
          <6> HIDE DEF k
          <6> QED BY <3>3, <6>1, HistoryAt
        <5>3. k > Window => k - Window \in 1 .. Len(state)
          BY <3>3, <4>3
        <5>4. k > Window => CommittedState[k - Window] = state[k - Window]
          BY <3>1, <5>3, CommittedStateAt
        <5>5. CommittedWindow[j] = conv_state[ctl.pending + j]
          BY <4>3 DEF CommittedWindow
        <5>6. H[k] = C[k]
          <6>1. k \in Int
            BY <3>3
          <6> HIDE DEF H, C, k
          <6> QED BY <4>2, <5>2, <5>4, <6>1
        <5> HIDE DEF H, C
        <5> QED BY <4>1, <5>1, <5>5, <5>6
      <4>4. CASE ~(ctl.pending + j <= Window)
        <5> DEFINE i == ctl.pending + j - Window
        <5>1. i \in 1 .. ctl.pending /\ k > Window /\ k - Window = Len(state) + i
              /\ i - 1 = ctl.pending + j - Window - 1
          BY <3>3, <4>4
        <5>2. CommittedState[Len(state) + i].gate = proj_buf[1 - par][ctl.slot[i - 1]]
          BY <3>1, <5>1, CommittedStateAt
        <5>3. CommittedWindow[j] = proj_buf[1 - par][ctl.slot[ctl.pending + j - Window - 1]]
          BY <4>4 DEF CommittedWindow
        <5> HIDE DEF C, i
        <5>4. k \in Int /\ ~(k <= Window)
          BY <3>3, <5>1
        <5>5. C[k] = CommittedState[k - Window].gate
          BY <4>2, <5>4
        <5> QED BY <4>1, <5>1, <5>2, <5>3, <5>5
      <4> QED BY <4>3, <4>4
    <3>6. CommittedWindow = [j \in 1 .. Window |-> CommittedWindow[j]]
      BY DEF CommittedWindow
    <3>7. CommittedWindow = Last(Window, C)
      <4> HIDE DEF CommittedWindow, C
      <4> QED BY <3>5, <3>6 DEF Last
    <3> QED BY <3>1, <3>2, <3>7 DEF WindowMatchesState
  <2>2. ASSUME DecodeStep
        PROVE  WindowMatchesState'
    BY <2>2 DEF DecodeStep, WindowMatchesState, History, Gates
  <2>3. ASSUME Propose \/ Verify \/ Rerun
        PROVE  WindowMatchesState'
    BY <2>3 DEF Propose, Verify, Rerun, WindowMatchesState, History, Gates
  <2>4. ASSUME UNCHANGED vars
        PROVE  WindowMatchesState'
    BY <2>4 DEF vars, WindowMatchesState, History, Gates, CommittedState, Replayed, par
  <2> QED BY <2>1, <2>2, <2>3, <2>4 DEF Next
<1> QED BY <1>1, <1>2, SlotInvariant, PTL DEF Spec

-----------------------------------------------------------------------------
(* The rows of a root path. *)

\* Paths of n rows that start at a root of m rows.
RootPaths(parent, m, n) ==
  {path \in [1 .. n -> 0 .. m - 1] :
     \A k \in 1 .. n : parent[path[k]] = (IF k = 1 THEN -1 ELSE path[k - 1])}

\* A walk that follows a path upwards from its i-th row.
Climbs(up, path, i, w) ==
  \A d \in 0 .. w : up[d] = IF d < i THEN path[i - d] ELSE -1

\* Going up from a row of a path that starts at a root meets the rows before it.
LEMMA WalkOfPath ==
  ASSUME NEW w \in Nat, NEW m \in Nat, NEW parent \in Parents(m),
         NEW n \in Nat, NEW path \in RootPaths(parent, m, n), NEW i \in 1 .. n
  PROVE  Climbs(Walk(parent, path[i], w), path, i, w)
<1> DEFINE up == Walk(parent, path[i], w)
           Above(d) == IF d < i THEN path[i - d] ELSE -1
           T == {d \in 0 .. w : up[d] = Above(d)}
<1>0. /\ path \in [1 .. n -> 0 .. m - 1]
      /\ \A k \in 1 .. n : parent[path[k]] = (IF k = 1 THEN -1 ELSE path[k - 1])
  BY DEF RootPaths
<1>1. /\ up[0] = path[i]
      /\ \A d \in 1 .. w : up[d] = IF up[d - 1] = -1 THEN -1 ELSE parent[up[d - 1]]
  <2>1. path[i] \in -1 .. m - 1
    BY <1>0
  <2>2. IsWalk(up, parent, path[i], w, m)
    BY <2>1, WalkType
  <2> QED BY <2>2 DEF IsWalk
<1> HIDE DEF up
<1>2. 0 \in T
  BY <1>1
<1>3. ASSUME NEW d \in 0 .. w - 1, d \in T
      PROVE  d + 1 \in T
  <2>1. d + 1 \in 1 .. w /\ d + 1 \in 0 .. w /\ (d + 1) - 1 = d
    OBVIOUS
  <2>2. up[d + 1] = IF up[d] = -1 THEN -1 ELSE parent[up[d]]
    BY <1>1, <2>1
  <2>3. CASE d < i
    <3>1. i - d \in 1 .. n
      BY <2>3
    <3>2. up[d] = path[i - d] /\ up[d] # -1
      BY <1>0, <1>3, <2>3, <3>1
    <3>3. parent[path[i - d]] = IF i - d = 1 THEN -1 ELSE path[i - d - 1]
      BY <1>0, <3>1
    <3>4. i - (d + 1) = i - d - 1 /\ (i - d = 1 <=> ~(d + 1 < i))
      BY <2>3
    <3>5. up[d + 1] = Above(d + 1)
      BY <2>2, <3>2, <3>3, <3>4
    <3> QED BY <2>1, <3>5
  <2>4. CASE ~(d < i)
    <3>1. up[d] = -1 /\ ~(d + 1 < i)
      BY <1>3, <2>4
    <3> QED BY <2>1, <2>2, <3>1
  <2> QED BY <2>3, <2>4
<1>4. 0 .. w \subseteq T
  <2> HIDE DEF T
  <2> QED BY <1>2, <1>3, SetInduction
<1> QED BY <1>4 DEF up, Climbs

\* The root paths of a step are such paths.
LEMMA RootPathIn ==
  ASSUME TypeOK, NEW n \in Nat, NEW path \in [1 .. n -> Rows], IsRootPath(path)
  PROVE  seq \in Nat /\ ctl.parent \in Parents(seq) /\ path \in RootPaths(ctl.parent, seq, n)
<1>1. seq \in Nat /\ ctl.parent \in Parents(seq)
  BY DEF TypeOK, CtlType, Parents
<1>2. DOMAIN path = 1 .. n /\ path \in [1 .. n -> 0 .. seq - 1]
  BY DEF Rows
<1> QED BY <1>1, <1>2 DEF IsRootPath, RootPaths

\* The ancestors of a row on a root path are the rows before it.
LEMMA AncestorOfPath ==
  ASSUME TypeOK, NEW n \in Nat, NEW path \in [1 .. n -> Rows], IsRootPath(path),
         NEW i \in 1 .. n
  PROVE  Climbs(Ancestor(path[i]), path, i, Window)
<1>1. seq \in Nat /\ ctl.parent \in Parents(seq) /\ path \in RootPaths(ctl.parent, seq, n)
  BY RootPathIn
<1>2. Ancestor(path[i]) = Walk(ctl.parent, path[i], Window)
  BY AncestorType
<1>3. Climbs(Walk(ctl.parent, path[i], Window), path, i, Window)
  BY <1>1, WalkOfPath
<1> QED BY <1>2, <1>3

\* The taps of a row on a root path: the path upwards, then the window.
LEMMA TapsOfPath ==
  ASSUME TypeOK, NEW n \in Nat, NEW path \in [1 .. n -> Rows], IsRootPath(path),
         NEW i \in 1 .. n
  PROVE  \A d \in 0 .. Window :
           Taps(path[i], conv_state)[d] = IF d < i THEN <<step, path[i - d]>>
                                   ELSE conv_state[Window - (d - i)]
<1> DEFINE up == Ancestor(path[i])
           First(e) == up[e] = -1 /\ \A f \in 0 .. e - 1 : up[f] # -1
           first == CHOOSE e \in 0 .. Window : First(e)
<1>1. \A d \in 0 .. Window : up[d] = IF d < i THEN path[i - d] ELSE -1
  BY AncestorOfPath DEF Climbs
<1>2. Taps(path[i], conv_state) = [d \in 0 .. Window |-> IF up[d] # -1 THEN <<step, up[d]>>
                                                  ELSE conv_state[Window - (d - first)]]
  BY DEF Taps
<1> HIDE DEF up
<1> TAKE d \in 0 .. Window
<1>3. \A e \in 0 .. Window : e < i => i - e \in 1 .. n /\ path[i - e] # -1
  BY DEF Rows
<1>4. CASE d < i
  BY <1>1, <1>2, <1>3, <1>4
<1>5. CASE ~(d < i)
  <2>1. i \in 0 .. Window /\ First(i)
    BY <1>1, <1>3, <1>5
  <2>2. \A e \in 0 .. Window : First(e) => e = i
    BY <1>1, <1>3, <1>5
  <2>3. first = i
    <3> HIDE DEF First
    <3> QED BY <2>1, <2>2
  <2> HIDE DEF first
  <2>4. up[d] = -1
    BY <1>1, <1>5
  <2> QED BY <1>2, <1>5, <2>3, <2>4
<1> QED BY <1>4, <1>5

\* The entries of the rows of a path.
Branch(path) == [i \in DOMAIN path |-> Current(path[i])]

\* The conv outputs of the rows, once they are those of the committed window.
Convolved == \A r \in Rows : qkv_buf[par][r] = Taps(r, conv_state)

\* A row of the step is an entry once it is convolved.
LEMMA CurrentType ==
  ASSUME TypeOK, Convolved, NEW r \in Rows
  PROVE  Current(r) \in Entries
<1>1. conv_state \in [1 .. Window -> Tokens] /\ step \in 0 .. MaxSteps /\ seq \in 0 .. SlotMax
  BY DEF TypeOK
<1>2. qkv_buf[par][r] \in ConvOutputs
  BY <1>1, TapsType DEF Convolved
<1>3. <<step, r>> \in Tokens
  BY <1>1 DEF Tokens, Rows
<1> QED BY <1>2, <1>3 DEF Current, Entry, Entries

\* A state and the rows of a path after it, one entry at a time.
LEMMA BranchAt ==
  ASSUME TypeOK, Convolved, NEW base \in Seq(Entries),
         NEW n \in Nat, NEW path \in [1 .. n -> Rows]
  PROVE  /\ Branch(path) \in Seq(Entries) /\ Len(Branch(path)) = n
         /\ base \o Branch(path) \in Seq(Entries)
         /\ Len(base \o Branch(path)) = Len(base) + n
         /\ \A k \in 1 .. Len(base) : (base \o Branch(path))[k] = base[k]
         /\ \A i \in 1 .. n : (base \o Branch(path))[Len(base) + i] = Current(path[i])
<1> DEFINE new == Branch(path)
<1>1. \A i \in 1 .. n : Current(path[i]) \in Entries
  BY CurrentType
<1>2. new = [i \in 1 .. n |-> Current(path[i])]
  BY DEF Branch
<1>3. new \in Seq(Entries) /\ Len(new) = n
  <2>1. new \in [1 .. n -> Entries]
    BY <1>1, <1>2
  <2> HIDE DEF new
  <2> QED BY <2>1
<1>4. \A i \in 1 .. n : new[i] = Current(path[i])
  BY <1>2
<1> HIDE DEF new
<1>5. base \o new \in Seq(Entries) /\ Len(base \o new) = Len(base) + n
  BY <1>3
<1>6. \A k \in 1 .. Len(base) : (base \o new)[k] = base[k]
  BY <1>3
<1>7. ASSUME NEW i \in 1 .. n
      PROVE  (base \o new)[Len(base) + i] = Current(path[i])
  <2>1. (base \o new)[Len(base) + i] = new[Len(base) + i - Len(base)]
    BY <1>3
  <2>2. Len(base) + i - Len(base) = i
    OBVIOUS
  <2> QED BY <1>4, <2>1, <2>2
<1> QED BY <1>3, <1>5, <1>6, <1>7 DEF new

\* Rows run along a root path on top of the committed tokens give the entries
\* of a plain run: the taps of each are the tokens before it.
LEMMA PathInContext ==
  ASSUME TypeOK, Convolved, NEW base \in Seq(Entries), EntryInContext(base),
         conv_state = Last(Window, History(base)),
         NEW n \in Nat, NEW path \in [1 .. n -> Rows], IsRootPath(path)
  PROVE  EntryInContext(base \o Branch(path))
<1> DEFINE all == base \o Branch(path)
           L == Len(base)
           H == History(base)
           A == History(all)
<1>1. /\ all \in Seq(Entries) /\ Len(all) = L + n
      /\ \A k \in 1 .. L : all[k] = base[k]
      /\ \A i \in 1 .. n : all[L + i] = Current(path[i])
  BY BranchAt
<1>l. L \in Nat
  OBVIOUS
<1>2. Len(H) = Window + L
      /\ \A k \in 1 .. Window + L : H[k] = IF k <= Window THEN <<0, k - Window - 1>> ELSE base[k - Window].gate
  BY HistoryAt
<1> HIDE DEF all
<1>3. Len(A) = Window + L + n
      /\ \A k \in 1 .. Window + L + n : A[k] = IF k <= Window THEN <<0, k - Window - 1>> ELSE all[k - Window].gate
  <2>1. all \in Seq(Entries)
    BY <1>1
  <2>2. Len(A) = Window + Len(all)
        /\ \A k \in 1 .. Window + Len(all) :
             A[k] = IF k <= Window THEN <<0, k - Window - 1>> ELSE all[k - Window].gate
    BY <2>1, HistoryAt
  <2>3. Window + Len(all) = Window + L + n
    BY <1>1, <1>l
  <2> HIDE DEF A, L
  <2> QED BY <2>2, <2>3
<1> HIDE DEF A, H
<1>4. \A k \in 1 .. Window + L : A[k] = H[k]
  <2> TAKE k \in 1 .. Window + L
  <2>1. k \in 1 .. Window + L + n /\ (k > Window => k - Window \in 1 .. L)
    BY <1>l
  <2>2. k > Window => all[k - Window] = base[k - Window]
    BY <1>1, <2>1
  <2>3. H[k] = IF k <= Window THEN <<0, k - Window - 1>> ELSE base[k - Window].gate
    BY <1>2
  <2>4. A[k] = IF k <= Window THEN <<0, k - Window - 1>> ELSE all[k - Window].gate
    BY <1>3, <2>1
  <2>5. k \in Int
    BY <1>l
  <2> HIDE DEF L
  <2> QED BY <2>2, <2>3, <2>4, <2>5
<1>5. \A i \in 1 .. n : A[Window + L + i] = <<step, path[i]>>
  <2> TAKE i \in 1 .. n
  <2>1. Window + L + i \in 1 .. Window + L + n /\ ~(Window + L + i <= Window)
        /\ Window + L + i - Window = L + i
    BY <1>l
  <2>2. all[L + i].gate = <<step, path[i]>>
    <3>1. all[L + i] = Current(path[i])
      BY <1>1
    <3> QED BY <3>1 DEF Current, Entry
  <2> DEFINE k == Window + L + i
  <2> HIDE DEF L
  <2>3. A[k] = IF k <= Window THEN <<0, k - Window - 1>> ELSE all[k - Window].gate
    BY <1>3, <2>1
  <2>4. ~(k <= Window) /\ k - Window = L + i
    BY <2>1, <1>l DEF k
  <2> HIDE DEF k
  <2>5. A[k] = <<step, path[i]>>
    BY <2>2, <2>3, <2>4
  <2> QED BY <2>5 DEF k
<1>t. \A i \in 1 .. n : \A d \in 0 .. Window :
        Taps(path[i], conv_state)[d] = IF d < i THEN <<step, path[i - d]>>
                                       ELSE conv_state[Window - (d - i)]
  BY TapsOfPath
<1>6. ASSUME NEW k \in 1 .. L + n
      PROVE  /\ all[k].norm = all[k].qkv
             /\ \A d \in 0 .. Window : all[k].qkv[d] = A[Window + k - d]
  <2>1. CASE k <= L
    <3>1. k \in DOMAIN base /\ all[k] = base[k]
      BY <1>1, <2>1
    <3>2. base[k].norm = base[k].qkv
          /\ \A d \in 0 .. Window : base[k].qkv[d] = H[Window + k - d]
      BY <3>1 DEF EntryInContext, H
    <3>3. \A d \in 0 .. Window : Window + k - d \in 1 .. Window + L
      BY <2>1, <1>l
    <3> QED BY <1>4, <3>1, <3>2, <3>3
  <2>2. CASE ~(k <= L)
    <3> DEFINE i == k - L
               r == path[i]
    <3>1. i \in 1 .. n /\ k = L + i
      BY <2>2, <1>l
    <3>2. all[k] = Current(r) /\ r \in Rows
      BY <1>1, <3>1
    <3>3. all[k].norm = all[k].qkv /\ all[k].qkv = Taps(r, conv_state)
      BY <3>2 DEF Current, Entry, Convolved
    <3> HIDE DEF i
    <3>4. ASSUME NEW d \in 0 .. Window
          PROVE  Taps(r, conv_state)[d] = A[Window + k - d]
      <4>0. Taps(r, conv_state)[d] = IF d < i THEN <<step, path[i - d]>> ELSE conv_state[Window - (d - i)]
        BY <3>1, <1>t
      <4>1. CASE d < i
        <5>1. i - d \in 1 .. n /\ Window + k - d = Window + L + (i - d)
          BY <3>1, <4>1, <1>l
        <5> QED BY <1>5, <4>0, <4>1, <5>1
      <4>2. CASE ~(d < i)
        <5>1. Window - (d - i) \in 1 .. Window
              /\ Window + L - Window + (Window - (d - i)) = Window + k - d
              /\ Window + k - d \in 1 .. Window + L
          BY <3>1, <4>2, <1>l
        <5>2. conv_state[Window - (d - i)] = H[Len(H) - Window + (Window - (d - i))]
          BY <5>1 DEF Last, H
        <5>3. conv_state[Window - (d - i)] = H[Window + k - d]
          <6>1. Len(H) - Window + (Window - (d - i)) = Window + k - d
            BY <1>2, <5>1
          <6> QED BY <5>2, <6>1
        <5>4. A[Window + k - d] = H[Window + k - d]
          BY <1>4, <5>1
        <5> QED BY <4>0, <4>2, <5>3, <5>4
      <4> QED BY <4>1, <4>2
    <3> QED BY <3>3, <3>4
  <2> QED BY <2>1, <2>2, <1>l
<1>7. DOMAIN all = 1 .. L + n
  BY <1>1
<1> HIDE DEF L
<1> QED BY <1>6, <1>7 DEF EntryInContext, all, A

-----------------------------------------------------------------------------
(* The program of a step. *)

\* What the program entries leave on top of the running state, one at a time.
LEMMA LastCommitStep ==
  ASSUME NEW n \in Nat, NEW prog \in [0 .. n - 1 -> ProgramEntries(n)]
  PROVE  /\ LastCommit(prog, 0) = -1
         /\ \A e \in 0 .. n - 1 :
              LastCommit(prog, e + 1) = IF prog[e].commit THEN prog[e].row
                                        ELSE LastCommit(prog, e)
<1> DEFINE done(e) == {m \in 0 .. e - 1 : prog[m].commit}
           RowOf(D) == IF D = {} THEN -1 ELSE prog[CHOOSE k \in D : \A m \in D : m <= k].row
<1>0. \A e : LastCommit(prog, e) = RowOf(done(e))
  BY DEF LastCommit
<1>1. LastCommit(prog, 0) = -1
  <2>1. done(0) = {}
    OBVIOUS
  <2> QED BY <2>1 DEF LastCommit
<1>2. ASSUME NEW e \in 0 .. n - 1, prog[e].commit
      PROVE  LastCommit(prog, e + 1) = prog[e].row
  <2>1. e \in done(e + 1) /\ \A m \in done(e + 1) : m <= e
    BY <1>2
  <2>2. \A k \in done(e + 1) : (\A m \in done(e + 1) : m <= k) => k = e
    BY <2>1
  <2>3. (CHOOSE k \in done(e + 1) : \A m \in done(e + 1) : m <= k) = e
    <3> HIDE DEF done
    <3> QED BY <2>1, <2>2
  <2>4. done(e + 1) # {}
    BY <2>1
  <2> HIDE DEF done
  <2>5. RowOf(done(e + 1)) = prog[e].row
    BY <2>3, <2>4
  <2> QED BY <1>0, <2>5
<1>3. ASSUME NEW e \in 0 .. n - 1, ~prog[e].commit
      PROVE  LastCommit(prog, e + 1) = LastCommit(prog, e)
  <2>1. done(e + 1) = done(e)
    BY <1>3
  <2> HIDE DEF done, RowOf
  <2> QED BY <1>0, <2>1
<1> QED BY <1>1, <1>2, <1>3

\* A program runs every row once, so a row's parent is what its entry finds.
LEMMA ParentsOfProgram ==
  ASSUME NEW n \in Nat, NEW prog \in Programs(n), NEW e \in 0 .. n - 1
  PROVE  prog[e].row \in 0 .. n - 1 /\ ParentsOf(prog)[prog[e].row] = LastCommit(prog, e)
<1> DEFINE S == 0 .. n - 1
           row == [f \in S |-> prog[f].row]
<1>1. prog \in [S -> ProgramEntries(n)] /\ \A r \in S : \E f \in S : prog[f].row = r
  BY DEF Programs
<1>2. \A f \in S : prog[f].row \in S
  BY <1>1 DEF ProgramEntries
<1>3. row \in Surjection(S, S)
  BY <1>1, <1>2 DEF Surjection
<1>4. IsFiniteSet(S)
  BY FS_Interval
<1>5. row \in Injection(S, S)
  <2> HIDE DEF S, row
  <2> QED BY <1>3, <1>4, FS_SurjSameCardinalityImpliesInj
<1>6. \A f, g \in S : prog[f].row = prog[g].row => f = g
  BY <1>5 DEF Injection, IsInjective
<1>7. EntryOf(prog, prog[e].row) = e
  BY <1>1, <1>6 DEF EntryOf
<1> QED BY <1>1, <1>2, <1>7 DEF ParentsOf

\* The row on top of a path, -1 when the path is empty.
Top(n, path) == IF n = 0 THEN -1 ELSE path[n]

\* A path with one more row.
Longer(n, path, r) == [i \in 1 .. n + 1 |-> IF i = n + 1 THEN r ELSE path[i]]

LEMMA LongerPath ==
  ASSUME TypeOK, NEW n \in Nat, NEW path \in [1 .. n -> Rows], IsRootPath(path),
         NEW r \in Rows, ctl.parent[r] = Top(n, path)
  PROVE  /\ Longer(n, path, r) \in [1 .. n + 1 -> Rows]
         /\ IsRootPath(Longer(n, path, r))
         /\ Top(n + 1, Longer(n, path, r)) = r
<1> DEFINE longer == Longer(n, path, r)
<1>1. longer \in [1 .. n + 1 -> Rows] /\ longer[n + 1] = r /\ \A i \in 1 .. n : longer[i] = path[i]
  BY DEF Longer
<1>2. ASSUME NEW i \in 1 .. n + 1
      PROVE  ctl.parent[longer[i]] = (IF i = 1 THEN -1 ELSE longer[i - 1])
  <2> HIDE DEF longer
  <2>1. CASE i = n + 1
    BY <1>1, <2>1 DEF Top
  <2>2. CASE i # n + 1
    <3>1. i \in 1 .. n /\ i \in DOMAIN path /\ (i # 1 => i - 1 \in 1 .. n)
      BY <2>2
    <3>2. ctl.parent[path[i]] = (IF i = 1 THEN -1 ELSE path[i - 1])
      BY <3>1 DEF IsRootPath
    <3> QED BY <1>1, <3>1, <3>2
  <2> QED BY <2>1, <2>2
<1>3. DOMAIN longer = 1 .. n + 1
  BY <1>1
<1> HIDE DEF longer
<1> QED BY <1>1, <1>2, <1>3 DEF IsRootPath, Top, longer

\* Its entries are those of the path and that of the row.
LEMMA LongerBranch ==
  ASSUME TypeOK, Convolved, NEW base \in Seq(Entries),
         NEW n \in Nat, NEW path \in [1 .. n -> Rows], NEW r \in Rows
  PROVE  Append(base \o Branch(path), Current(r)) = base \o Branch(Longer(n, path, r))
<1> DEFINE longer == Longer(n, path, r)
           new == Branch(path)
<1>1. new \in Seq(Entries) /\ Len(new) = n /\ new = [i \in 1 .. n |-> Current(path[i])]
  <2>1. new \in Seq(Entries) /\ Len(new) = n
    BY BranchAt
  <2>2. DOMAIN path = 1 .. n
    OBVIOUS
  <2> QED BY <2>1, <2>2 DEF Branch
<1>2. Current(r) \in Entries
  BY CurrentType
<1>3. Branch(longer) = [i \in 1 .. n + 1 |-> Current(longer[i])]
  BY DEF Branch, Longer
<1>4. longer[n + 1] = r /\ \A i \in 1 .. n : longer[i] = path[i]
  BY DEF Longer
<1> HIDE DEF longer
<1>5. \A i \in 1 .. n + 1 : Current(longer[i]) = IF i = n + 1 THEN Current(r) ELSE new[i]
  <2> HIDE DEF new
  <2> TAKE i \in 1 .. n + 1
  <2>1. CASE i = n + 1
    BY <1>4, <2>1
  <2>2. CASE i # n + 1
    <3>1. i \in 1 .. n
      BY <2>2
    <3> QED BY <1>1, <1>4, <2>2, <3>1
  <2> QED BY <2>1, <2>2
<1> HIDE DEF new
<1>6. Append(new, Current(r)) = [i \in 1 .. n + 1 |-> IF i = n + 1 THEN Current(r) ELSE new[i]]
  BY <1>1, <1>2
<1>7. Append(new, Current(r)) = Branch(longer)
  BY <1>3, <1>5, <1>6
<1>8. Append(base \o new, Current(r)) = base \o Append(new, Current(r))
  <2> DEFINE c == Current(r)
  <2>1. c \in Entries
    BY <1>2
  <2> HIDE DEF c
  <2> QED BY <1>1, <2>1
<1> QED BY <1>7, <1>8 DEF longer, new

\* The running state before a program entry is the committed one and the rows
\* of the root path that ends in what the entry finds on top of it.
LEMMA RunningOfPath ==
  ASSUME TypeOK, Convolved, ParentsFollowProgram, CommittedState \in Seq(Entries),
         NEW e \in 0 .. seq
  PROVE  \E n \in Nat : \E path \in [1 .. n -> Rows] :
            /\ IsRootPath(path)
            /\ Top(n, path) = LastCommit(ctl.prog, e)
            /\ Running(e) = CommittedState \o Branch(path)
<1> DEFINE OnPath(f) == \E n \in Nat : \E path \in [1 .. n -> Rows] :
                          /\ IsRootPath(path)
                          /\ Top(n, path) = LastCommit(ctl.prog, f)
                          /\ Running(f) = CommittedState \o Branch(path)
           T == {f \in 0 .. seq : OnPath(f)}
<1>1. seq \in Nat /\ ctl.prog \in [0 .. seq - 1 -> ProgramEntries(seq)]
  BY DEF TypeOK, CtlType
<1>2. /\ LastCommit(ctl.prog, 0) = -1
      /\ \A f \in 0 .. seq - 1 :
           LastCommit(ctl.prog, f + 1) = IF ctl.prog[f].commit THEN ctl.prog[f].row
                                         ELSE LastCommit(ctl.prog, f)
  BY <1>1, LastCommitStep
<1>3. \A r \in Rows : Current(r) \in Entries
  BY CurrentType
<1>4. /\ Running(0) = CommittedState
      /\ \A f \in 1 .. seq :
           Running(f) = IF ctl.prog[f - 1].commit
                        THEN Append(Running(f - 1), Current(ctl.prog[f - 1].row))
                        ELSE Running(f - 1)
  BY <1>3, RunningType
<1>5. 0 \in T
  <2> DEFINE none == [i \in 1 .. 0 |-> 0]
  <2>1. none \in [1 .. 0 -> Rows] /\ IsRootPath(none) /\ Top(0, none) = -1
    BY DEF IsRootPath, Top
  <2>2. Branch(none) = <<>>
    BY DEF Branch
  <2>3. CommittedState \o <<>> = CommittedState
    OBVIOUS
  <2> HIDE DEF none
  <2>4. Running(0) = CommittedState \o Branch(none)
    BY <1>4, <2>2, <2>3
  <2>5. OnPath(0)
    BY <1>2, <2>1, <2>4
  <2> QED BY <1>1, <2>5
<1>6. ASSUME NEW f \in 0 .. seq - 1, f \in T
      PROVE  f + 1 \in T
  <2>1. f + 1 \in 1 .. seq /\ f + 1 \in 0 .. seq /\ (f + 1) - 1 = f
    BY <1>1
  <2>2. PICK n \in Nat : \E path \in [1 .. n -> Rows] :
                          /\ IsRootPath(path)
                          /\ Top(n, path) = LastCommit(ctl.prog, f)
                          /\ Running(f) = CommittedState \o Branch(path)
    BY <1>6
  <2>3. PICK path \in [1 .. n -> Rows] :
                          /\ IsRootPath(path)
                          /\ Top(n, path) = LastCommit(ctl.prog, f)
                          /\ Running(f) = CommittedState \o Branch(path)
    BY <2>2
  <2> DEFINE r == ctl.prog[f].row
  <2>4. CASE ctl.prog[f].commit
    <3>1. r \in Rows /\ ctl.parent[r] = Top(n, path)
      BY <1>1, <2>3 DEF ParentsFollowProgram, ProgramEntries, Rows
    <3> DEFINE longer == Longer(n, path, r)
    <3>2. longer \in [1 .. n + 1 -> Rows] /\ IsRootPath(longer) /\ Top(n + 1, longer) = r
      BY <2>3, <3>1, LongerPath
    <3>3. Running(f + 1) = Append(Running(f), Current(r))
      BY <1>4, <2>1, <2>4
    <3>4. Append(CommittedState \o Branch(path), Current(r)) = CommittedState \o Branch(longer)
      BY <3>1, LongerBranch
    <3>5. Running(f + 1) = CommittedState \o Branch(longer)
      BY <2>3, <3>3, <3>4
    <3>6. LastCommit(ctl.prog, f + 1) = r
      BY <1>2, <2>4
    <3> HIDE DEF longer, r
    <3>7. OnPath(f + 1)
      <4>1. n + 1 \in Nat
        OBVIOUS
      <4>2. \E way \in [1 .. n + 1 -> Rows] :
              /\ IsRootPath(way)
              /\ Top(n + 1, way) = LastCommit(ctl.prog, f + 1)
              /\ Running(f + 1) = CommittedState \o Branch(way)
        BY <3>2, <3>5, <3>6
      <4> QED BY <4>1, <4>2
    <3> QED BY <2>1, <3>7
  <2>5. CASE ~ctl.prog[f].commit
    <3>1. Running(f + 1) = Running(f) /\ LastCommit(ctl.prog, f + 1) = LastCommit(ctl.prog, f)
      BY <1>2, <1>4, <2>1, <2>5
    <3>2. OnPath(f + 1)
      BY <2>3, <3>1
    <3> QED BY <2>1, <3>2
  <2> QED BY <2>4, <2>5
<1>7. 0 .. seq \subseteq T
  <2> HIDE DEF T
  <2> QED BY <1>1, <1>5, <1>6, SetInduction
<1> QED BY <1>7

\* The output of a row is that of the root path down to it.
LEMMA RowOutputOfPath ==
  ASSUME SlotInv, pc = "decode", Convolved, ParentsFollowProgram,
         CommittedState \in Seq(Entries), NEW r \in Rows
  PROVE  \E n \in Nat : \E path \in [1 .. n + 1 -> Rows] :
            /\ IsRootPath(path)
            /\ path[n + 1] = r
            /\ RowOutput(r) = CommittedState \o Branch(path)
<1> DEFINE e == EntryOf(ctl.prog, r)
<1>0. TypeOK /\ seq \in Nat /\ ctl.prog \in [Rows -> ProgramEntries(seq)]
  BY DEF SlotInv, TypeOK, CtlType, Rows
<1>1. e \in Rows /\ ctl.prog[e].row = r
  BY <1>0 DEF SlotInv, ProgramComplete, EntryOf
<1>2. e \in 0 .. seq
  BY <1>0, <1>1 DEF Rows
<1> HIDE DEF e
<1>3. PICK n \in Nat : \E path \in [1 .. n -> Rows] :
            /\ IsRootPath(path)
            /\ Top(n, path) = LastCommit(ctl.prog, e)
            /\ Running(e) = CommittedState \o Branch(path)
  BY <1>0, <1>2, RunningOfPath
<1>4. PICK path \in [1 .. n -> Rows] :
            /\ IsRootPath(path)
            /\ Top(n, path) = LastCommit(ctl.prog, e)
            /\ Running(e) = CommittedState \o Branch(path)
  BY <1>3
<1>5. ctl.parent[r] = Top(n, path)
  BY <1>1, <1>4 DEF ParentsFollowProgram
<1> DEFINE longer == Longer(n, path, r)
<1>6. longer \in [1 .. n + 1 -> Rows] /\ IsRootPath(longer) /\ longer[n + 1] = r
  <2>1. longer \in [1 .. n + 1 -> Rows] /\ IsRootPath(longer)
    BY <1>0, <1>4, <1>5, LongerPath
  <2>2. longer[n + 1] = r
    BY DEF Longer
  <2> QED BY <2>1, <2>2
<1>7. RowOutput(r) = Append(CommittedState \o Branch(path), Current(r))
  BY <1>4 DEF RowOutput, e
<1>8. Append(CommittedState \o Branch(path), Current(r)) = CommittedState \o Branch(longer)
  BY <1>0, LongerBranch
<1> HIDE DEF longer
<1> QED BY <1>6, <1>7, <1>8

-----------------------------------------------------------------------------
(* PlainRunInv is inductive, given SlotInv and WindowMatchesState. *)

\* What is accepted at first, and after the steps that commit nothing.
LEMMA InitAccepted ==
  ASSUME Init
  PROVE  Accepted = <<>>
<1>1. [i \in 1 .. 0 |-> Replayed(ctl.slot[i - 1])] = <<>>
  OBVIOUS
<1>2. <<>> \o <<>> = <<>>
  OBVIOUS
<1>3. pc = "propose" /\ state = <<>> /\ ctl.pending = 0
  BY DEF Init
<1> QED BY <1>1, <1>2, <1>3 DEF Accepted, CommittedState

LEMMA ProposeAccepted ==
  ASSUME SlotInv, Propose
  PROVE  Accepted' = Accepted
<1>1. pc = "propose" /\ pc' = "conv"
      /\ UNCHANGED <<state, proj_buf, qkv_buf, gates_buf, sumsq_buf>>
  BY DEF Propose, buffers
<1>2. ctl'.pending = ctl.pending /\ ctl'.parity = ctl.parity /\ ctl'.slot = ctl.slot
  BY DEF Propose, SlotInv, TypeOK, CtlType
<1>3. \A s : Replayed(s)' = Replayed(s)
  BY <1>1, <1>2 DEF Replayed, par
<1>4. CommittedState' = CommittedState
  BY <1>1, <1>2, <1>3 DEF CommittedState
<1> QED BY <1>1, <1>4 DEF Accepted

LEMMA RerunAccepted ==
  ASSUME SlotInv, Rerun
  PROVE  Accepted' = Accepted
<1>1. pc = "verify" /\ pc' = "conv" /\ ctl.pending = 0 /\ UNCHANGED <<state, ctl>>
  BY DEF Rerun
<1>2. [i \in 1 .. 0 |-> Replayed(ctl.slot[i - 1])'] = <<>>
  OBVIOUS
<1>3. state \o <<>> = state
  BY DEF SlotInv, TypeOK
<1>4. CommittedState' = state
  BY <1>1, <1>2, <1>3 DEF CommittedState
<1> QED BY <1>1, <1>4 DEF Accepted

LEMMA InitPlainRun == Init => PlainRunInv
<1> SUFFICES ASSUME Init
             PROVE  PlainRunInv
  OBVIOUS
<1>1. pc = "propose" /\ out = <<>> /\ state = <<>> /\ ctl.pending = 0 /\ seq = 0
  BY DEF Init
<1>2. Accepted = <<>>
  BY InitAccepted
<1>3. EntryInContext(<<>>)
  BY DEF EntryInContext
<1> QED BY <1>1, <1>2, <1>3 DEF PlainRunInv, CommitMatchesPlainRun, OutputsMatchPlainRun,
                                RowsConvolved, ParentsFollowProgram, Rows

\* The parts of the invariant that steps leave alone.
LEMMA AcceptedKept ==
  ASSUME CommitMatchesPlainRun, Accepted' = Accepted
  PROVE  CommitMatchesPlainRun'
  BY DEF CommitMatchesPlainRun, EntryInContext, History, Gates

LEMMA OutputsKept ==
  ASSUME OutputsMatchPlainRun, out' = out
  PROVE  OutputsMatchPlainRun'
<1>1. \A r : EntryInContext(out[r])' = EntryInContext(out'[r])
  BY DEF EntryInContext, History, Gates
<1> QED BY <1>1 DEF OutputsMatchPlainRun

LEMMA ParentsKept ==
  ASSUME ParentsFollowProgram, ctl'.prog = ctl.prog, ctl'.parent = ctl.parent, seq' = seq
  PROVE  ParentsFollowProgram'
<1>1. \A e : LastCommit(ctl.prog, e)' = LastCommit(ctl'.prog, e)
  BY DEF LastCommit
<1>2. Rows' = Rows
  BY DEF Rows
<1> QED BY <1>1, <1>2 DEF ParentsFollowProgram

LEMMA ConvolvedKept ==
  ASSUME RowsConvolved, pc \in {"decode", "verify"},
         UNCHANGED <<conv_state, qkv_buf, ctl, seq, step>>
  PROVE  RowsConvolved'
<1>1. \A r : Taps(r, conv_state)' = Taps(r, conv_state)
  BY DEF Taps, Ancestor
<1>2. Rows' = Rows /\ par' = par
  BY DEF Rows, par
<1> QED BY <1>1, <1>2 DEF RowsConvolved

\* One lemma for each action.
LEMMA ProposePlainRun == SlotInv /\ PlainRunInv /\ Propose => PlainRunInv'
<1> SUFFICES ASSUME SlotInv, PlainRunInv, Propose
             PROVE  PlainRunInv'
  OBVIOUS
<1>1. pc = "propose" /\ pc' = "conv" /\ out' = <<>>
      /\ UNCHANGED <<conv_state, state, proj_buf, qkv_buf, gates_buf, sumsq_buf>>
  BY DEF Propose, buffers
<1>2. PICK n \in StepSizes : \E prog \in Programs(n) :
         seq' = n /\ ctl' = [ctl EXCEPT !.prog = prog, !.parent = ParentsOf(prog)]
  BY DEF Propose
<1>3. PICK prog \in Programs(n) :
         seq' = n /\ ctl' = [ctl EXCEPT !.prog = prog, !.parent = ParentsOf(prog)]
  BY <1>2
<1>4. ctl'.pending = ctl.pending /\ ctl'.parity = ctl.parity /\ ctl'.slot = ctl.slot
      /\ ctl'.prog = prog /\ ctl'.parent = ParentsOf(prog)
  BY <1>3 DEF SlotInv, TypeOK, CtlType
<1>5. CommitMatchesPlainRun'
  BY ProposeAccepted, AcceptedKept DEF PlainRunInv
<1>6. OutputsMatchPlainRun' /\ RowsConvolved'
  BY <1>1 DEF OutputsMatchPlainRun, RowsConvolved
<1>7. ParentsFollowProgram'
  <2>1. n \in Nat
    OBVIOUS
  <2>2. \A e \in 0 .. n - 1 : ParentsOf(prog)[prog[e].row] = LastCommit(prog, e)
    BY <2>1, ParentsOfProgram
  <2>3. Rows' = 0 .. n - 1
    BY <1>3 DEF Rows
  <2>4. \A e : LastCommit(ctl.prog, e)' = LastCommit(ctl'.prog, e)
    BY DEF LastCommit
  <2> QED BY <1>4, <2>2, <2>3, <2>4 DEF ParentsFollowProgram
<1> QED BY <1>5, <1>6, <1>7 DEF PlainRunInv

LEMMA ConvPlainRun == SlotInv /\ PlainRunInv /\ ConvStep => PlainRunInv'
<1> SUFFICES ASSUME SlotInv, PlainRunInv, ConvStep
             PROVE  PlainRunInv'
  OBVIOUS
<1>1. pc = "conv" /\ pc' = "decode" /\ conv_state' = CommittedWindow
      /\ UNCHANGED <<state, gates_buf, sumsq_buf, ctl, seq, out, step>>
  BY DEF ConvStep
<1>2. TypeOK /\ seq \in 0 .. SlotMax /\ par \in Parity /\ par' = par
  BY <1>1, ParityFacts DEF SlotInv, TypeOK, par
<1>3. CommitMatchesPlainRun'
  <2>1. Accepted = CommittedState /\ Accepted' = CommittedState
    BY <1>1, ConvKeepsCommitted DEF Accepted
  <2> QED BY <2>1, AcceptedKept DEF PlainRunInv
<1>4. OutputsMatchPlainRun'
  BY <1>1, OutputsKept DEF PlainRunInv
<1>5. RowsConvolved'
  <2> DEFINE taps == [r \in Rows |-> Taps(r, CommittedWindow)]
  <2>1. \A r \in Rows : taps[r] \in ConvOutputs
    <3> HIDE DEF CommittedWindow
    <3> QED BY <1>1, <1>2, CommittedWindowType, TapsType
  <2>2. PICK portable \in Paths :
          qkv_buf' = [qkv_buf EXCEPT ![par] = Stored(qkv_buf[par], taps, portable)]
    BY DEF ConvStep
  <2>3. portable \in BOOLEAN /\ qkv_buf[par] \in [Slots -> ConvOutputs \cup Blank]
    BY <1>2, <2>2 DEF TypeOK
  <2> DEFINE qkv == Stored(qkv_buf[par], taps, portable)
  <2>4. \A r \in Rows : qkv[r] = taps[r]
    <3> HIDE DEF taps
    <3> QED BY <1>2, <2>1, <2>3, StoredRows
  <2>5. qkv_buf'[par'] = qkv
    BY <1>2, <2>2 DEF TypeOK
  <2> HIDE DEF qkv
  <2>6. \A r \in Rows : Taps(r, conv_state)' = Taps(r, CommittedWindow)
    BY <1>1 DEF Taps, Ancestor
  <2>7. Rows' = Rows
    BY <1>1 DEF Rows
  <2> QED BY <2>4, <2>5, <2>6, <2>7 DEF RowsConvolved
<1>6. ParentsFollowProgram'
  BY <1>1, ParentsKept DEF PlainRunInv
<1> QED BY <1>3, <1>4, <1>5, <1>6 DEF PlainRunInv

LEMMA DecodePlainRun ==
  SlotInv /\ WindowMatchesState /\ PlainRunInv /\ DecodeStep => PlainRunInv'
<1> SUFFICES ASSUME SlotInv, WindowMatchesState, PlainRunInv, DecodeStep
             PROVE  PlainRunInv'
  OBVIOUS
<1>1. pc = "decode" /\ pc' = "verify" /\ state' = CommittedState
      /\ out' = [r \in Rows |-> RowOutput(r)]
      /\ UNCHANGED <<conv_state, proj_buf, qkv_buf, ctl, seq, step>>
  BY DEF DecodeStep
<1>2. TypeOK /\ CommittedState \in Seq(Entries)
  BY <1>1, CommittedStateType DEF SlotInv
<1>3. Convolved /\ ParentsFollowProgram
  BY <1>1 DEF PlainRunInv, RowsConvolved, Convolved
<1>4. EntryInContext(CommittedState) /\ conv_state = Last(Window, History(CommittedState))
  BY <1>1 DEF PlainRunInv, CommitMatchesPlainRun, Accepted, WindowMatchesState
<1>5. CommitMatchesPlainRun'
  BY <1>1, <1>4 DEF CommitMatchesPlainRun, Accepted, EntryInContext, History, Gates
<1>6. OutputsMatchPlainRun'
  <2>1. ASSUME NEW r \in Rows
        PROVE  EntryInContext(RowOutput(r))
    <3>1. PICK n \in Nat : \E path \in [1 .. n + 1 -> Rows] :
            /\ IsRootPath(path)
            /\ path[n + 1] = r
            /\ RowOutput(r) = CommittedState \o Branch(path)
      BY <1>1, <1>2, <1>3, RowOutputOfPath
    <3>2. PICK path \in [1 .. n + 1 -> Rows] :
            IsRootPath(path) /\ RowOutput(r) = CommittedState \o Branch(path)
      BY <3>1
    <3>3. n + 1 \in Nat
      OBVIOUS
    <3>4. EntryInContext(CommittedState \o Branch(path))
      BY <1>2, <1>3, <1>4, <3>2, <3>3, PathInContext
    <3> QED BY <3>2, <3>4
  <2>2. \A r \in DOMAIN out' : EntryInContext(out'[r])
    <3> HIDE DEF RowOutput
    <3> QED BY <1>1, <2>1
  <2> QED BY <2>2 DEF OutputsMatchPlainRun, EntryInContext, History, Gates
<1>7. RowsConvolved' /\ ParentsFollowProgram'
  BY <1>1, ConvolvedKept, ParentsKept DEF PlainRunInv
<1> QED BY <1>5, <1>6, <1>7 DEF PlainRunInv

\* What the verifier accepts is the state the next step replays to.
LEMMA AcceptedBranch ==
  ASSUME SlotInv, pc = "verify", NEW n \in 0 .. seq, NEW path \in [1 .. n -> Rows],
         UNCHANGED <<state, proj_buf, qkv_buf, gates_buf, sumsq_buf>>,
         ctl' = [ctl EXCEPT !.pending = n,
                            !.slot = [s \in Slots |-> IF s < n THEN path[s + 1] ELSE 0],
                            !.parity = 1 - @]
  PROVE  CommittedState' = state \o Branch(path)
<1>1. TypeOK /\ seq \in 0 .. SlotMax /\ n \in Nat /\ n <= SlotMax
      /\ par \in Parity /\ 1 - par \in Parity
  BY ParityFacts DEF SlotInv, TypeOK
<1> DEFINE slot == [s \in Slots |-> IF s < n THEN path[s + 1] ELSE 0]
<1>2. ctl'.pending = n /\ ctl'.slot = slot /\ par' = 1 - par /\ 1 - par' = par
  BY <1>1 DEF TypeOK, CtlType, par, Parity
<1>3. ASSUME NEW i \in 1 .. n
      PROVE  Replayed(ctl.slot[i - 1])' = Current(path[i])
  <2>1. i - 1 \in Slots /\ i - 1 < n /\ (i - 1) + 1 = i
    BY <1>1 DEF Slots
  <2>2. slot[i - 1] = path[i]
    BY <2>1
  <2>3. path[i] \in Rows
    OBVIOUS
  <2>4. HoldsGates(par, path[i], <<step, path[i]>>)
    BY <2>3 DEF SlotInv, RowsWritten
  <2> HIDE DEF slot
  <2> QED BY <1>2, <2>2, <2>4 DEF Replayed, Current, Entry, HoldsGates
<1> HIDE DEF slot
<1>4. Branch(path) = [i \in 1 .. n |-> Current(path[i])]
  BY DEF Branch
<1>5. CommittedState' = state' \o [i \in 1 .. n |-> Replayed(ctl.slot[i - 1])']
  BY <1>2 DEF CommittedState
<1> QED BY <1>3, <1>4, <1>5

\* The verifier moves rows of the step into what is accepted.
LEMMA VerifyPlainRun ==
  SlotInv /\ WindowMatchesState /\ PlainRunInv /\ Verify => PlainRunInv'
<1> SUFFICES ASSUME SlotInv, WindowMatchesState, PlainRunInv, Verify
             PROVE  PlainRunInv'
  OBVIOUS
<1>1. pc = "verify" /\ pc' = "propose" /\ out' = <<>>
      /\ UNCHANGED <<conv_state, state, proj_buf, qkv_buf, gates_buf, sumsq_buf, seq, step>>
  BY DEF Verify, buffers
<1>2. PICK n \in 0 .. seq : \E path \in [1 .. n -> Rows] :
        /\ IsRootPath(path)
        /\ ctl' = [ctl EXCEPT !.pending = n,
                              !.slot = [s \in Slots |-> IF s < n THEN path[s + 1] ELSE 0],
                              !.parity = 1 - @]
  BY DEF Verify
<1>3. PICK path \in [1 .. n -> Rows] :
        /\ IsRootPath(path)
        /\ ctl' = [ctl EXCEPT !.pending = n,
                              !.slot = [s \in Slots |-> IF s < n THEN path[s + 1] ELSE 0],
                              !.parity = 1 - @]
  BY <1>2
<1>4. TypeOK /\ n \in Nat /\ state \in Seq(Entries)
  BY DEF SlotInv, TypeOK
<1>5. Convolved
  BY <1>1 DEF PlainRunInv, RowsConvolved, Convolved
<1>6. EntryInContext(state) /\ conv_state = Last(Window, History(state))
  BY <1>1 DEF PlainRunInv, CommitMatchesPlainRun, Accepted, WindowMatchesState
<1>7. EntryInContext(state \o Branch(path))
  BY <1>3, <1>4, <1>5, <1>6, PathInContext
<1>8. CommittedState' = state \o Branch(path)
  BY <1>1, <1>3, AcceptedBranch
<1>9. CommitMatchesPlainRun'
  <2> DEFINE all == state \o Branch(path)
  <2>1. Accepted' = all
    BY <1>1, <1>8 DEF Accepted
  <2> HIDE DEF all
  <2>2. EntryInContext(all)
    BY <1>7 DEF all
  <2> QED BY <2>1, <2>2 DEF CommitMatchesPlainRun, EntryInContext, History, Gates
<1>10. OutputsMatchPlainRun' /\ RowsConvolved'
  BY <1>1 DEF OutputsMatchPlainRun, RowsConvolved
<1>11. ctl'.prog = ctl.prog /\ ctl'.parent = ctl.parent
  BY <1>3, <1>4 DEF TypeOK, CtlType
<1>12. ParentsFollowProgram'
  BY <1>1, <1>11, ParentsKept DEF PlainRunInv
<1> QED BY <1>9, <1>10, <1>12 DEF PlainRunInv

LEMMA RerunPlainRun == SlotInv /\ PlainRunInv /\ (Rerun \/ UNCHANGED vars) => PlainRunInv'
<1>1. ASSUME SlotInv, PlainRunInv, Rerun
      PROVE  PlainRunInv'
  <2>1. pc = "verify" /\ pc' = "conv" /\ ctl.pending = 0
        /\ UNCHANGED <<conv_state, state, proj_buf, qkv_buf, gates_buf, sumsq_buf, ctl, seq, out, step>>
    BY <1>1 DEF Rerun, buffers
  <2>4. CommitMatchesPlainRun'
    BY <1>1, RerunAccepted, AcceptedKept DEF PlainRunInv
  <2>5. OutputsMatchPlainRun' /\ ParentsFollowProgram'
    BY <1>1, <2>1, OutputsKept, ParentsKept DEF PlainRunInv
  <2>6. RowsConvolved'
    BY <2>1 DEF RowsConvolved
  <2> QED BY <2>4, <2>5, <2>6 DEF PlainRunInv
<1>2. ASSUME SlotInv, PlainRunInv, UNCHANGED vars
      PROVE  PlainRunInv'
  <2>1. Accepted' = Accepted
    BY <1>2 DEF vars, Accepted, CommittedState, Replayed, par
  <2>2. CommitMatchesPlainRun'
    BY <1>2, <2>1, AcceptedKept DEF PlainRunInv
  <2>3. OutputsMatchPlainRun' /\ ParentsFollowProgram'
    BY <1>2, OutputsKept, ParentsKept DEF PlainRunInv, vars
  <2>4. RowsConvolved'
    <3>1. CASE pc \in {"decode", "verify"}
      BY <1>2, <3>1, ConvolvedKept DEF PlainRunInv, vars
    <3>2. CASE pc \notin {"decode", "verify"}
      BY <1>2, <3>2 DEF RowsConvolved, vars
    <3> QED BY <3>1, <3>2
  <2> QED BY <2>2, <2>3, <2>4 DEF PlainRunInv
<1> QED BY <1>1, <1>2

\* All together.
LEMMA PlainRunInvariant == Spec => []PlainRunInv
<1>1. SlotInv /\ WindowMatchesState /\ PlainRunInv /\ [Next]_vars => PlainRunInv'
  BY ProposePlainRun, ConvPlainRun, DecodePlainRun, VerifyPlainRun, RerunPlainRun DEF Next
<1> QED BY <1>1, InitPlainRun, SlotInvariant, WindowFollowsState, PTL DEF Spec

\* Every entry committed to the recurrent state was folded from the projection,
\* gates and taps of an accepted token in its own committed context: the two
\* calls compute what a run of the accepted tokens alone would.
THEOREM CommitsPlainRun == Spec => []CommitMatchesPlainRun
<1>1. PlainRunInv => CommitMatchesPlainRun
  BY DEF PlainRunInv
<1> QED BY <1>1, PlainRunInvariant, PTL

\* The output of a row never depends on a row beside it in the step.
THEOREM OutputsPlainRun == Spec => []OutputsMatchPlainRun
<1>1. PlainRunInv => OutputsMatchPlainRun
  BY DEF PlainRunInv
<1> QED BY <1>1, PlainRunInvariant, PTL

-----------------------------------------------------------------------------
(* The loop without buffers. *)

\* The rows of a step form a forest, and verification sees all outputs.
LEMMA ForestInvariant == Spec => []ForestInv
<1>1. Init => ForestInv
  BY DEF Init, ForestInv, Rows
<1>2. SlotInv /\ ForestInv /\ [Next]_vars => ForestInv'
  <2> SUFFICES ASSUME SlotInv, ForestInv, [Next]_vars
               PROVE  ForestInv'
    OBVIOUS
  <2>1. ASSUME Propose
        PROVE  ForestInv'
    <3>1. pc' = "conv"
      BY <2>1 DEF Propose
    <3>2. PICK n \in StepSizes : \E prog \in Programs(n) :
             seq' = n /\ ctl' = [ctl EXCEPT !.prog = prog, !.parent = ParentsOf(prog)]
      BY <2>1 DEF Propose
    <3>3. PICK prog \in Programs(n) :
             seq' = n /\ ctl' = [ctl EXCEPT !.prog = prog, !.parent = ParentsOf(prog)]
      BY <3>2
    <3>4. n \in 1 .. SlotMax
      OBVIOUS
    <3>5. ctl'.parent = ParentsOf(prog)
      BY <3>3 DEF SlotInv, TypeOK, CtlType
    <3>6. \A r \in 0 .. n - 1 : ParentsOf(prog)[r] < r
      BY <3>4, ProgramParents
    <3> QED BY <3>1, <3>3, <3>4, <3>5, <3>6 DEF ForestInv, Rows
  <2>2. ASSUME ConvStep
        PROVE  ForestInv'
    BY <2>2 DEF ConvStep, ForestInv, Rows
  <2>3. ASSUME DecodeStep
        PROVE  ForestInv'
    <3>1. pc = "decode" /\ UNCHANGED <<ctl, seq>> /\ DOMAIN out' = Rows
      BY <2>3 DEF DecodeStep
    <3> QED BY <3>1 DEF ForestInv, Rows
  <2>4. ASSUME Verify
        PROVE  ForestInv'
    <3>1. pc = "verify" /\ pc' = "propose" /\ seq' = seq
      BY <2>4 DEF Verify
    <3>2. ctl'.parent = ctl.parent
      BY <2>4 DEF Verify, SlotInv, TypeOK, CtlType
    <3> QED BY <3>1, <3>2 DEF ForestInv, Rows
  <2>5. ASSUME Rerun
        PROVE  ForestInv'
    BY <2>5 DEF Rerun, ForestInv, Rows
  <2>6. ASSUME UNCHANGED vars
        PROVE  ForestInv'
    BY <2>6 DEF vars, ForestInv, Rows
  <2> QED BY <2>1, <2>2, <2>3, <2>4, <2>5, <2>6 DEF Next
<1> QED BY <1>1, <1>2, SlotInvariant, PTL DEF Spec

\* A root path has at most one row of each index.
LEMMA PathHeight ==
  ASSUME TypeOK, ForestInv, NEW n \in Nat, NEW path \in [1 .. n -> Rows], IsRootPath(path)
  PROVE  n <= SlotMax
<1>1. seq \in Nat /\ seq <= SlotMax /\ ctl.parent \in [Rows -> -1 .. seq - 2]
  BY DEF TypeOK, CtlType, Rows
<1>2. CASE n = 0
  BY <1>2
<1>3. CASE n # 0
  <2> DEFINE T == {k \in 0 .. n - 1 : path[k + 1] >= k}
  <2>1. 0 \in T
    <3>1. path[1] \in Rows
      BY <1>3
    <3> QED BY <1>3, <3>1 DEF Rows
  <2>2. ASSUME NEW k \in 0 .. (n - 1) - 1, k \in T
        PROVE  k + 1 \in T
    <3>1. k + 1 \in 1 .. n /\ k + 2 \in 1 .. n /\ k + 2 \in DOMAIN path /\ k + 1 \in 0 .. n - 1
          /\ k + 2 # 1 /\ (k + 2) - 1 = k + 1 /\ (k + 1) + 1 = k + 2
      BY <1>3
    <3>2. ctl.parent[path[k + 2]] = path[k + 1]
      BY <3>1 DEF IsRootPath
    <3>3. path[k + 1] \in Rows /\ path[k + 2] \in Rows
      BY <3>1
    <3>4. path[k + 1] < path[k + 2]
      BY <3>2, <3>3 DEF ForestInv
    <3>5. path[k + 1] >= k
      BY <2>2
    <3> QED BY <3>1, <3>3, <3>4, <3>5 DEF Rows
  <2>3. 0 .. n - 1 \subseteq T
    <3> HIDE DEF T
    <3> QED BY <1>3, <2>1, <2>2, SetInduction
  <2>4. n - 1 \in T
    BY <1>3, <2>3
  <2>5. path[n] >= n - 1 /\ path[n] \in Rows
    BY <1>3, <2>4
  <2> QED BY <1>1, <2>5 DEF Rows
<1> QED BY <1>2, <1>3

\* The path down to the last row of a root path is that path.
LEMMA PathToOfPath ==
  ASSUME TypeOK, NEW n \in Nat, n <= SlotMax, NEW path \in [1 .. n -> Rows], IsRootPath(path)
  PROVE  Loop!PathTo(ctl.parent, Top(n, path)) = path
<1> DEFINE up == Walk(ctl.parent, Top(n, path), SlotMax)
           Leaves(k) == up[k] = -1 /\ \A f \in 0 .. k - 1 : up[f] # -1
           depth == CHOOSE k \in 0 .. SlotMax : Leaves(k)
<1>1. Loop!PathTo(ctl.parent, Top(n, path)) = [i \in 1 .. depth |-> up[depth - i]]
  BY DEF Loop!PathTo, Walk
<1>2. /\ \A d \in 0 .. SlotMax : d < n => up[d] = path[n - d]
      /\ up[n] = -1
  <2>1. seq \in Nat /\ ctl.parent \in Parents(seq) /\ path \in RootPaths(ctl.parent, seq, n)
    BY RootPathIn
  <2>2. CASE n = 0
    <3>1. Top(n, path) = -1 /\ -1 \in -1 .. seq - 1
      BY <2>1, <2>2 DEF Top
    <3>2. IsWalk(Walk(ctl.parent, -1, SlotMax), ctl.parent, -1, SlotMax, seq)
      BY <2>1, <3>1, WalkType
    <3> QED BY <2>2, <3>1, <3>2 DEF IsWalk
  <2>3. CASE n # 0
    <3>1. Top(n, path) = path[n] /\ n \in 1 .. n
      BY <2>3 DEF Top
    <3>2. Climbs(Walk(ctl.parent, path[n], SlotMax), path, n, SlotMax)
      BY <2>1, <3>1, WalkOfPath
    <3> QED BY <3>1, <3>2 DEF Climbs
  <2> QED BY <2>2, <2>3
<1> HIDE DEF up
<1>3. \A k \in 1 .. n : path[k] # -1
  BY DEF Rows
<1>4. depth = n
  <2>1. n \in 0 .. SlotMax /\ Leaves(n)
    <3>1. \A f \in 0 .. n - 1 : f \in 0 .. SlotMax /\ f < n /\ n - f \in 1 .. n
      OBVIOUS
    <3> QED BY <1>2, <1>3, <3>1
  <2>2. ASSUME NEW k \in 0 .. SlotMax, Leaves(k)
        PROVE  k = n
    <3>1. k < n => n - k \in 1 .. n
      OBVIOUS
    <3>2. ~(k < n)
      BY <1>2, <1>3, <2>2, <3>1
    <3>3. ~(n < k)
      BY <1>2, <2>2
    <3> QED BY <3>2, <3>3
  <2> HIDE DEF Leaves
  <2> QED BY <2>1, <2>2
<1> HIDE DEF depth
<1>5. \A i \in 1 .. n : up[n - i] = path[i]
  <2> TAKE i \in 1 .. n
  <2>1. n - i \in 0 .. SlotMax /\ n - i < n /\ n - (n - i) = i
    OBVIOUS
  <2> QED BY <1>2, <2>1
<1>6. path = [i \in 1 .. n |-> path[i]]
  OBVIOUS
<1> QED BY <1>1, <1>4, <1>5, <1>6

\* The elements of two sequences in a row.
IsConcat(c, a, b) ==
  c = [k \in 1 .. Len(a) + Len(b) |-> IF k <= Len(a) THEN a[k] ELSE b[k - Len(a)]]

LEMMA ConcatAt ==
  ASSUME NEW V, NEW a \in Seq(V), NEW b \in Seq(V)
  PROVE  IsConcat(a \o b, a, b)
<1>1. a \o b \in Seq(V) /\ Len(a \o b) = Len(a) + Len(b)
  OBVIOUS
<1>2. \A k \in 1 .. Len(a) + Len(b) : (a \o b)[k] = IF k <= Len(a) THEN a[k] ELSE b[k - Len(a)]
  OBVIOUS
<1> DEFINE c == a \o b
<1>3. c = [k \in 1 .. Len(a) + Len(b) |-> c[k]]
  <2>1. c \in Seq(V) /\ Len(c) = Len(a) + Len(b)
    BY <1>1
  <2> HIDE DEF c
  <2>2. DOMAIN c = 1 .. Len(a) + Len(b) /\ c = [k \in DOMAIN c |-> c[k]]
    BY <2>1
  <2> QED BY <2>2
<1>4. \A k \in 1 .. Len(a) + Len(b) : c[k] = IF k <= Len(a) THEN a[k] ELSE b[k - Len(a)]
  BY <1>2
<1> HIDE DEF c
<1>5. c = [k \in 1 .. Len(a) + Len(b) |-> IF k <= Len(a) THEN a[k] ELSE b[k - Len(a)]]
  BY <1>3, <1>4
<1> QED BY <1>5 DEF c, IsConcat

\* The tokens of a state and a path after it.
LEMMA GatesOfBranch ==
  ASSUME TypeOK, Convolved, NEW base \in Seq(Entries), NEW n \in Nat,
         NEW path \in [1 .. n -> Rows]
  PROVE  Gates(base \o Branch(path)) = Gates(base) \o Loop!Tokens(path, step)
<1> DEFINE all == base \o Branch(path)
           L == Len(base)
           V == {<<step, r>> : r \in Rows} \cup {base[k].gate : k \in 1 .. L}
           new == Loop!Tokens(path, step)
           old == Gates(base)
<1>1. /\ all \in Seq(Entries) /\ Len(all) = L + n
      /\ \A k \in 1 .. L : all[k] = base[k]
      /\ \A i \in 1 .. n : all[L + i] = Current(path[i])
  BY BranchAt
<1>2. L \in Nat
  OBVIOUS
<1>3. new = [i \in 1 .. n |-> <<step, path[i]>>]
  BY DEF Loop!Tokens
<1>4. new \in Seq(V) /\ Len(new) = n
  <2>1. new \in [1 .. n -> V]
    BY <1>3
  <2> HIDE DEF new, V
  <2> QED BY <2>1
<1>5. old \in Seq(V) /\ Len(old) = L /\ \A k \in 1 .. L : old[k] = base[k].gate
  <2>1. old = [k \in 1 .. L |-> base[k].gate]
    BY DEF Gates
  <2>2. old \in [1 .. L -> V]
    BY <2>1
  <2> HIDE DEF old, V, L
  <2> QED BY <1>2, <2>1, <2>2
<1> HIDE DEF new, V, old
<1>6. Gates(all) = [k \in 1 .. L + n |-> all[k].gate]
  <2>1. DOMAIN all = 1 .. L + n
    BY <1>1
  <2> QED BY <2>1 DEF Gates
<1> HIDE DEF all
<1>7. old \o new = [k \in 1 .. L + n |-> IF k <= L THEN old[k] ELSE new[k - L]]
  <2> HIDE DEF L
  <2>1. old \o new = [k \in 1 .. Len(old) + Len(new) |->
                       IF k <= Len(old) THEN old[k] ELSE new[k - Len(old)]]
    <3>1. old \in Seq(V) /\ new \in Seq(V)
      BY <1>4, <1>5
    <3>2. IsConcat(old \o new, old, new)
      BY <3>1, ConcatAt
    <3> QED BY <3>2 DEF IsConcat
  <2> QED BY <1>4, <1>5, <2>1
<1>8. ASSUME NEW k \in 1 .. L + n
      PROVE  all[k].gate = IF k <= L THEN old[k] ELSE new[k - L]
  <2>1. CASE k <= L
    BY <1>1, <1>2, <1>5, <2>1
  <2>2. CASE ~(k <= L)
    <3> DEFINE i == k - L
    <3>1. i \in 1 .. n /\ L + i = k
      BY <1>2, <2>2
    <3> HIDE DEF i
    <3>2. all[k] = Current(path[i])
      BY <1>1, <3>1
    <3>3. all[k].gate = <<step, path[i]>>
      BY <3>2 DEF Current, Entry
    <3>4. new[i] = <<step, path[i]>>
      BY <1>3, <3>1
    <3> QED BY <2>2, <3>3, <3>4 DEF i
  <2> QED BY <2>1, <2>2
<1> HIDE DEF L
<1>9. Gates(all) = old \o new
  BY <1>6, <1>7, <1>8
<1> QED BY <1>9 DEF all, old, new

-----------------------------------------------------------------------------
(* Every step of the deferred calls is a step of the loop or a stutter. *)

\* What the loop sees of a state.
Committed == Gates(Accepted)
Tree == IF pc = "propose" THEN <<>> ELSE ctl.parent
Outputs == IF out = <<>> THEN <<>> ELSE [r \in DOMAIN out |-> Gates(out[r])]

\* The loop sees no change when nothing was accepted or scored.
LEMMA GatesKept ==
  ASSUME Accepted' = Accepted
  PROVE  Committed' = Committed
  BY DEF Committed, Gates

LEMMA OutputsStill ==
  ASSUME out' = out
  PROVE  Outputs' = Outputs
<1>1. \A r : Gates(out[r])' = Gates(out'[r])
  BY DEF Gates
<1> QED BY <1>1 DEF Outputs

\* The conv call and a rerun are steps the loop does not see.
LEMMA StutterSteps ==
  ASSUME SlotInv, ConvStep \/ Rerun \/ UNCHANGED vars
  PROVE  UNCHANGED <<Committed, Tree, Outputs, step>>
<1>1. CASE ConvStep
  <2>1. pc = "conv" /\ pc' = "decode" /\ UNCHANGED <<ctl, out, step>>
    BY <1>1 DEF ConvStep
  <2>2. Accepted' = Accepted
    BY <1>1, <2>1, ConvKeepsCommitted DEF Accepted
  <2> QED BY <2>1, <2>2, GatesKept, OutputsStill DEF Tree
<1>2. CASE Rerun
  <2>1. pc = "verify" /\ pc' = "conv" /\ UNCHANGED <<ctl, out, step>>
    BY <1>2 DEF Rerun
  <2>2. Accepted' = Accepted
    BY <1>2, RerunAccepted
  <2> QED BY <2>1, <2>2, GatesKept, OutputsStill DEF Tree
<1>3. CASE UNCHANGED vars
  <2>1. Accepted' = Accepted
    BY <1>3 DEF vars, Accepted, CommittedState, Replayed, par
  <2> QED BY <1>3, <2>1, GatesKept, OutputsStill DEF Tree, vars
<1> QED BY <1>1, <1>2, <1>3

\* The rows proposed are a forest.
LEMMA ProposeIsAnyPropose == SlotInv /\ Propose => Loop!AnyPropose
<1> SUFFICES ASSUME SlotInv, Propose
             PROVE  Loop!AnyPropose
  OBVIOUS
<1>1. pc = "propose" /\ pc' = "conv" /\ out' = <<>> /\ step' = step + 1
  BY DEF Propose
<1>2. PICK n \in StepSizes : \E prog \in Programs(n) :
         seq' = n /\ ctl' = [ctl EXCEPT !.prog = prog, !.parent = ParentsOf(prog)]
  BY DEF Propose
<1>3. PICK prog \in Programs(n) :
         seq' = n /\ ctl' = [ctl EXCEPT !.prog = prog, !.parent = ParentsOf(prog)]
  BY <1>2
<1>4. n \in 1 .. SlotMax
  OBVIOUS
<1>5. Tree' = ParentsOf(prog)
  BY <1>1, <1>3 DEF Tree, SlotInv, TypeOK, CtlType
<1>6. Tree' \in Loop!Forests
  <2>1. /\ ParentsOf(prog) \in [0 .. n - 1 -> -1 .. n - 2]
        /\ \A r \in 0 .. n - 1 : ParentsOf(prog)[r] < r
    BY <1>4, ProgramParents
  <2>2. \A r \in DOMAIN ParentsOf(prog) : ParentsOf(prog)[r] < r
    BY <2>1
  <2>3. ParentsOf(prog) \in {p \in [0 .. n - 1 -> -1 .. n - 2] : \A r \in DOMAIN p : p[r] < r}
    BY <2>1, <2>2
  <2> QED BY <1>4, <1>5, <2>3 DEF Loop!Forests
<1>7. Outputs' = <<>>
  BY <1>1 DEF Outputs
<1>8. Committed' = Committed
  BY <1>1, ProposeAccepted, GatesKept
<1> QED BY <1>1, <1>6, <1>7, <1>8 DEF Loop!AnyPropose, Committed, Tree, Outputs

\* The decode call scores every row on the path down to it.
LEMMA DecodeIsScore ==
  SlotInv /\ WindowMatchesState /\ PlainRunInv /\ ForestInv /\ DecodeStep => Loop!Score
<1> SUFFICES ASSUME SlotInv, WindowMatchesState, PlainRunInv, ForestInv, DecodeStep
             PROVE  Loop!Score
  OBVIOUS
<1>1. pc = "decode" /\ pc' = "verify" /\ state' = CommittedState
      /\ out' = [r \in Rows |-> RowOutput(r)]
      /\ UNCHANGED <<ctl, seq, step>>
  BY DEF DecodeStep
<1>2. TypeOK /\ CommittedState \in Seq(Entries) /\ 0 \in Rows
  <2>1. TypeOK /\ seq \in Nat /\ seq > 0
    BY <1>1 DEF SlotInv, TypeOK, ForestInv
  <2> QED BY <1>1, <2>1, CommittedStateType DEF SlotInv, Rows
<1>3. Convolved /\ ParentsFollowProgram
  BY <1>1 DEF PlainRunInv, RowsConvolved, Convolved
<1>4. Tree = ctl.parent /\ DOMAIN Tree = Rows /\ Tree # <<>> /\ Tree' = Tree
  <2>1. DOMAIN ctl.parent = Rows
    BY <1>2 DEF TypeOK, CtlType, Rows
  <2> QED BY <1>1, <1>2, <2>1 DEF Tree
<1>5. Committed = Gates(CommittedState) /\ Committed' = Committed
  <2>1. Accepted = CommittedState /\ Accepted' = Accepted
    BY <1>1 DEF Accepted
  <2> QED BY <2>1, GatesKept DEF Committed
<1>6. ASSUME NEW r \in Rows
      PROVE  Gates(RowOutput(r)) = Committed \o Loop!Tokens(Loop!PathTo(Tree, r), step)
  <2>1. PICK n \in Nat : \E path \in [1 .. n + 1 -> Rows] :
            /\ IsRootPath(path)
            /\ path[n + 1] = r
            /\ RowOutput(r) = CommittedState \o Branch(path)
    BY <1>1, <1>2, <1>3, RowOutputOfPath
  <2>2. PICK path \in [1 .. n + 1 -> Rows] :
            IsRootPath(path) /\ path[n + 1] = r /\ RowOutput(r) = CommittedState \o Branch(path)
    BY <2>1
  <2>3. n + 1 \in Nat /\ n + 1 # 0
    OBVIOUS
  <2>4. n + 1 <= SlotMax
    BY <1>2, <2>2, <2>3, PathHeight
  <2>5. Loop!PathTo(ctl.parent, Top(n + 1, path)) = path
    BY <1>2, <2>2, <2>3, <2>4, PathToOfPath
  <2>6. Top(n + 1, path) = r
    BY <2>2, <2>3 DEF Top
  <2>7. Gates(CommittedState \o Branch(path)) = Gates(CommittedState) \o Loop!Tokens(path, step)
    BY <1>2, <1>3, <2>3, GatesOfBranch
  <2> QED BY <1>4, <1>5, <2>2, <2>5, <2>6, <2>7
<1>7. Outputs' = [r \in Rows |-> Gates(RowOutput(r))]
  <2>1. out' # <<>> /\ DOMAIN out' = Rows
    BY <1>1, <1>2
  <2>2. \A r : Gates(out[r])' = Gates(out'[r])
    BY DEF Gates
  <2>3. Outputs' = [r \in Rows |-> Gates(out'[r])]
    BY <2>1, <2>2 DEF Outputs
  <2>4. \A r \in Rows : out'[r] = RowOutput(r)
    BY <1>1
  <2> QED BY <2>3, <2>4
<1>8. Outputs' = [r \in DOMAIN Tree |-> Committed \o Loop!Tokens(Loop!PathTo(Tree, r), step)]
  BY <1>4, <1>6, <1>7
<1> QED BY <1>1, <1>4, <1>5, <1>8 DEF Loop!Score, Committed, Tree, Outputs

\* The path the verifier takes is what the next step replays.
LEMMA VerifyIsAccept ==
  SlotInv /\ PlainRunInv /\ ForestInv /\ Verify => Loop!Accept
<1> SUFFICES ASSUME SlotInv, PlainRunInv, ForestInv, Verify
             PROVE  Loop!Accept
  OBVIOUS
<1>1. pc = "verify" /\ pc' = "propose" /\ out' = <<>>
      /\ UNCHANGED <<conv_state, state, proj_buf, qkv_buf, gates_buf, sumsq_buf, seq, step>>
  BY DEF Verify, buffers
<1>2. PICK n \in 0 .. seq : \E path \in [1 .. n -> Rows] :
        /\ IsRootPath(path)
        /\ ctl' = [ctl EXCEPT !.pending = n,
                              !.slot = [s \in Slots |-> IF s < n THEN path[s + 1] ELSE 0],
                              !.parity = 1 - @]
  BY DEF Verify
<1>3. PICK path \in [1 .. n -> Rows] :
        /\ IsRootPath(path)
        /\ ctl' = [ctl EXCEPT !.pending = n,
                              !.slot = [s \in Slots |-> IF s < n THEN path[s + 1] ELSE 0],
                              !.parity = 1 - @]
  BY <1>2
<1>4. TypeOK /\ n \in Nat /\ n <= SlotMax /\ state \in Seq(Entries) /\ 0 \in Rows
  <2>1. seq \in 0 .. SlotMax /\ seq > 0
    BY <1>1 DEF SlotInv, TypeOK, ForestInv
  <2> QED BY <2>1 DEF SlotInv, TypeOK, Rows
<1>5. Convolved
  BY <1>1 DEF PlainRunInv, RowsConvolved, Convolved
<1>6. Tree = ctl.parent /\ DOMAIN Tree = Rows /\ Tree' = <<>>
  BY <1>1, <1>4 DEF Tree, TypeOK, CtlType, Rows
<1>7. Outputs # <<>> /\ Outputs' = <<>>
  <2>1. DOMAIN out = Rows /\ 0 \in DOMAIN out
    BY <1>1, <1>4 DEF ForestInv
  <2>2. out # <<>>
    BY <2>1
  <2>3. DOMAIN Outputs = Rows
    BY <2>1, <2>2 DEF Outputs
  <2> QED BY <1>1, <1>4, <2>3 DEF Outputs
<1>8. Committed' = Committed \o Loop!Tokens(Loop!PathTo(Tree, Top(n, path)), step)
  <2>1. CommittedState' = state \o Branch(path)
    BY <1>1, <1>3, AcceptedBranch
  <2> DEFINE all == state \o Branch(path)
  <2>2. Accepted = state /\ Accepted' = all
    BY <1>1, <2>1 DEF Accepted
  <2>3. Gates(all) = Gates(state) \o Loop!Tokens(path, step)
    BY <1>4, <1>5, GatesOfBranch
  <2>4. Loop!PathTo(Tree, Top(n, path)) = path
    BY <1>3, <1>4, <1>6, PathToOfPath
  <2> HIDE DEF all
  <2>5. Committed' = Gates(all)
    BY <2>2 DEF Committed, Gates
  <2> QED BY <2>2, <2>3, <2>4, <2>5 DEF Committed
<1>9. Top(n, path) \in DOMAIN Tree \cup {-1}
  BY <1>4, <1>6 DEF Top
<1>10. \E r \in DOMAIN Tree \cup {-1} :
         Committed' = Committed \o Loop!Tokens(Loop!PathTo(Tree, r), step)
  BY <1>8, <1>9
<1> QED BY <1>1, <1>6, <1>7, <1>10 DEF Loop!Accept, Committed, Tree, Outputs

LEMMA InitIsInit == Init => Loop!AInit
<1> SUFFICES ASSUME Init
             PROVE  Loop!AInit
  OBVIOUS
<1>1. pc = "propose" /\ out = <<>> /\ step = 0
  BY DEF Init
<1>2. Committed = <<>>
  BY InitAccepted DEF Committed, Gates
<1>3. Tree = <<>> /\ Outputs = <<>>
  BY <1>1 DEF Tree, Outputs
<1> QED BY <1>1, <1>2, <1>3 DEF Loop!AInit, Committed, Tree, Outputs

\* The two calls, whatever paths, programs and acceptances the caller chooses,
\* implement the loop without buffers: each row is scored against the committed
\* tokens and its own ancestors, and acceptance appends one scored path.
THEOREM DeferredImplementsLoop == Spec => ImplementsVerifyLoop
<1>1. SlotInv /\ WindowMatchesState /\ PlainRunInv /\ ForestInv /\ [Next]_vars
        => [Loop!ANext]_(Loop!avars)
  <2> SUFFICES ASSUME SlotInv, WindowMatchesState, PlainRunInv, ForestInv, [Next]_vars
               PROVE  [Loop!ANext]_(Loop!avars)
    OBVIOUS
  <2>1. CASE Propose
    BY <2>1, ProposeIsAnyPropose DEF Loop!ANext
  <2>2. CASE DecodeStep
    BY <2>2, DecodeIsScore DEF Loop!ANext
  <2>3. CASE Verify
    BY <2>3, VerifyIsAccept DEF Loop!ANext
  <2>4. CASE ConvStep \/ Rerun \/ UNCHANGED vars
    BY <2>4, StutterSteps DEF Loop!avars, Committed, Tree, Outputs
  <2> QED BY <2>1, <2>2, <2>3, <2>4 DEF Next
<1> QED BY <1>1, InitIsInit, SlotInvariant, WindowFollowsState, PlainRunInvariant,
           ForestInvariant, PTL DEF Spec, ImplementsVerifyLoop, Loop!ASpec
=============================================================================
