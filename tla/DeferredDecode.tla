---------------------------- MODULE DeferredDecode ----------------------------
(***************************************************************************)
(* The deferred-commit DeltaNet decode (comfy_kitchen/gated_delta.py and    *)
(* its CUDA kernels).  A step of S rows never writes the recurrent state:   *)
(* its projections, conv outputs, gates and q/k norms go to side buffers    *)
(* double-buffered over the step parity, and the next step first commits    *)
(* the `pending` rows the verifier accepted.                                *)
(*                                                                          *)
(* Data abstraction.  A token is a pair <<step, row>>.  A projection is its *)
(* token; a conv output is the tuple of tokens under the taps, newest       *)
(* first; a gate is its token; a q/k norm is the conv output it was taken   *)
(* from.  The recurrence is kept free, so a recurrent state is the sequence *)
(* of the entries folded into it.  Tokens of the prefix before the first    *)
(* step are <<0, -1>>, <<0, -2>>, ...                                       *)
(***************************************************************************)
EXTENDS Integers, Sequences

CONSTANTS SlotMax,   \* SLOT_MAX: token slots of a side buffer
          Window,    \* committed conv window: taps - 1
          StepSizes, \* row counts a step may have
          Paths,     \* paths a call may take: TRUE is the torch one, FALSE the kernels
          MaxSteps   \* bound on the steps of a behaviour

ASSUME SlotMaxAssumption == SlotMax \in Nat \ {0}
ASSUME WindowAssumption == Window \in Nat \ {0}
ASSUME StepSizesAssumption == StepSizes \subseteq 1 .. SlotMax
ASSUME PathsAssumption == Paths \subseteq BOOLEAN
ASSUME MaxStepsAssumption == MaxSteps \in Nat

VARIABLES
  conv_state, \* committed conv window, oldest first
  state,      \* committed recurrent state
  proj_buf,   \* [parity -> [slot -> projection]]
  qkv_buf,    \* [parity -> [slot -> conv output]]
  gates_buf,  \* [parity -> [slot -> gate]]
  sumsq_buf,  \* [parity -> [slot -> q/k norm]]
  ctl,        \* control vector of the step, see CtlType
  seq,        \* rows of the step
  out,        \* [row -> entries the output of the row was folded from]
  step,       \* number of the step, which names its tokens
  pc          \* what the caller does next

buffers == <<proj_buf, qkv_buf, gates_buf, sumsq_buf>>
vars == <<conv_state, state, proj_buf, qkv_buf, gates_buf, sumsq_buf, ctl, seq, out, step, pc>>

Slots == 0 .. SlotMax - 1
Parity == {0, 1}
Rows == 0 .. seq - 1

Garbage == <<"garbage">>  \* torch.empty
Zero == <<"zero">>        \* torch.nn.functional.pad

par == ctl.parity
Entry(g, q, n) == [gate |-> g, qkv |-> q, norm |-> n]

-----------------------------------------------------------------------------
(* The conv call: commit the pending tokens, then convolve the rows. *)

\* As CommittedWindow, read from the buffers of the current step.
CommittedWindowOfThisStep ==
  [j \in 1 .. Window |->
     IF ctl.pending + j <= Window
     THEN conv_state[ctl.pending + j]
     ELSE proj_buf[par][ctl.slot[ctl.pending + j - Window - 1]]]

\* As CommittedWindow, in the order of the slots instead of the path.
CommittedWindowBySlot ==
  [j \in 1 .. Window |->
     IF ctl.pending + j <= Window
     THEN conv_state[ctl.pending + j]
     ELSE proj_buf[1 - par][ctl.pending + j - Window - 1]]

\* The last `Window` of [conv_state, prev[slot 0 .. pending)].
CommittedWindow ==
  [j \in 1 .. Window |->
     IF ctl.pending + j <= Window
     THEN conv_state[ctl.pending + j]
     ELSE proj_buf[1 - par][ctl.slot[ctl.pending + j - Window - 1]]]

\* Ancestor d steps above row r through parent[], -1 once it left the step.
Ancestor(r) ==
  LET up[d \in 0 .. Window] == IF d = 0 THEN r
                               ELSE IF up[d - 1] = -1 THEN -1
                               ELSE ctl.parent[up[d - 1]]
  IN  up

\* As Taps, with the rows of the step as one straight chain.
TapsOfChain(r, win) ==
  [d \in 0 .. Window |-> IF d <= r THEN <<step, r - d>> ELSE win[Window - (d - r - 1)]]

\* As Taps, with the window indexed by the distance instead of by the taps
\* already taken from it.
TapsByDistance(r, win) ==
  LET up == Ancestor(r)
  IN  [d \in 0 .. Window |-> IF up[d] # -1 THEN <<step, up[d]>> ELSE win[Window - d + 1]]

\* Tap d of row r: its own projection, then its ancestors, then the committed
\* window newest first, one further back for every tap already taken from it.
Taps(r, win) ==
  LET up == Ancestor(r)
      first == CHOOSE e \in 0 .. Window : up[e] = -1 /\ \A f \in 0 .. e - 1 : up[f] # -1
  IN  [d \in 0 .. Window |-> IF up[d] # -1 THEN <<step, up[d]>>
                             ELSE win[Window - (d - first)]]

\* A side buffer slab after the rows of the step are stored: the torch path
\* pads the slots past the step with zeros, the kernels leave them alone.
Stored(slab, rows, portable) ==
  [s \in Slots |-> IF s < seq THEN rows[s]
                   ELSE IF portable THEN Zero ELSE slab[s]]

ThisStep == [r \in Rows |-> <<step, r>>]

\* As ConvStep, with one buffer for both parities.
ConvStepSingleBuffered ==
  /\ pc = "conv"
  /\ conv_state' = CommittedWindow
  /\ \E portable \in Paths :
        /\ qkv_buf' = [p \in Parity |->
                         Stored(qkv_buf[p], [r \in Rows |-> Taps(r, CommittedWindow)], portable)]
        /\ proj_buf' = [p \in Parity |-> Stored(proj_buf[p], ThisStep, portable)]
  /\ pc' = "decode"
  /\ UNCHANGED <<state, gates_buf, sumsq_buf, ctl, seq, out, step>>

ConvStep ==
  /\ pc = "conv"
  /\ conv_state' = CommittedWindow
  /\ \E portable \in Paths :
        /\ qkv_buf' = [qkv_buf EXCEPT ![par] =
                         Stored(qkv_buf[par], [r \in Rows |-> Taps(r, CommittedWindow)], portable)]
        /\ proj_buf' = [proj_buf EXCEPT ![par] = Stored(proj_buf[par], ThisStep, portable)]
  /\ pc' = "decode"
  /\ UNCHANGED <<state, gates_buf, sumsq_buf, ctl, seq, out, step>>

-----------------------------------------------------------------------------
(* The decode call: replay the pending tokens, commit, run the rows. *)

\* The entry of the previous step held at one slot of the side buffers.
Replayed(s) ==
  Entry(gates_buf[1 - par][s], qkv_buf[1 - par][s], sumsq_buf[1 - par][s])

CommittedState ==
  state \o [i \in 1 .. ctl.pending |-> Replayed(ctl.slot[i - 1])]

\* The entry of a row of the current step.
Current(r) == Entry(<<step, r>>, qkv_buf[par][r], qkv_buf[par][r])

\* The running state before program entry e: the committed one and the rows
\* that the entries before e committed.
Running(e) ==
  LET run[n \in 0 .. seq] ==
        IF n = 0 THEN CommittedState
        ELSE IF ctl.prog[n - 1].commit THEN Append(run[n - 1], Current(ctl.prog[n - 1].row))
        ELSE run[n - 1]
  IN  run[e]

\* The program entry that runs row r.
EntryOf(prog, r) == CHOOSE e \in DOMAIN prog : prog[e].row = r

RowOutput(r) == Append(Running(EntryOf(ctl.prog, r)), Current(r))

\* Gates and norms of the rows, for the step that will commit them.
StoreGates(portable) ==
  /\ gates_buf' = [gates_buf EXCEPT ![par] = Stored(gates_buf[par], ThisStep, portable)]
  /\ sumsq_buf' = [sumsq_buf EXCEPT ![par] = Stored(sumsq_buf[par], qkv_buf[par], portable)]

\* As DecodeStep, with the state stored after the rows ran.
DecodeStepCommitsRows ==
  /\ pc = "decode"
  /\ \E portable \in Paths : StoreGates(portable)
  /\ state' = Running(seq)
  /\ out' = [r \in Rows |-> RowOutput(r)]
  /\ pc' = "verify"
  /\ UNCHANGED <<conv_state, proj_buf, qkv_buf, ctl, seq, step>>

DecodeStep ==
  /\ pc = "decode"
  /\ \E portable \in Paths : StoreGates(portable)
  /\ state' = CommittedState
  /\ out' = [r \in Rows |-> RowOutput(r)]
  /\ pc' = "verify"
  /\ UNCHANGED <<conv_state, proj_buf, qkv_buf, ctl, seq, step>>

-----------------------------------------------------------------------------
(* The caller: what the tests do with ctl between two steps. *)

\* Rows r1, ..., rn with r1 on the committed prefix and each the parent of
\* the next.
IsRootPath(path) ==
  \A i \in DOMAIN path : ctl.parent[path[i]] = (IF i = 1 THEN -1 ELSE path[i - 1])

\* The row the program entries before e left on top of the running state.
LastCommit(prog, e) ==
  LET done == {n \in 0 .. e - 1 : prog[n].commit}
  IN  IF done = {} THEN -1
      ELSE prog[CHOOSE n \in done : \A m \in done : m <= n].row

\* Programs of n rows: every row once, after its parent.
ProgramEntries(n) == [row : 0 .. n - 1, commit : BOOLEAN]

Programs(n) ==
  {prog \in [0 .. n - 1 -> ProgramEntries(n)] :
     /\ \A r \in 0 .. n - 1 : \E e \in 0 .. n - 1 : prog[e].row = r
     /\ \A e \in 0 .. n - 1 : LastCommit(prog, e) < prog[e].row}

\* A row extends the row on top of the running state when it runs.
ParentsOf(prog) ==
  [r \in DOMAIN prog |-> LastCommit(prog, EntryOf(prog, r))]

Propose ==
  /\ pc = "propose"
  /\ step < MaxSteps
  /\ step' = step + 1
  /\ \E n \in StepSizes : \E prog \in Programs(n) :
        /\ seq' = n
        /\ ctl' = [ctl EXCEPT !.prog = prog, !.parent = ParentsOf(prog)]
  /\ pc' = "conv"
  /\ out' = <<>>
  /\ UNCHANGED <<conv_state, state, buffers>>

Verify ==
  /\ pc = "verify"
  /\ \E n \in 0 .. seq : \E path \in [1 .. n -> Rows] :
        /\ IsRootPath(path)
        /\ ctl' = [ctl EXCEPT !.pending = n,
                              !.slot = [s \in Slots |-> IF s < n THEN path[s + 1] ELSE 0],
                              !.parity = 1 - @]
  /\ pc' = "propose"
  /\ out' = <<>>
  /\ UNCHANGED <<conv_state, state, buffers, seq, step>>

\* As Rerun, whatever is pending.
RerunPending ==
  /\ pc = "verify"
  /\ pc' = "conv"
  /\ UNCHANGED <<conv_state, state, buffers, ctl, seq, out, step>>

\* A step with nothing pending commits nothing, so the caller may issue its two
\* calls again before it looks at the outputs, as a graph warm-up does.
Rerun ==
  /\ pc = "verify"
  /\ ctl.pending = 0
  /\ pc' = "conv"
  /\ UNCHANGED <<conv_state, state, buffers, ctl, seq, out, step>>

Init ==
  /\ conv_state = [j \in 1 .. Window |-> <<0, j - Window - 1>>]
  /\ state = <<>>
  /\ proj_buf = [p \in Parity |-> [s \in Slots |-> Garbage]]
  /\ qkv_buf = [p \in Parity |-> [s \in Slots |-> Garbage]]
  /\ gates_buf = [p \in Parity |-> [s \in Slots |-> Garbage]]
  /\ sumsq_buf = [p \in Parity |-> [s \in Slots |-> Garbage]]
  /\ ctl = [pending |-> 0, parity |-> 0, slot |-> [s \in Slots |-> 0],
            parent |-> <<>>, prog |-> <<>>]
  /\ seq = 0
  /\ out = <<>>
  /\ step = 0
  /\ pc = "propose"

Next == Propose \/ ConvStep \/ DecodeStep \/ Verify \/ Rerun

Spec == Init /\ [][Next]_vars

-----------------------------------------------------------------------------
(* Types. *)

Tokens == (0 .. MaxSteps) \X (-Window .. SlotMax - 1)
ConvOutputs == [0 .. Window -> Tokens]
Entries == [gate : Tokens, qkv : ConvOutputs, norm : ConvOutputs]
Blank == {Garbage, Zero}

CtlType(n) == [pending : 0 .. SlotMax, parity : Parity, slot : [Slots -> Slots],
               parent : [0 .. n - 1 -> -1 .. n - 2], prog : [0 .. n - 1 -> ProgramEntries(n)]]

\* Every variable has the shape the calls read it with: in particular the
\* committed window and state never hold an unwritten or padded slot.
TypeOK ==
  /\ conv_state \in [1 .. Window -> Tokens]
  /\ state \in Seq(Entries)
  /\ proj_buf \in [Parity -> [Slots -> Tokens \cup Blank]]
  /\ qkv_buf \in [Parity -> [Slots -> ConvOutputs \cup Blank]]
  /\ gates_buf \in [Parity -> [Slots -> Tokens \cup Blank]]
  /\ sumsq_buf \in [Parity -> [Slots -> ConvOutputs \cup Blank]]
  /\ seq \in 0 .. SlotMax
  /\ ctl \in CtlType(seq)
  /\ out \in [Rows -> Seq(Entries)] \cup {<<>>}
  /\ step \in 0 .. MaxSteps
  /\ pc \in {"propose", "conv", "decode", "verify"}

-----------------------------------------------------------------------------
(* Properties. *)

Gates(entries) == [i \in DOMAIN entries |-> entries[i].gate]

\* The prefix before the first step, then the tokens of a recurrent state.
History(entries) ==
  [j \in 1 .. Window |-> <<0, j - Window - 1>>] \o Gates(entries)

Last(n, s) == [j \in 1 .. n |-> s[Len(s) - n + j]]

\* What the next step has still to commit: after the decode call nothing.
Accepted == IF pc = "verify" THEN state ELSE CommittedState

\* The conv window and the recurrent state are committed by two calls.  Outside
\* the pair they hold the same prefix; between the two the window is ahead of
\* the state by exactly the pending tokens (gated_delta.py:135-140, 227-229).
WindowMatchesState ==
  conv_state = Last(Window, History(IF pc = "decode" THEN CommittedState ELSE state))

\* An entry was folded from one token alone: its gates, its norm and every tap
\* under its conv output are those of the token in its own committed context,
\* as if the accepted tokens had been run alone (gated_delta.cu:286-287).
EntryInContext(entries) ==
  \A i \in DOMAIN entries :
    /\ entries[i].norm = entries[i].qkv
    /\ \A d \in 0 .. Window : entries[i].qkv[d] = History(entries)[Window + i - d]

CommitMatchesPlainRun == EntryInContext(Accepted)

\* The output of a row was computed from conv outputs of its own ancestors
\* only, never of a row beside them (gated_delta.py:137-139).
OutputsMatchPlainRun == \A r \in DOMAIN out : EntryInContext(out[r])

\* No row of a step reaches the committed state or window before the verifier
\* accepted it in a later step (gated_delta.cu:392-393).
NoSpeculativeCommit ==
  /\ \A i \in DOMAIN state : state[i].gate[1] < step
  /\ \A j \in DOMAIN conv_state : conv_state[j][1] < step \/ conv_state[j][1] = 0

\* The accepted tokens stay readable until both calls committed them: neither
\* call overwrites a slot the other one still has to replay.
PendingRows ==
  {[slot |-> ctl.slot[i], proj |-> proj_buf[1 - par][ctl.slot[i]], entry |-> Replayed(ctl.slot[i])] :
     i \in 0 .. ctl.pending - 1}

PendingSurvives == [][(pc \in {"conv", "decode"}) => PendingRows' = PendingRows]_vars

\* What makes the two calls read written slots only: the rows of this step are
\* in the slab of its parity, the accepted rows of the previous one in the other.
Holds(p, s, tok) ==
  /\ proj_buf[p][s] = tok
  /\ qkv_buf[p][s] \in ConvOutputs

HoldsGates(p, s, tok) ==
  /\ gates_buf[p][s] = tok
  /\ sumsq_buf[p][s] = qkv_buf[p][s]

PendingWritten ==
  pc # "verify" =>
    \A i \in 0 .. ctl.pending - 1 :
       LET tok == <<IF pc = "propose" THEN step ELSE step - 1, ctl.slot[i]>>
       IN  Holds(1 - par, ctl.slot[i], tok) /\ HoldsGates(1 - par, ctl.slot[i], tok)

RowsWritten ==
  /\ pc \in {"decode", "verify"} => \A r \in Rows : Holds(par, r, <<step, r>>)
  /\ pc = "verify" => \A r \in Rows : HoldsGates(par, r, <<step, r>>)

\* The program of a step runs every row.
ProgramComplete == \A r \in Rows : \E e \in Rows : ctl.prog[e].row = r

\* Inductive: the invariants above follow from it.
SlotInv ==
  /\ TypeOK
  /\ PendingWritten
  /\ RowsWritten
  /\ ProgramComplete
  /\ NoSpeculativeCommit
  /\ pc # "propose" => step > 0

\* The conv outputs of the rows were taken over the committed window.
RowsConvolved ==
  pc \in {"decode", "verify"} => \A r \in Rows : qkv_buf[par][r] = Taps(r, conv_state)

\* A row's parent is the row its program entry finds on top of the running state.
ParentsFollowProgram ==
  \A e \in Rows : ctl.parent[ctl.prog[e].row] = LastCommit(ctl.prog, e)

\* Inductive: with SlotInv, what makes every entry one of a plain run.
PlainRunInv ==
  /\ CommitMatchesPlainRun
  /\ OutputsMatchPlainRun
  /\ RowsConvolved
  /\ ParentsFollowProgram

\* Inductive: the rows of a step form a forest and are scored together.
ForestInv ==
  /\ pc # "propose" => seq > 0
  /\ \A r \in Rows : ctl.parent[r] < r
  /\ pc = "verify" => DOMAIN out = Rows

\* The loop built from the deferred calls commits and scores exactly what a
\* loop without buffers does.
Loop == INSTANCE VerifyLoop WITH
  committed <- Gates(Accepted),
  tree <- IF pc = "propose" THEN <<>> ELSE ctl.parent,
  outputs <- IF out = <<>> THEN <<>> ELSE [r \in DOMAIN out |-> Gates(out[r])]

ImplementsVerifyLoop == Loop!ASpec
=============================================================================
