----------------------------- MODULE DeviceCaches -----------------------------
(***************************************************************************)
(* Two caches of the CUDA backend that outlive a call (backends/cuda/        *)
(* __init__.py; the second also in backends/hip/__init__.py).                 *)
(*                                                                          *)
(* _SVDQUANT_WORKSPACE_CACHE: quantize_svdquant_w4a4 writes its result into   *)
(* buffers kept for the stream and the padded shape, and returns the buffers  *)
(* themselves.  A forward quantizes once and then multiplies, once for every  *)
(* linear layer that shares the activation.  _ROPE_FAB_CACHE: the packed form *)
(* of a rope table, kept under the id of the tensor.                          *)
(*                                                                          *)
(* Data abstraction.  The three buffers of an entry are one.  A stream runs   *)
(* what was issued to it in order, some time later.  An activation is named   *)
(* by its forward, a rope table by a number that no other tensor gets.        *)
(***************************************************************************)
EXTENDS Integers, Sequences, FiniteSets

CONSTANTS Callers,     \* host threads
          Streams,
          Shapes,      \* what the key holds beside the stream
          Ids,         \* values of id(), positive; freed ones are given out again
          MaxForwards, \* bound on the forwards of a behaviour
          MaxLinears,  \* bound on the layers that share an activation
          MaxTables    \* bound on the rope tensors of a behaviour

ASSUME BoundsAssumption == MaxForwards \in Nat /\ MaxLinears \in Nat /\ MaxTables \in Nat

VARIABLES
  workspaces, \* <<stream, shape>> -> buffer, for the keys filled so far
  content,  \* [buffer -> forward whose activation it holds]
  queue,    \* [stream -> kernels issued and not run]
  current,  \* [thread -> torch.cuda.current_stream]
  forward,  \* [thread -> the forward under way, or NoForward]
  forwards, \* forwards begun
  multiplied, \* history: <<forward, forward of the activation read>>
  live,     \* id -> number of the tensor that has it
  tables,   \* rope tensors made
  fab,      \* the entries of the rope cache: [id, tensor, packed]
  building, \* [thread -> entry it missed, or NoEntry]
  rotated   \* history: <<tensor given to a call, tensor whose table it used>>

svdquant == <<workspaces, content, queue, current, forward, forwards, multiplied>>
rope == <<live, tables, fab, building, rotated>>
device_vars == <<svdquant, rope>>

NoForward == [number |-> 0, buffer |-> 0, left |-> 0]
NoEntry == [id |-> 0, tensor |-> 0, packed |-> 0, cleared |-> FALSE]

-----------------------------------------------------------------------------
(* The SVDQuant workspace. *)

Buffers == DOMAIN content
Fresh == Cardinality(Buffers) + 1
Issue(s, op) == queue' = [queue EXCEPT ![s] = Append(@, op)]

\* As Key, without the stream.
KeyWithoutStream(t, shape) == <<1, shape>>

Key(t, shape) == <<current[t], shape>>

\* A forward starts on the stream its thread is on, which no other thread has a
\* forward on: the buffers of a stream are not protected.
Quantize(t, shape, linears, reuse) ==
  /\ forward[t] = NoForward
  /\ forwards < MaxForwards
  /\ \A u \in Callers \ {t} : current[u] = current[t] => forward[u] = NoForward
  /\ LET key == Key(t, shape)
         hit == reuse /\ key \in DOMAIN workspaces
         b == IF hit THEN workspaces[key] ELSE Fresh
     IN  /\ workspaces' = IF reuse /\ ~hit
                     THEN [k \in DOMAIN workspaces \cup {key} |-> IF k = key THEN b ELSE workspaces[k]]
                     ELSE workspaces
         /\ content' = IF hit THEN content ELSE Append(content, 0)
         /\ forward' = [forward EXCEPT ![t] = [number |-> forwards + 1, buffer |-> b, left |-> linears]]
         /\ Issue(current[t], [kind |-> "quantize", buffer |-> b, of |-> forwards + 1])
  /\ forwards' = forwards + 1
  /\ UNCHANGED <<current, multiplied>>

\* The forward after one more of its layers.
NextLinear(f) == IF f.left = 1 THEN NoForward ELSE [f EXCEPT !.left = @ - 1]

ScaledMM(t) ==
  /\ forward[t].left > 0
  /\ Issue(current[t], [kind |-> "mm", buffer |-> forward[t].buffer, of |-> forward[t].number])
  /\ forward' = [forward EXCEPT ![t] = NextLinear(@)]
  /\ UNCHANGED <<workspaces, content, current, forwards, multiplied>>

RunKernel(s) ==
  /\ queue[s] # <<>>
  /\ LET op == Head(queue[s])
     IN  IF op.kind = "quantize"
         THEN content' = [content EXCEPT ![op.buffer] = op.of] /\ UNCHANGED multiplied
         ELSE multiplied' = multiplied \cup {<<op.of, content[op.buffer]>>} /\ UNCHANGED content
  /\ queue' = [queue EXCEPT ![s] = Tail(@)]
  /\ UNCHANGED <<workspaces, current, forward, forwards>>

\* The thread enters or leaves a torch.cuda.stream context between forwards.
SetStream(t, s) ==
  /\ forward[t] = NoForward
  /\ s # current[t]
  /\ current' = [current EXCEPT ![t] = s]
  /\ UNCHANGED <<workspaces, content, queue, forward, forwards, multiplied>>

-----------------------------------------------------------------------------
(* The rope table. *)

MakeTable(i) ==
  /\ i \notin DOMAIN live
  /\ tables < MaxTables
  /\ live' = [j \in DOMAIN live \cup {i} |-> IF j = i THEN tables + 1 ELSE live[j]]
  /\ tables' = tables + 1
  /\ UNCHANGED <<fab, building, rotated>>

\* A tensor a call is working on is not freed.
FreeTable(i) ==
  /\ i \in DOMAIN live
  /\ \A t \in Callers : building[t].id # i
  /\ live' = [j \in DOMAIN live \ {i} |-> live[j]]
  /\ UNCHANGED <<tables, fab, building, rotated>>

\* As Hit, trusting the id.
HitById(i) == {e \in fab : e.id = i}

\* The entry of the id, if its weak reference still names the tensor.
Hit(i) == {e \in fab : e.id = i /\ e.tensor = live[i]}

Lookup(t, i) ==
  /\ building[t] = NoEntry
  /\ i \in DOMAIN live
  /\ IF Hit(i) # {}
     THEN /\ rotated' = rotated \cup {<<live[i], e.packed>> : e \in Hit(i)}
          /\ UNCHANGED building
     ELSE /\ building' = [building EXCEPT ![t] = [id |-> i, tensor |-> live[i], packed |-> live[i],
                                                     cleared |-> FALSE]]
          /\ UNCHANGED rotated
  /\ UNCHANGED <<live, tables, fab>>

\* Without a lock: another thread may fill the cache between the two.
Clear(t) ==
  /\ building[t] # NoEntry /\ ~building[t].cleared
  /\ fab' = {}
  /\ building' = [building EXCEPT ![t].cleared = TRUE]
  /\ UNCHANGED <<live, tables, rotated>>

Store(t) ==
  /\ building[t].cleared
  /\ fab' = {e \in fab : e.id # building[t].id} \cup {building[t]}
  /\ rotated' = rotated \cup {<<building[t].tensor, building[t].packed>>}
  /\ building' = [building EXCEPT ![t] = NoEntry]
  /\ UNCHANGED <<live, tables>>

DeviceInit ==
  /\ workspaces = <<>>
  /\ content = <<>>
  /\ queue = [s \in Streams |-> <<>>]
  /\ current \in [Callers -> Streams]
  /\ forward = [t \in Callers |-> NoForward]
  /\ forwards = 0
  /\ multiplied = {}
  /\ live = <<>>
  /\ tables = 0
  /\ fab = {}
  /\ building = [t \in Callers |-> NoEntry]
  /\ rotated = {}

Forward(t) ==
  \/ \E shape \in Shapes, linears \in 1 .. MaxLinears, reuse \in BOOLEAN :
        Quantize(t, shape, linears, reuse)
  \/ ScaledMM(t)
  \/ \E s \in Streams : SetStream(t, s)

Rotate(t) == Clear(t) \/ Store(t) \/ \E i \in Ids : Lookup(t, i)

NextForward ==
  /\ (\E t \in Callers : Forward(t)) \/ (\E s \in Streams : RunKernel(s))
  /\ UNCHANGED rope

NextRotate ==
  /\ (\E t \in Callers : Rotate(t)) \/ (\E i \in Ids : MakeTable(i) \/ FreeTable(i))
  /\ UNCHANGED svdquant

DeviceNext == NextForward \/ NextRotate

DeviceSpec == DeviceInit /\ [][DeviceNext]_device_vars

-----------------------------------------------------------------------------
DeviceTypeOK ==
  /\ \A k \in DOMAIN workspaces : k \in Streams \X Shapes /\ workspaces[k] \in Buffers
  /\ content \in Seq(0 .. MaxForwards)
  /\ \A s \in Streams : \A i \in DOMAIN queue[s] :
       queue[s][i] \in [kind : {"quantize", "mm"}, buffer : Buffers, of : 1 .. MaxForwards]
  /\ current \in [Callers -> Streams]
  /\ forwards \in 0 .. MaxForwards
  /\ \A t \in Callers : forward[t].left \in 0 .. MaxLinears
  /\ DOMAIN live \subseteq Ids
  /\ tables \in 0 .. MaxTables
  /\ \A e \in fab : e.id \in Ids /\ e.tensor \in 1 .. MaxTables

\* Every multiplication reads the activation its own forward quantized, though
\* the buffers of a key are handed out again while kernels that read them are
\* still queued, and forwards of other threads run (cuda/__init__.py:4229-4242).
MatmulReadsItsActivation == \A m \in multiplied : m[1] = m[2]

\* A call rotates with the table of the tensor it was given, also when that
\* tensor has the id of one that was freed ("the weak ref validates an id() hit
\* without retaining freqs", cuda/__init__.py:2969-2970).
TableOfGivenTensor == \A u \in rotated : u[1] = u[2]
=============================================================================
