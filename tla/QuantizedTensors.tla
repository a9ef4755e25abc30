--------------------------- MODULE QuantizedTensors ---------------------------
(***************************************************************************)
(* QuantizedTensor and its eight layouts (tensor/).  An object wraps stored   *)
(* codes and the parameters that give them a meaning: scales, a logical        *)
(* shape, a transpose flag and, for some layouts, a flag that says in what      *)
(* form the codes are.  Objects share codes and scales with one another, and    *)
(* operations copy, flip or convert some of the parts and not others.           *)
(*                                                                          *)
(* Data abstraction.  Codes and scales say which float matrix they encode;      *)
(* a product says of which matrices it is and its shape.  The further           *)
(* parameter tensors of a layout (zeros, block scales, s_channel, LoRA          *)
(* factors, codebook) always go with the scale and are not told from it.        *)
(***************************************************************************)
EXTENDS Integers, Sequences, FiniteSets, SequencesExt

CONSTANTS
  Layouts,    \* layouts under study, of the names below
  Values,     \* float matrices
  Dims,       \* [Values -> <<rows, columns>>]
  Sources,    \* [Layouts -> matrices that objects are made of]
  Granule,    \* padding of NVFP4 (16 in the code) and MXFP8 (32)
  Devices,    \* [Layouts -> devices .to() is called with, of "cpu", "cuda", "xpu"]
  Dtypes,     \* [Layouts -> dtypes .to() is called with, "bf16" and others]
  Home,       \* the device tensors are made on; .to() brings them to others
  MaxObjects  \* bound on the tensor objects of a behaviour

ASSUME LayoutsAssumption ==
  /\ Layouts \subseteq {"fp8", "nvfp4", "mxfp8", "int8", "awq", "svdquant", "convrot", "w4a8"}
  /\ Sources \in [Layouts -> SUBSET Values]
  /\ Dims \in [Values -> Nat \X Nat]
ASSUME SizesAssumption == Granule \in Nat \ {0} /\ MaxObjects \in Nat

VARIABLES
  layout,   \* the layout of the behaviour
  codes,    \* [slot -> stored codes, or Free]
  scales,   \* [slot -> scale tensor, or Free]
  objects   \* the QuantizedTensors made so far

vars == <<layout, codes, scales, objects>>

Slots == 1 .. MaxObjects + 1
Free == [of |-> "free"]
Unwritten == "unwritten"
Raise == [of |-> "raise"]
Garbage == [of |-> "garbage"]
Flips(a, b) == a # b
Swap(shape) == <<shape[2], shape[1]>>
Least(a, b) == IF a <= b THEN a ELSE b
Cut(shape, to) == <<Least(shape[1], to[1]), Least(shape[2], to[2])>>

\* The layouts that store a float matrix padded, and that decide per object how
\* their codes are to be read.
Padded == {"nvfp4", "mxfp8"}
Loaded == {"awq", "svdquant"}                \* quantize() raises: made from a checkpoint
RefusesRhs == {"awq", "svdquant", "convrot", "w4a8"}

RoundUp(n) == ((n + Granule - 1) \div Granule) * Granule

\* TensorCoreNVFP4Layout.get_padded_shape; MXFP8 has one like it.
PaddedShape(shape) ==
  IF layout \in Padded THEN <<RoundUp(shape[1]), RoundUp(shape[2])>> ELSE shape

-----------------------------------------------------------------------------
(* What an object reads. *)

Turn(m) == [m EXCEPT !.t = ~@, !.shape = Swap(@)]
Readable(m) == m \notin {Raise, Garbage}

\* Codes and scales of one matrix, in the form the object's flags announce.
Whole(o) ==
  LET c == codes[o.data]
      s == scales[o.scale]
  IN  /\ c.of \in Values
      /\ c.form = o.form
      /\ \/ o.form = "packed"
         \/ s.of = c.of /\ (s.kind = "scalar" \/ s.t = c.t)

\* The layout's dequantize: the whole stored matrix, padding included, as stored.
Stored(o) ==
  IF Whole(o)
  THEN [of |-> codes[o.data].of, t |-> Flips(codes[o.data].t, o.view),
        shape |-> IF o.view THEN Swap(codes[o.data].size) ELSE codes[o.data].size]
  ELSE Garbage

\* TensorCoreSVDQuantW4A4Layout.dequantize: the kernel on an identity of
\* orig_shape[1] rows, which is not the K of the codes once orig_shape is swapped,
\* and in the checkpoint's form whatever xpu_preconverted says.
SVDQuantStored(o) ==
  IF o.transposed /\ o.shape[1] # o.shape[2] THEN Raise
  ELSE IF o.form = "prepared" THEN Garbage
  ELSE Stored(o)

LayoutDequantize(o) == IF layout = "svdquant" THEN SVDQuantStored(o) ELSE Stored(o)

\* The logical shape of the codes as they are stored.
Physical(o) == IF o.transposed THEN Swap(o.shape) ELSE o.shape

\* QuantizedTensor.dequantize
Dequantize(o) ==
  LET full == LayoutDequantize(o)
      cut == [full EXCEPT !.shape = Cut(@, Physical(o))]
  IN  IF ~Readable(full) THEN full ELSE IF o.transposed THEN Turn(cut) ELSE cut

-----------------------------------------------------------------------------
(* Products.  An operand is a QuantizedTensor or a float matrix. *)

IsQuantized(x) == "data" \in DOMAIN x

\* dequantize_args
Float(x) == IF IsQuantized(x) THEN Dequantize(x) ELSE x

MatMul(a, b) ==
  IF Raise \in {a, b} THEN Raise
  ELSE IF Garbage \in {a, b} THEN Garbage
  ELSE IF a.shape[2] # b.shape[1] THEN Raise
  ELSE [of |-> <<a.of, b.of>>, t |-> <<a.t, b.t>>, shape |-> <<a.shape[1], b.shape[2]>>]

\* a @ b.T, as the linear kernels compute it.
Kernel(a, b) == MatMul(a, IF Readable(b) THEN Turn(b) ELSE b)

PlainLinear(x, w) == Kernel(Float(x), Float(w))
PlainMM(a, b) == MatMul(Float(a), Float(b))

\* A native call within try: RuntimeError and TypeError fall back.
Attempt(fails, native, plain) == IF fails \/ native = Raise THEN plain ELSE native

\* _slice_to_original_shape
Slice(product, m, n) ==
  IF Readable(product) THEN [product EXCEPT !.shape = Cut(@, <<m, n>>)] ELSE product

\* --- fp8.py: a transpose is a view of the codes. ---

\* Weight-only on XPU; both quantized: torch._scaled_mm.
FP8Linear(x, w, fails) ==
  IF ~IsQuantized(w) THEN PlainLinear(x, w)
  ELSE IF ~IsQuantized(x) /\ w.device # "xpu" THEN PlainLinear(x, w)
  ELSE Attempt(fails, Kernel(IF IsQuantized(x) THEN Stored(x) ELSE x, Stored(w)), PlainLinear(x, w))

FP8MM(a, b, fails) ==
  IF ~IsQuantized(b) THEN PlainMM(a, b)
  ELSE IF ~IsQuantized(a) /\ b.device # "xpu" THEN PlainMM(a, b)
  ELSE Attempt(fails, MatMul(IF IsQuantized(a) THEN Stored(a) ELSE a, Stored(b)), PlainMM(a, b))

FP8AddMM(a, b, fails) == FP8MM(a, b, fails)

\* --- nvfp4.py: a @ b_physical.T on padded codes, sliced. ---

NVFP4Linear(x, w, fails) ==
  IF ~(IsQuantized(x) /\ IsQuantized(w)) THEN PlainLinear(x, w)
  ELSE IF x.transposed \/ w.transposed THEN PlainLinear(x, w)
  ELSE Attempt(fails, Slice(Kernel(Stored(x), Stored(w)), x.shape[1], w.shape[1]), PlainLinear(x, w))

\* As NVFP4MM, taking the columns of the product from the rows of b.
NVFP4MMSlicesRows(a, b, fails) ==
  IF ~(IsQuantized(a) /\ IsQuantized(b)) THEN PlainMM(a, b)
  ELSE IF a.transposed \/ ~b.transposed THEN PlainMM(a, b)
  ELSE Attempt(fails, Slice(Kernel(Stored(a), Stored(b)), a.shape[1], b.shape[1]), PlainMM(a, b))

NVFP4MM(a, b, fails) ==
  IF ~(IsQuantized(a) /\ IsQuantized(b)) THEN PlainMM(a, b)
  ELSE IF a.transposed \/ ~b.transposed THEN PlainMM(a, b)
  ELSE Attempt(fails, Slice(Kernel(Stored(a), Stored(b)), a.shape[1], b.shape[2]), PlainMM(a, b))

\* --- mxfp8.py ---

MXFP8Linear(x, w, fails) ==
  IF ~(IsQuantized(x) /\ IsQuantized(w)) THEN PlainLinear(x, w)
  ELSE IF x.transposed \/ w.transposed THEN PlainLinear(x, w)
  ELSE Attempt(fails, Slice(Kernel(Stored(x), Stored(w)), x.shape[1], w.shape[1]), PlainLinear(x, w))

MXFP8MM(a, b, fails) ==
  IF ~(IsQuantized(a) /\ IsQuantized(b)) THEN PlainMM(a, b)
  ELSE IF a.transposed \/ ~b.transposed THEN PlainMM(a, b)
  ELSE Attempt(fails, Slice(Kernel(Stored(a), Stored(b)), a.shape[1], b.shape[2]), PlainMM(a, b))

MXFP8AddMM(a, b, fails) == MXFP8MM(a, b, fails)

\* --- int8.py: the activation is float, and quantized by the kernel. ---

INT8Linear(x, w) ==
  IF ~IsQuantized(w) \/ w.transposed THEN PlainLinear(x, w) ELSE Kernel(Float(x), Stored(w))

\* An untransposed weight only if its scale has no rows to follow.
INT8MM(a, b) ==
  IF ~IsQuantized(b) THEN PlainMM(a, b)
  ELSE IF b.transposed THEN Kernel(Float(a), Stored(b))
  ELSE IF scales[b.scale].kind = "scalar" /\ b.form # "convrot" THEN MatMul(Float(a), Stored(b))
  ELSE PlainMM(a, b)

INT8AddMM(a, b) == INT8MM(a, b)

\* --- The layouts whose kernel takes W for mm(x, W.t()) and refuses mm(x, W). ---

AWQLinear(x, w) ==
  IF ~IsQuantized(w) \/ w.transposed THEN PlainLinear(x, w) ELSE Kernel(Float(x), Stored(w))

AWQMM(a, b) ==
  IF ~IsQuantized(b) THEN PlainMM(a, b)
  ELSE IF ~b.transposed THEN Raise
  ELSE Kernel(Float(a), Stored(b))

AWQAddMM(a, b) == AWQMM(a, b)

ConvRotLinear(x, w) ==
  IF ~IsQuantized(w) \/ w.transposed THEN PlainLinear(x, w) ELSE Kernel(Float(x), Stored(w))

ConvRotMM(a, b) ==
  IF ~IsQuantized(b) THEN PlainMM(a, b)
  ELSE IF ~b.transposed THEN Raise
  ELSE Kernel(Float(a), Stored(b))

ConvRotAddMM(a, b) == ConvRotMM(a, b)

\* _w4a4_forward: prepared storage has a kernel of its own, on XPU only.
SVDQuantForward(x, w) ==
  IF w.form = "prepared" /\ w.device # "xpu" THEN Raise ELSE Kernel(x, Stored(w))

SVDQuantLinear(x, w) ==
  IF ~IsQuantized(w) \/ w.transposed THEN PlainLinear(x, w) ELSE SVDQuantForward(Float(x), w)

SVDQuantMM(a, b) ==
  IF ~IsQuantized(b) THEN PlainMM(a, b)
  ELSE IF ~b.transposed THEN Raise
  ELSE SVDQuantForward(Float(a), b)

SVDQuantAddMM(a, b) == SVDQuantMM(a, b)

\* w4a8_packed_linear, which only the CUDA backend has, for packed records.
W4A8Forward(x, w) ==
  IF w.form = "packed" /\ w.device # "cuda" THEN Raise ELSE Kernel(x, Stored(w))

W4A8Linear(x, w) ==
  IF ~IsQuantized(w) \/ w.transposed THEN PlainLinear(x, w) ELSE W4A8Forward(Float(x), w)

W4A8MM(a, b) ==
  IF ~IsQuantized(b) THEN PlainMM(a, b)
  ELSE IF ~b.transposed THEN Raise
  ELSE W4A8Forward(Float(a), b)

\* With alpha, beta or a matrix addend the weight is dequantized.
W4A8AddMM(a, b, scaled) == IF scaled THEN PlainMM(a, b) ELSE W4A8MM(a, b)

\* __torch_dispatch__: the layout's handler, or dequantize and call.
Linear(x, w, fails) ==
  CASE layout = "fp8" -> FP8Linear(x, w, fails)
    [] layout = "nvfp4" -> NVFP4Linear(x, w, fails)
    [] layout = "mxfp8" -> MXFP8Linear(x, w, fails)
    [] layout = "int8" -> INT8Linear(x, w)
    [] layout = "awq" -> AWQLinear(x, w)
    [] layout = "svdquant" -> SVDQuantLinear(x, w)
    [] layout = "convrot" -> ConvRotLinear(x, w)
    [] layout = "w4a8" -> W4A8Linear(x, w)

MM(a, b, fails) ==
  CASE layout = "fp8" -> FP8MM(a, b, fails)
    [] layout = "nvfp4" -> NVFP4MM(a, b, fails)
    [] layout = "mxfp8" -> MXFP8MM(a, b, fails)
    [] layout = "int8" -> INT8MM(a, b)
    [] layout = "awq" -> AWQMM(a, b)
    [] layout = "svdquant" -> SVDQuantMM(a, b)
    [] layout = "convrot" -> ConvRotMM(a, b)
    [] layout = "w4a8" -> W4A8MM(a, b)

\* Without the addend, which never decides anything else.
AddMM(a, b, fails, scaled) ==
  CASE layout = "fp8" -> FP8AddMM(a, b, fails)
    [] layout = "nvfp4" -> PlainMM(a, b)
    [] layout = "mxfp8" -> MXFP8AddMM(a, b, fails)
    [] layout = "int8" -> INT8AddMM(a, b)
    [] layout = "awq" -> AWQAddMM(a, b)
    [] layout = "svdquant" -> SVDQuantAddMM(a, b)
    [] layout = "convrot" -> ConvRotAddMM(a, b)
    [] layout = "w4a8" -> W4A8AddMM(a, b, scaled)

-----------------------------------------------------------------------------
(* Making, copying and converting objects. *)

\* What the quantizers make of a float matrix of a shape: the form of the codes, the
\* kind of the scale, the shape of the storage.
Encoding(form, kind, size) == [form |-> form, kind |-> kind, size |-> size]

FP8Quantize(shape) == {Encoding("standard", "scalar", shape)}
NVFP4Quantize(shape) == {Encoding("standard", "rows", PaddedShape(shape))}
MXFP8Quantize(shape) == {Encoding("standard", "rows", PaddedShape(shape))}
ConvRotQuantize(shape) == {Encoding("standard", "rows", shape)}
W4A8Quantize(shape) == {Encoding("standard", "rows", shape)}
Checkpoint(shape) == {Encoding("standard", "rows", shape)}

\* A rotation needs a scale per channel.
INT8Quantize(shape) ==
  {Encoding(form, kind, shape) : form \in {"standard", "convrot"}, kind \in {"scalar", "rows"}}
    \ {Encoding("convrot", "scalar", shape)}

Quantize(shape) ==
  CASE layout = "fp8" -> FP8Quantize(shape)
    [] layout = "nvfp4" -> NVFP4Quantize(shape)
    [] layout = "mxfp8" -> MXFP8Quantize(shape)
    [] layout = "int8" -> INT8Quantize(shape)
    [] layout = "convrot" -> ConvRotQuantize(shape)
    [] layout = "w4a8" -> W4A8Quantize(shape)
    [] layout \in Loaded -> Checkpoint(shape)

Objects == 1 .. Len(objects)
Room == Len(objects) < MaxObjects
Usable == {i \in Objects : objects[i].owned}

\* Nothing more is said of these objects, until something is copied into them.
Lost(o) == [o EXCEPT !.owned = FALSE, !.moved = FALSE, !.expected = [of |-> Unwritten, t |-> FALSE]]
Disown(objs, lost) == [n \in DOMAIN objs |-> IF n \in lost THEN Lost(objs[n]) ELSE objs[n]]

\* The slot of what is being made, free between steps.
New == MaxObjects + 1

\* The first object with the same codes, or the same scale, names their slot; slots no
\* object refers to are free again.
FirstWith(objs, n, part) ==
  IF objs[n][part] = 0 THEN 0 ELSE CHOOSE m \in 1 .. n : /\ objs[m][part] = objs[n][part]
                                                       /\ \A k \in 1 .. m - 1 : objs[k][part] # objs[n][part]

Keep(objs, newcodes, newscales) ==
  LET slots(part, stored) ==
        [i \in Slots |-> IF i \in DOMAIN objs /\ FirstWith(objs, i, part) = i THEN stored[objs[i][part]] ELSE Free]
  IN  /\ objects' = [n \in DOMAIN objs |->
                       [objs[n] EXCEPT !.data = FirstWith(objs, n, "data"), !.scale = FirstWith(objs, n, "scale")]]
      /\ codes' = slots("data", newcodes)
      /\ scales' = slots("scale", newscales)
      /\ UNCHANGED layout

\* A new object with the codes c and the scale s in slots of their own.  A packed
\* weight keeps its scales in its records.
AddFresh(o, c, s) ==
  /\ Room
  /\ Keep(Append(objects, [o EXCEPT !.data = New, !.scale = IF c.form = "packed" THEN 0 ELSE New]),
          [codes EXCEPT ![New] = c],
          IF c.form = "packed" THEN scales ELSE [scales EXCEPT ![New] = s])

\* A new object on the codes of another; with a scale of its own if s is its clone.
AddSharing(o) == Room /\ Keep(Append(objects, o), codes, scales)

ScaleOf(o) == IF o.scale = 0 THEN Free ELSE scales[o.scale]
Clone(s) == IF s = Free THEN s ELSE [s EXCEPT !.resident = FALSE]

AddWithClonedScale(o) ==
  /\ Room
  /\ IF o.scale = 0 THEN AddSharing(o)
     ELSE Keep(Append(objects, [o EXCEPT !.scale = New]), codes,
               [scales EXCEPT ![New] = Clone(scales[o.scale])])

\* from_float, or from a checkpoint for the layouts in Loaded.  The scale is
\* resident: behind its codes in one buffer, where a clone of it is not.
FromFloat(v, dtype, device) ==
  \E e \in Quantize(Dims[v]) :
    AddFresh([data |-> New, scale |-> 0, view |-> FALSE, transposed |-> FALSE, shape |-> Dims[v],
              dtype |-> dtype, form |-> e.form, device |-> device, outer |-> <<Dims[v], dtype>>,
              expected |-> [of |-> v, t |-> FALSE], owned |-> TRUE, moved |-> FALSE],
             [of |-> v, t |-> FALSE, form |-> e.form, size |-> e.size],
             [of |-> v, t |-> FALSE, kind |-> e.kind, resident |-> layout = "w4a8"])

\* requantize_from_float of the dequantized tensor, with the layout's
\* requantize_kwargs: scale per channel and rotation as they were.
RequantizeKwargs(o) ==
  [form |-> IF layout = "int8" THEN o.form ELSE "standard",
   kind |-> IF o.form = "packed" THEN "rows" ELSE scales[o.scale].kind]

Requantize(i) ==
  LET o == objects[i]
      m == Dequantize(o)
  IN  /\ i \in Usable
      /\ layout \notin Loaded
      /\ Readable(m)
      /\ \E e \in Quantize(m.shape) :
           /\ e.form = RequantizeKwargs(o).form /\ e.kind = RequantizeKwargs(o).kind
           /\ AddFresh([o EXCEPT !.view = FALSE, !.transposed = FALSE, !.shape = m.shape, !.form = e.form,
                                 !.outer = <<m.shape, o.dtype>>, !.moved = FALSE],
                       [of |-> m.of, t |-> m.t, form |-> e.form, size |-> e.size],
                       [of |-> m.of, t |-> m.t, kind |-> e.kind, resident |-> FALSE])

FlagTransposed(o) == [o EXCEPT !.transposed = ~@]
ViewTransposed(o) == [o EXCEPT !.view = ~@]

\* aten.t shares the codes and the scale; FP8 views its codes, the others flip a flag.
T(i) ==
  LET o == [objects[i] EXCEPT !.shape = Swap(@), !.outer = <<Swap(@[1]), @[2]>>, !.expected.t = ~@]
  IN  i \in Usable /\ AddSharing(IF layout = "fp8" THEN ViewTransposed(o) ELSE FlagTransposed(o))

\* __tensor_flatten__ and __tensor_unflatten__ share everything.
Unflatten(i) == i \in Usable /\ AddSharing(objects[i])

\* Codes shared, parameters cloned.
Detach(i) == i \in Usable /\ AddWithClonedScale(objects[i])

CloneTensor(i) ==
  LET o == objects[i] IN i \in Usable /\ AddFresh(o, codes[o.data], Clone(ScaleOf(o)))

\* A view's codes are laid out anew; the others are contiguous already.
Contiguous(i) ==
  LET o == objects[i]
      c == codes[o.data]
  IN  /\ i \in Usable
      /\ o.view
      /\ AddFresh([o EXCEPT !.view = FALSE], [c EXCEPT !.t = ~@, !.size = Swap(@)], Clone(scales[o.scale]))

\* unpack_w4a8_mma_weight off CUDA.
W4A8Normalize(o, c, device) ==
  IF o.form = "packed" /\ device # "cuda"
  THEN [object |-> [o EXCEPT !.form = "standard"], codes |-> [c EXCEPT !.form = "standard"]]
  ELSE [object |-> o, codes |-> c]

\* qdata ^ 0x88
Xored(c) == [c EXCEPT !.form = IF @ = "prepared" THEN "standard" ELSE "prepared"]

SVDQuantNormalize(o, c, device) ==
  IF o.form = "prepared" /\ device # "xpu"
  THEN [object |-> [o EXCEPT !.form = "standard"], codes |-> Xored(c)]
  ELSE [object |-> o, codes |-> c]

\* normalize_device_storage of the layout
NormalizeDeviceStorage(o, c, device) ==
  IF layout = "w4a8" THEN W4A8Normalize(o, c, device)
  ELSE IF layout = "svdquant" THEN SVDQuantNormalize(o, c, device)
  ELSE [object |-> o, codes |-> c]

\* _handle_to, _handle_to_copy.  Without a move and without force_copy a change of
\* dtype shares the codes.
To(i, device, dtype, force) ==
  LET o == objects[i]
      retyped(p) == [p EXCEPT !.dtype = dtype, !.outer = <<p.shape, dtype>>]
      moved == NormalizeDeviceStorage(o, codes[o.data], device)
      scale == IF o.form = "packed" THEN [of |-> codes[o.data].of, t |-> codes[o.data].t, kind |-> "rows", resident |-> FALSE]
               ELSE Clone(scales[o.scale])
  IN  /\ i \in Usable
      /\ IF device # o.device
         THEN AddFresh(retyped([moved.object EXCEPT !.device = device, !.moved = TRUE]), moved.codes, scale)
         ELSE IF force THEN AddFresh(retyped(o), codes[o.data], scale)
         ELSE dtype # o.dtype /\ AddWithClonedScale(retyped(o))

\* Parameters of the source, codes that nothing has written.
EmptyLike(i, device, dtype) ==
  LET o == objects[i]
  IN  /\ i \in Usable
      /\ AddFresh(Lost([o EXCEPT !.device = device, !.dtype = dtype, !.outer = <<o.shape, dtype>>]),
                  [codes[o.data] EXCEPT !.of = Unwritten], Clone(ScaleOf(o)))

\* The shape of an object's _qdata; packed records have one dimension.
DataShape(o) ==
  IF o.form = "packed" THEN <<codes[o.data].size[1] * codes[o.data].size[2]>>
  ELSE IF o.view THEN Swap(codes[o.data].size) ELSE codes[o.data].size

Sharing(i) == {n \in Objects \ {i} : objects[n].data = objects[i].data}

\* What copy_ leaves in the codes of d.
Overwritten(d, s) ==
  LET c == codes[objects[s].data]
  IN  [c EXCEPT !.t = Flips(Flips(@, objects[s].view), objects[d].view), !.size = codes[objects[d].data].size]

\* As AfterCopy, without the fields of the parameters that are not tensors.
AfterCopyTensorsOnly(d, s) ==
  LET dst == objects[d]
      src == objects[s]
      written == [dst EXCEPT !.expected = src.expected, !.owned = TRUE, !.moved = FALSE]
      turned(a) == Flips(a.expected.t, dst.expected.t)
      follows(a) == /\ a.owned /\ dst.owned
                    /\ a.scale = dst.scale /\ a.scale # 0
                    /\ a.form = src.form
                    /\ turned(a) = Flips(Flips(a.transposed, src.transposed), Flips(a.view, dst.view))
  IN  [n \in Objects |->
         IF n = d THEN written
         ELSE IF n \notin Sharing(d) THEN objects[n]
         ELSE IF ~follows(objects[n]) THEN Lost(objects[n])
         ELSE [objects[n] EXCEPT !.expected = [of |-> src.expected.of, t |-> Flips(src.expected.t, turned(objects[n]))]]]

\* The objects that share d's codes and scale follow a write as views of a plain
\* tensor do, if their flags still stand to d's as they did.  One with another scale
\* has new codes under an old scale.
AfterCopy(d, s) ==
  LET dst == objects[d]
      src == objects[s]
      written == [dst EXCEPT !.shape = src.shape, !.transposed = src.transposed, !.form = src.form,
                             !.expected = src.expected, !.owned = TRUE, !.moved = FALSE]
      turned(a) == Flips(a.expected.t, dst.expected.t)
      follows(a) == /\ a.owned /\ dst.owned
                    /\ a.scale = dst.scale /\ a.scale # 0
                    /\ a.form = src.form
                    /\ turned(a) = Flips(Flips(a.transposed, src.transposed), Flips(a.view, dst.view))
  IN  [n \in Objects |->
         IF n = d THEN written
         ELSE IF n \notin Sharing(d) THEN objects[n]
         ELSE IF ~follows(objects[n]) THEN Lost(objects[n])
         ELSE [objects[n] EXCEPT !.expected = [of |-> src.expected.of, t |-> Flips(src.expected.t, turned(objects[n]))]]]

\* _handle_copy_ between tensors of one shape.  Codes of different shapes raise and
\* change nothing; a scale per row does not fit a scalar, nor the s_channel of packed
\* records one of another length, after the codes are written.
CopyInto(d, s) ==
  LET dst == objects[d]
      src == objects[s]
      c == [codes EXCEPT ![dst.data] = Overwritten(d, s)]
      fits == IF dst.scale = 0 THEN Physical(dst) = Physical(src)
              ELSE scales[dst.scale].kind = "rows" \/ scales[src.scale].kind = "scalar"
  IN  /\ s \in Usable
      /\ src.data # dst.data
      /\ src.outer[1] = dst.outer[1]
      /\ DataShape(src) = DataShape(dst)
      /\ IF ~fits
         THEN Keep(Disown(objects, Sharing(d) \cup {d}), c, scales)
         ELSE IF dst.scale = 0
         THEN Keep(AfterCopy(d, s), c, scales)
         ELSE Keep(AfterCopy(d, s), c,
                   [scales EXCEPT ![dst.scale] = [@ EXCEPT !.of = codes[src.data].of, !.t = codes[src.data].t]])

\* As OptimizeForGemv, keeping the scale it overwrote.
OptimizeForGemvKeepsScale(i) ==
  LET o == objects[i]
      lost == {n \in Objects : objects[n].data = o.data \/ objects[n].scale = o.scale}
  IN  /\ i \in Usable
      /\ Room
      /\ layout = "w4a8"
      /\ o.form # "packed" /\ ~o.transposed /\ o.device = "cuda"
      /\ scales[o.scale].resident
      /\ Keep(Append(Disown(objects, lost), [o EXCEPT !.form = "packed", !.moved = FALSE]),
              [codes EXCEPT ![o.data].form = "packed"],
              [scales EXCEPT ![o.scale].of = Unwritten])

\* AsymW4A8Int8Layout.optimize_for_gemv of an eligible weight: overwrites its codes and
\* its scales, and returns an object that reads the records.
OptimizeForGemv(i) ==
  LET o == objects[i]
      lost == {n \in Objects : objects[n].data = o.data \/ objects[n].scale = o.scale}
  IN  /\ i \in Usable
      /\ Room
      /\ layout = "w4a8"
      /\ o.form # "packed" /\ ~o.transposed /\ o.device = "cuda"
      /\ scales[o.scale].resident
      /\ Keep(Append(Disown(objects, lost), [o EXCEPT !.form = "packed", !.scale = 0, !.moved = FALSE]),
              [codes EXCEPT ![o.data].form = "packed"],
              [scales EXCEPT ![o.scale].of = Unwritten])

\* prepare_svdquant_for_xpu: in place, except that tile-packed codes are reordered into
\* storage of their own, which is refused on the device.
Prepare(i, tile_packed) ==
  LET o == objects[i]
      data == IF tile_packed THEN New ELSE o.data
  IN  /\ i \in Usable
      /\ layout = "svdquant"
      /\ o.form # "prepared" /\ ~o.transposed
      /\ tile_packed => o.device # "xpu"
      /\ Keep(Disown([objects EXCEPT ![i] = [@ EXCEPT !.data = data, !.scale = New, !.form = "prepared",
                                                     !.moved = FALSE]],
                     IF tile_packed THEN {} ELSE Sharing(i)),
              [codes EXCEPT ![data] = Xored(codes[o.data])],
              [scales EXCEPT ![New] = Clone(scales[o.scale])])

\* restore_svdquant_standard_format_
Restore(i) ==
  LET o == objects[i]
  IN  /\ i \in Usable
      /\ o.form = "prepared"
      /\ Keep(Disown([objects EXCEPT ![i] = [@ EXCEPT !.scale = New, !.form = "standard"]], Sharing(i)),
              [codes EXCEPT ![o.data] = Xored(@)], [scales EXCEPT ![New] = Clone(scales[o.scale])])

\* As SVDQuantStateDict, saving what is stored.
SVDQuantStateDictAsStored(o) == codes[o.data]

\* state_dict_tensors: checkpoints hold the standard form.
SVDQuantStateDict(o) == IF o.form = "prepared" THEN Xored(codes[o.data]) ELSE codes[o.data]
W4A8StateDict(o) == IF o.form = "packed" THEN Raise ELSE codes[o.data]

StateDict(o) ==
  IF layout = "svdquant" THEN SVDQuantStateDict(o)
  ELSE IF layout = "w4a8" THEN W4A8StateDict(o)
  ELSE codes[o.data]

\* The program lets go of an object.
Drop(i) == Keep(RemoveAt(objects, i), codes, scales)

Init ==
  /\ layout \in Layouts
  /\ codes = [i \in Slots |-> Free]
  /\ scales = [i \in Slots |-> Free]
  /\ objects = <<>>

Create == \E v \in Sources[layout] : FromFloat(v, "bf16", Home)

Derive(i) ==
  \/ T(i) \/ Unflatten(i) \/ Detach(i) \/ CloneTensor(i) \/ Contiguous(i) \/ Requantize(i)
  \/ \E device \in Devices[layout], dtype \in Dtypes[layout], force \in BOOLEAN : To(i, device, dtype, force)
  \/ \E device \in Devices[layout], dtype \in Dtypes[layout] : EmptyLike(i, device, dtype)

Convert(i) == OptimizeForGemv(i) \/ Restore(i) \/ \E tile_packed \in BOOLEAN : Prepare(i, tile_packed)

Next ==
  \/ Create
  \/ \E i \in Objects : Derive(i) \/ Convert(i) \/ Drop(i)
  \/ \E d, s \in Objects : CopyInto(d, s)

Spec == Init /\ [][Next]_vars

-----------------------------------------------------------------------------
Forms == {"standard"} \cup CASE layout = "int8" -> {"convrot"}
                              [] layout = "svdquant" -> {"prepared"}
                              [] layout = "w4a8" -> {"packed"}
                              [] OTHER -> {}

TypeOK ==
  /\ layout \in Layouts
  /\ \A i \in Slots : codes[i] # Free => codes[i].form \in Forms /\ codes[i].of \in Values \cup {Unwritten}
  /\ \A i \in Slots : scales[i] # Free => scales[i].kind \in {"scalar", "rows"}
  /\ Len(objects) <= MaxObjects
  /\ \A i \in Objects : /\ objects[i].data \in Slots /\ codes[objects[i].data] # Free
                         /\ (objects[i].scale = 0 \/ scales[objects[i].scale] # Free)
                         /\ objects[i].form \in Forms
                         /\ (objects[i].form = "packed") = (objects[i].scale = 0)

\* What a program on plain tensors would have.
Plain(x) ==
  IF ~IsQuantized(x) THEN x
  ELSE [of |-> x.expected.of, t |-> x.expected.t,
        shape |-> IF x.expected.t THEN Swap(Dims[x.expected.of]) ELSE Dims[x.expected.of]]

\* SVDQuantStored: a prepared weight, or a transposed one that is not square, is not
\* dequantized (see DequantizedMatchesKernel).
NotDequantized(x) ==
  /\ IsQuantized(x)
  /\ layout = "svdquant"
  /\ x.form = "prepared" \/ (x.transposed /\ x.shape[1] # x.shape[2])

\* Resident storage that some call other than .to() left on a device that cannot run it.
Stranded(w) ==
  /\ ~w.moved
  /\ (w.form = "packed" /\ w.device # "cuda") \/ (w.form = "prepared" /\ w.device # "xpu")

\* An object reads the matrix a plain tensor would hold, in its logical shape and
\* under the shape and dtype its wrapper shows, whatever copies, views, conversions
\* and moves led to it and its relatives (tensor/base.py:318-339, 452-527).  An object
\* whose storage was overwritten or converted through another is not held to it.
DequantizesToItsValue ==
  \A i \in Usable :
    LET o == objects[i]
    IN  /\ ~NotDequantized(o) => Dequantize(o) = Plain(o)
        /\ o.outer = <<Plain(o).shape, o.dtype>>

\* The cases a handler distinguishes: a native kernel that raises; alpha, beta, addend.
Failures == IF layout \in {"fp8", "nvfp4", "mxfp8"} THEN BOOLEAN ELSE {FALSE}
Scalings == IF layout = "w4a8" THEN BOOLEAN ELSE {FALSE}

\* linear, mm and addmm give the product of the plain matrices in the plain shape,
\* whichever operands are quantized or transposed, whether the native kernel runs or
\* fails; only mm with an untransposed weight is refused, where the layout says so
\* (_resolve_*_rhs).  Operands fit (padding can hide that they do
\* not).  A weight brought to a device by .to() runs there.
ProductsAgree ==
  \A i \in Usable, fails \in Failures, scaled \in Scalings :
    LET w == objects[i]
        floats(n) == {[of |-> "x", t |-> FALSE, shape |-> <<2, n>>]}
        excused(x) == NotDequantized(x) \/ Stranded(w)
        others == {objects[j] : j \in Usable}
        rhs(product, x) ==
          IF layout \in RefusesRhs /\ ~w.transposed THEN product \in {Raise, MatMul(Plain(x), Plain(w))}
          ELSE product = MatMul(Plain(x), Plain(w))
    IN  /\ \A x \in floats(Plain(w).shape[2]) \cup {y \in others : Plain(y).shape[2] = Plain(w).shape[2]} :
             \/ Linear(x, w, fails) = Kernel(Plain(x), Plain(w))
             \/ excused(x) \/ (w.transposed /\ NotDequantized(w))
        /\ \A x \in floats(Plain(w).shape[1]) \cup {y \in others : Plain(y).shape[2] = Plain(w).shape[1]} :
             \/ rhs(MM(x, w, fails), x) /\ rhs(AddMM(x, w, fails, scaled), x)
             \/ excused(x) \/ (scaled /\ NotDequantized(w))

\* A checkpoint gets codes in the standard form with the scale they belong to, also
\* from converted storage; packed records are refused (svdquant_w4a4.py:508-526,
\* w4a8_int8.py:366-378).
SavedInStandardForm ==
  \A i \in Usable :
    LET saved == StateDict(objects[i])
        scale == ScaleOf(objects[i])
    IN  IF objects[i].form = "packed" THEN saved = Raise
        ELSE /\ saved.form \in {"standard", "convrot"}
             /\ saved.of = scale.of /\ (scale.kind = "rows" => saved.t = scale.t)

\* "Reconstruct the effective weight W_eff such that plain x @ W_eff.T + bias
\* reproduces the SVDQuant kernel output" (svdquant_w4a4.py:462-463): whatever state
\* the weight is in that the kernel runs on.
DequantizedMatchesKernel ==
  \A i \in Usable :
    LET w == objects[i]
        x == [of |-> "x", t |-> FALSE, shape |-> <<2, Plain(w).shape[2]>>]
    IN  layout = "svdquant" /\ ~w.transposed /\ Readable(Linear(x, w, FALSE))
        => PlainLinear(x, w) = Linear(x, w, FALSE)
=============================================================================
