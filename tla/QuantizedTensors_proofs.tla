----------------------- MODULE QuantizedTensors_proofs -----------------------
(***************************************************************************)
(* Proofs about QuantizedTensors, for any of the eight layouts, any values    *)
(* and any number of objects.                                                 *)
(*                                                                          *)
(* Objects share codes and scales, so the invariant says of each what it      *)
(* finds in the slots it names (Sound): that codes, scale, flags and shape    *)
(* were built for each other (Built), which no operation may break, and that  *)
(* they still hold the value the object stands for (Reads), which an object   *)
(* loses that somebody wrote to behind its back (`owned`).  Two more facts    *)
(* make it inductive: objects with one scale have one set of codes            *)
(* (ScalesGoWithCodes), so who converts or copies the codes has all that      *)
(* goes with them, and a W4A8 object has no scale once its records are packed *)
(* (ScaleFlag).                                                               *)
(*                                                                          *)
(* Every operation ends in Keep, which renames the slots still in use; it     *)
(* preserves the invariant by KeepInv, so an operation is left with the       *)
(* objects and slots it makes, one lemma each.                                *)
(***************************************************************************)
EXTENDS QuantizedTensors, Iteration, TLAPS

-----------------------------------------------------------------------------
(* The invariant. *)

Shapes == Nat \X Nat
AllDtypes == {"bf16"} \cup UNION {Dtypes[l] : l \in Layouts}
AllDevices == {Home} \cup UNION {Devices[l] : l \in Layouts}
Marks == Values \cup {Unwritten}
Kinds == {"scalar", "rows"}

FormsOf(l) ==
  {"standard"} \cup (IF l = "int8" THEN {"convrot"}
                     ELSE IF l = "svdquant" THEN {"prepared"}
                     ELSE IF l = "w4a8" THEN {"packed"} ELSE {})

CodesType(l) == [of : Marks, t : BOOLEAN, form : FormsOf(l), size : Shapes]
ScaleType == [of : Marks, t : BOOLEAN, kind : Kinds, resident : BOOLEAN]
ObjectType(l) ==
  [data : Slots, scale : {0} \cup Slots, view : BOOLEAN, transposed : BOOLEAN, shape : Shapes,
   dtype : AllDtypes, form : FormsOf(l), device : AllDevices, outer : Shapes \X AllDtypes,
   expected : [of : Marks, t : BOOLEAN], owned : BOOLEAN, moved : BOOLEAN]

PaddedIn(l, shape) == IF l \in Padded THEN <<RoundUp(shape[1]), RoundUp(shape[2])>> ELSE shape
Logical(e) == IF e.t THEN Swap(Dims[e.of]) ELSE Dims[e.of]
Laid(view, size) == IF view THEN Swap(size) ELSE size

\* What the parts of an object have to do with one another, whoever owns them.
Built(l, o, c, s) ==
  /\ c \in CodesType(l)
  /\ o.form # "packed" => s \in ScaleType
  /\ o.outer = <<o.shape, o.dtype>>
  /\ Laid(o.view, c.size) = PaddedIn(l, Physical(o))
  /\ IF l = "fp8" THEN ~o.transposed /\ s.kind = "scalar" ELSE ~o.view

\* What an object reads that nothing was done to behind its back.
Reads(o, c, s) ==
  /\ o.expected.of \in Values
  /\ c.of = o.expected.of
  /\ c.form = o.form
  /\ o.form # "packed" => s.of = c.of /\ (s.kind = "scalar" \/ s.t = c.t)
  /\ Flips(Flips(c.t, o.view), o.transposed) = o.expected.t
  /\ o.shape = Logical(o.expected)
  /\ o.moved => (o.form = "packed" => o.device = "cuda") /\ (o.form = "prepared" => o.device = "xpu")

Sound(l, o, c, s) == Built(l, o, c, s) /\ (o.owned => Reads(o, c, s))

At(ss, n) == IF n = 0 THEN Free ELSE ss[n]
ScaleFlag(o) == (o.form = "packed") = (o.scale = 0)
AllSound(l, objs, cs, ss) ==
  \A n \in DOMAIN objs : ScaleFlag(objs[n]) /\ Sound(l, objs[n], cs[objs[n].data], At(ss, objs[n].scale))
ScalesGoWithCodes(objs) ==
  \A m, n \in DOMAIN objs : objs[m].scale = objs[n].scale /\ objs[m].scale # 0 => objs[m].data = objs[n].data

Wellformed(l, objs, cs, ss) ==
  /\ objs \in Seq(ObjectType(l))
  /\ Len(objs) <= MaxObjects
  /\ AllSound(l, objs, cs, ss)
  /\ ScalesGoWithCodes(objs)

Inv ==
  /\ layout \in Layouts
  /\ codes \in [Slots -> CodesType(layout) \cup {Free}]
  /\ scales \in [Slots -> ScaleType \cup {Free}]
  /\ \A n \in DOMAIN objects : objects[n].data <= MaxObjects /\ objects[n].scale <= MaxObjects
  /\ Wellformed(layout, objects, codes, scales)

-----------------------------------------------------------------------------
LEMMA SlotFacts == MaxObjects \in Nat /\ New \in Slots /\ Slots = 1 .. MaxObjects + 1 /\ Slots \subseteq Nat /\ 0 \notin Slots
BY SizesAssumption DEF Slots, New

\* Changing the slots of an object changes nothing else of it.
SameBody(o, p) ==
  /\ p.view = o.view /\ p.transposed = o.transposed /\ p.shape = o.shape /\ p.dtype = o.dtype /\ p.form = o.form
  /\ p.device = o.device /\ p.outer = o.outer /\ p.expected = o.expected /\ p.owned = o.owned /\ p.moved = o.moved

LEMMA SoundElsewhere ==
  ASSUME NEW l, NEW o, NEW p, NEW c, NEW s, SameBody(o, p), Sound(l, o, c, s)
  PROVE  Sound(l, p, c, s)
<1>1. Built(l, p, c, s)
  BY DEF SameBody, Built, Physical, Sound
<1>2. p.owned => Reads(p, c, s)
  BY DEF SameBody, Reads, Sound
<1> QED BY <1>1, <1>2 DEF Sound

\* Which scale goes with packed records does not matter.
LEMMA SoundPacked ==
  ASSUME NEW l, NEW o \in ObjectType(l), NEW c, NEW s, NEW r, o.form = "packed", Sound(l, o, c, s)
  PROVE  Sound(l, o, c, r)
<1>1. l # "fp8"
  BY DEF ObjectType, FormsOf
<1> QED BY <1>1 DEF Sound, Built, Reads

\* FirstWith names the first of the objects with the same slot.
FirstIs(objs, n, part, m) ==
  /\ m \in 1 .. n
  /\ objs[m][part] = objs[n][part]
  /\ \A k \in 1 .. m - 1 : objs[k][part] # objs[n][part]

LEMMA FirstExists ==
  ASSUME NEW objs, NEW part, NEW n \in Nat \ {0}, objs[n][part] # 0
  PROVE  FirstIs(objs, n, part, FirstWith(objs, n, part))
<1> DEFINE Same == {m \in 1 .. n : objs[m][part] = objs[n][part]}
<1>1. Same \in SUBSET Nat /\ Same # {}
  <2>1. n \in Same
    OBVIOUS
  <2> QED BY <2>1
<1>2. PICK m \in Same : \A k \in Same : m <= k
  BY <1>1, LeastNatural
<1>3. FirstIs(objs, n, part, m)
  <2>1. m \in 1 .. n /\ objs[m][part] = objs[n][part]
    BY <1>2
  <2>2. ASSUME NEW k \in 1 .. m - 1
        PROVE  objs[k][part] # objs[n][part]
    <3>1. k \in 1 .. n /\ ~(m <= k)
      BY <2>1
    <3>2. k \notin Same
      BY <3>1, <1>2
    <3> QED BY <3>1, <3>2
  <2> QED BY <2>1, <2>2 DEF FirstIs
<1>4. FirstWith(objs, n, part) = CHOOSE x \in 1 .. n : FirstIs(objs, n, part, x)
  BY DEF FirstWith, FirstIs
<1>5. m \in 1 .. n
  BY <1>2
<1> QED BY <1>3, <1>4, <1>5

LEMMA FirstAgree ==
  ASSUME NEW objs, NEW part, NEW m \in Nat \ {0}, NEW n \in Nat \ {0},
         objs[m][part] = objs[n][part], objs[n][part] # 0
  PROVE  FirstWith(objs, m, part) = FirstWith(objs, n, part)
<1> DEFINE f == FirstWith(objs, m, part)
           g == FirstWith(objs, n, part)
<1>1. FirstIs(objs, m, part, f) /\ FirstIs(objs, n, part, g)
  BY FirstExists
<1> HIDE DEF f, g
<1>2. /\ f \in Nat /\ g \in Nat /\ f >= 1 /\ g >= 1
      /\ objs[f][part] = objs[n][part] /\ objs[g][part] = objs[n][part]
      /\ \A k \in 1 .. f - 1 : objs[k][part] # objs[n][part]
      /\ \A k \in 1 .. g - 1 : objs[k][part] # objs[n][part]
  BY <1>1 DEF FirstIs
<1>3. ~(f < g)
  <2> SUFFICES ASSUME f < g PROVE FALSE
    OBVIOUS
  <2>1. f \in 1 .. g - 1
    BY <1>2
  <2> QED BY <1>2, <2>1
<1>4. ~(g < f)
  <2> SUFFICES ASSUME g < f PROVE FALSE
    OBVIOUS
  <2>1. g \in 1 .. f - 1
    BY <1>2
  <2> QED BY <1>2, <2>1
<1>5. f = g
  BY <1>2, <1>3, <1>4
<1> QED BY <1>5 DEF f, g

\* The objects that Keep leaves, under their slots' new names.
Renamed(objs) ==
  [n \in DOMAIN objs |->
     [objs[n] EXCEPT !.data = FirstWith(objs, n, "data"), !.scale = FirstWith(objs, n, "scale")]]

RenamedAs(l, objs, n, o, p) ==
  /\ o \in ObjectType(l)
  /\ FirstIs(objs, n, "data", p.data) /\ p.data \in 1 .. Len(objs)
  /\ o.scale = 0 => p.scale = 0
  /\ o.scale # 0 => FirstIs(objs, n, "scale", p.scale) /\ p.scale \in 1 .. Len(objs)
  /\ p.data \in Slots /\ p.scale \in {0} \cup Slots
  /\ p = [o EXCEPT !.data = p.data, !.scale = p.scale]
  /\ p.data = FirstWith(objs, n, "data") /\ p.scale = FirstWith(objs, n, "scale")

LEMMA RenamedFacts ==
  ASSUME NEW l, NEW objs \in Seq(ObjectType(l)), Len(objs) <= MaxObjects, NEW n \in DOMAIN objs
  PROVE  RenamedAs(l, objs, n, objs[n], Renamed(objs)[n])
<1> DEFINE o == objs[n]
           d == FirstWith(objs, n, "data")
           e == FirstWith(objs, n, "scale")
<1>1. /\ n \in Nat \ {0} /\ n <= Len(objs) /\ Len(objs) \in Nat /\ o \in ObjectType(l) /\ DOMAIN objs = 1 .. Len(objs)
  OBVIOUS
<1>2. o["data"] = o.data /\ o["scale"] = o.scale /\ o.data \in Slots /\ o.scale \in {0} \cup Slots /\ o.data # 0
  BY <1>1, SlotFacts DEF ObjectType
<1>3. FirstIs(objs, n, "data", d)
  BY <1>1, <1>2, FirstExists
<1>4. o.scale = 0 => e = 0
  BY <1>2 DEF FirstWith
<1>5. o.scale # 0 => FirstIs(objs, n, "scale", e)
  BY <1>1, <1>2, FirstExists
<1> HIDE DEF d, e
<1>6. d \in 1 .. Len(objs) /\ (o.scale # 0 => e \in 1 .. Len(objs))
  BY <1>1, <1>3, <1>5 DEF FirstIs
<1>7. d \in Slots /\ e \in {0} \cup Slots
  BY <1>1, <1>4, <1>6, SlotFacts
<1>8. Renamed(objs)[n] = [o EXCEPT !.data = d, !.scale = e]
  BY DEF Renamed, d, e
<1>9. Renamed(objs)[n].data = d /\ Renamed(objs)[n].scale = e
  BY <1>1, <1>7, <1>8 DEF ObjectType
<1> QED BY <1>1, <1>3, <1>4, <1>5, <1>6, <1>7, <1>8, <1>9 DEF d, e, RenamedAs

\* What Keep stores of the given codes, or scales.
Stores(objs, part, stored) ==
  [i \in Slots |-> IF i \in DOMAIN objs /\ FirstWith(objs, i, part) = i THEN stored[objs[i][part]] ELSE Free]

\* An object finds under the new name what it had under the old one.
LEMMA StoredAtFirst ==
  ASSUME NEW l, NEW objs \in Seq(ObjectType(l)), Len(objs) <= MaxObjects, NEW n \in DOMAIN objs,
         NEW part, NEW stored, objs[n][part] # 0
  PROVE  Stores(objs, part, stored)[FirstWith(objs, n, part)] = stored[objs[n][part]]
<1> DEFINE f == FirstWith(objs, n, part)
<1>1. n \in Nat \ {0} /\ n <= Len(objs) /\ Len(objs) \in Nat /\ DOMAIN objs = 1 .. Len(objs)
  OBVIOUS
<1>2. FirstIs(objs, n, part, f)
  BY <1>1, FirstExists
<1> HIDE DEF f
<1>3. f \in Nat \ {0} /\ f \in 1 .. Len(objs) /\ objs[f][part] = objs[n][part]
  BY <1>1, <1>2 DEF FirstIs
<1>4. f \in Slots
  BY <1>1, <1>3, SlotFacts
<1>5. FirstWith(objs, f, part) = f
  BY <1>1, <1>3, FirstAgree DEF f
<1> QED BY <1>1, <1>3, <1>4, <1>5 DEF Stores, f

LEMMA KeepInv ==
  ASSUME layout \in Layouts, NEW STATE objs, NEW STATE cs, NEW STATE ss, Wellformed(layout, objs, cs, ss), Keep(objs, cs, ss)
  PROVE  Inv'
<1> DEFINE l == layout
           objs2 == Renamed(objs)
           cs2 == Stores(objs, "data", cs)
           ss2 == Stores(objs, "scale", ss)
<1>1. objects' = objs2 /\ codes' = cs2 /\ scales' = ss2 /\ layout' = l
  BY DEF Keep, Renamed, Stores
<1>2. objs \in Seq(ObjectType(l)) /\ Len(objs) <= MaxObjects /\ AllSound(l, objs, cs, ss) /\ ScalesGoWithCodes(objs)
  BY DEF Wellformed
<1>3. DOMAIN objs2 = DOMAIN objs /\ DOMAIN objs = 1 .. Len(objs) /\ Len(objs) \in Nat
  BY <1>2 DEF Renamed
<1>4. ASSUME NEW n \in DOMAIN objs
      PROVE  /\ objs2[n] \in ObjectType(l) /\ ScaleFlag(objs2[n])
             /\ Sound(l, objs2[n], cs2[objs2[n].data], At(ss2, objs2[n].scale))
             /\ objs2[n].data <= MaxObjects /\ objs2[n].scale <= MaxObjects
  <2> DEFINE o == objs[n]
             p == objs2[n]
             c == cs[o.data]
             s == At(ss, o.scale)
  <2>1. /\ o \in ObjectType(l)
        /\ FirstIs(objs, n, "data", p.data) /\ p.data \in 1 .. Len(objs)
        /\ o.scale = 0 => p.scale = 0
        /\ o.scale # 0 => FirstIs(objs, n, "scale", p.scale) /\ p.scale \in 1 .. Len(objs)
        /\ p.data \in Slots /\ p.scale \in {0} \cup Slots
        /\ p = [o EXCEPT !.data = p.data, !.scale = p.scale]
        /\ p.data = FirstWith(objs, n, "data") /\ p.scale = FirstWith(objs, n, "scale")
    <3>1. RenamedAs(l, objs, n, o, p)
      BY <1>2, RenamedFacts
    <3> QED BY <3>1 DEF RenamedAs
  <2>2. o["data"] = o.data /\ o["scale"] = o.scale /\ o.data # 0
    BY <2>1, SlotFacts DEF ObjectType
  <2>3. cs2[p.data] = c
    BY <1>2, <2>1, <2>2, StoredAtFirst
  <2>4. At(ss2, p.scale) = s
    <3>1. CASE o.scale = 0
      BY <3>1, <2>1 DEF At
    <3>2. CASE o.scale # 0
      <4>1. p.scale # 0
        BY <1>3, <2>1, <3>2
      <4>2. ss2[p.scale] = ss[o.scale]
        BY <1>2, <2>1, <2>2, <3>2, StoredAtFirst
      <4> QED BY <3>2, <4>1, <4>2 DEF At
    <3> QED BY <3>1, <3>2
  <2>5. ScaleFlag(o) /\ Sound(l, o, c, s)
    BY <1>2 DEF AllSound
  <2> DEFINE q == [o EXCEPT !.data = p.data, !.scale = p.scale]
  <2>6. q \in ObjectType(l) /\ q.form = o.form /\ SameBody(o, q)
    BY <2>1 DEF ObjectType, SameBody
  <2>7. p = q
    BY <2>1
  <2>8. (o.scale = 0) = (p.scale = 0)
    BY <2>1, <1>3
  <2>9. p.data <= MaxObjects /\ p.scale <= MaxObjects
    <3>1. p.data \in Nat /\ p.scale \in Nat /\ p.data <= Len(objs) /\ p.scale <= Len(objs)
      BY <1>3, <2>1
    <3> QED BY <1>2, <1>3, <3>1, SlotFacts
  <2> HIDE DEF o, p, q, c, s
  <2>10. p \in ObjectType(l) /\ ScaleFlag(p)
    BY <2>5, <2>6, <2>7, <2>8 DEF ScaleFlag
  <2>11. Sound(l, p, c, s)
    BY <2>5, <2>6, <2>7, SoundElsewhere
  <2> QED BY <2>3, <2>4, <2>9, <2>10, <2>11 DEF p
<1>5. objs2 \in Seq(ObjectType(l)) /\ Len(objs2) = Len(objs)
  <2>1. objs2 = [n \in 1 .. Len(objs) |-> objs2[n]]
    BY <1>3 DEF Renamed
  <2> HIDE DEF objs2
  <2>2. [n \in 1 .. Len(objs) |-> objs2[n]] \in [1 .. Len(objs) -> ObjectType(l)]
    BY <1>3, <1>4
  <2>3. objs2 \in [1 .. Len(objs) -> ObjectType(l)]
    BY <2>1, <2>2, Zenon
  <2> QED BY <1>3, <2>3
<1>6. AllSound(l, objs2, cs2, ss2)
  <2> HIDE DEF objs2, cs2, ss2
  <2> QED BY <1>3, <1>4 DEF AllSound
<1>7. ScalesGoWithCodes(objs2)
  <2> SUFFICES ASSUME NEW m \in DOMAIN objs, NEW n \in DOMAIN objs, objs2[m].scale = objs2[n].scale, objs2[m].scale # 0
               PROVE  objs2[m].data = objs2[n].data
    BY <1>3 DEF ScalesGoWithCodes
  <2>m. /\ objs[m].scale # 0 /\ FirstIs(objs, m, "scale", objs2[m].scale) /\ objs[m] \in ObjectType(l)
        /\ objs2[m].data = FirstWith(objs, m, "data")
    <3>1. RenamedAs(l, objs, m, objs[m], objs2[m])
      BY <1>2, RenamedFacts
    <3> QED BY <3>1 DEF RenamedAs
  <2>n. /\ objs[n].scale # 0 /\ FirstIs(objs, n, "scale", objs2[n].scale) /\ objs[n] \in ObjectType(l)
        /\ objs2[n].data = FirstWith(objs, n, "data")
    <3>1. RenamedAs(l, objs, n, objs[n], objs2[n])
      BY <1>2, RenamedFacts
    <3> QED BY <3>1 DEF RenamedAs
  <2>1. /\ objs[m].scale # 0 /\ objs[n].scale # 0
        /\ FirstIs(objs, m, "scale", objs2[m].scale) /\ FirstIs(objs, n, "scale", objs2[n].scale)
        /\ objs[m] \in ObjectType(l) /\ objs[n] \in ObjectType(l)
        /\ objs2[m].data = FirstWith(objs, m, "data") /\ objs2[n].data = FirstWith(objs, n, "data")
    BY <2>m, <2>n
  <2>2. /\ objs[m]["scale"] = objs[m].scale /\ objs[n]["scale"] = objs[n].scale
        /\ objs[m]["data"] = objs[m].data /\ objs[n]["data"] = objs[n].data /\ objs[n].data # 0
    BY <2>1, SlotFacts DEF ObjectType
  <2>3. objs[m].scale = objs[n].scale
    BY <2>1, <2>2 DEF FirstIs
  <2>4. objs[m].data = objs[n].data
    BY <1>2, <2>1, <2>3 DEF ScalesGoWithCodes
  <2>5. m \in Nat \ {0} /\ n \in Nat \ {0}
    BY <1>3
  <2> QED BY <2>1, <2>2, <2>4, <2>5, FirstAgree
<1>8. cs2 \in [Slots -> CodesType(l) \cup {Free}]
  <2> SUFFICES ASSUME NEW i \in Slots PROVE cs2[i] \in CodesType(l) \cup {Free}
    BY DEF Stores
  <2>1. CASE i \in DOMAIN objs /\ FirstWith(objs, i, "data") = i
    <3>1. objs[i] \in ObjectType(l) /\ Sound(l, objs[i], cs[objs[i].data], At(ss, objs[i].scale))
      BY <1>2, <2>1 DEF AllSound
    <3>2. cs[objs[i].data] \in CodesType(l) /\ objs[i]["data"] = objs[i].data
      BY <3>1 DEF Sound, Built, ObjectType
    <3> QED BY <2>1, <3>2 DEF Stores
  <2>2. CASE ~(i \in DOMAIN objs /\ FirstWith(objs, i, "data") = i)
    BY <2>2 DEF Stores
  <2> QED BY <2>1, <2>2
<1>9. ss2 \in [Slots -> ScaleType \cup {Free}]
  <2> SUFFICES ASSUME NEW i \in Slots PROVE ss2[i] \in ScaleType \cup {Free}
    BY DEF Stores
  <2>1. CASE i \in DOMAIN objs /\ FirstWith(objs, i, "scale") = i
    <3>1. objs[i] \in ObjectType(l) /\ ScaleFlag(objs[i]) /\ Sound(l, objs[i], cs[objs[i].data], At(ss, objs[i].scale))
      BY <1>2, <2>1 DEF AllSound
    <3>2. objs[i]["scale"] = objs[i].scale
      BY <3>1 DEF ObjectType
    <3>3. objs[i].scale # 0
      BY <2>1, <3>2, SlotFacts DEF FirstWith
    <3>4. ss[objs[i].scale] \in ScaleType
      BY <3>1, <3>3 DEF Sound, Built, ScaleFlag, At
    <3> QED BY <2>1, <3>2, <3>4 DEF Stores
  <2>2. CASE ~(i \in DOMAIN objs /\ FirstWith(objs, i, "scale") = i)
    BY <2>2 DEF Stores
  <2> QED BY <2>1, <2>2
<1>10. Wellformed(l, objs2, cs2, ss2)
  <2> HIDE DEF objs2, cs2, ss2
  <2> QED BY <1>2, <1>5, <1>6, <1>7 DEF Wellformed
<1>11. \A n \in DOMAIN objs2 : objs2[n].data <= MaxObjects /\ objs2[n].scale <= MaxObjects
  <2> HIDE DEF objs2, cs2, ss2
  <2> QED BY <1>3, <1>4
<1> HIDE DEF objs2, cs2, ss2
<1> QED BY <1>1, <1>8, <1>9, <1>10, <1>11 DEF Inv

-----------------------------------------------------------------------------
(* One more object. *)

LEMMA InvFacts ==
  ASSUME Inv
  PROVE  /\ layout \in Layouts /\ objects \in Seq(ObjectType(layout)) /\ DOMAIN objects = 1 .. Len(objects)
         /\ Objects = DOMAIN objects /\ Len(objects) \in Nat /\ Len(objects) <= MaxObjects
         /\ codes \in [Slots -> CodesType(layout) \cup {Free}] /\ scales \in [Slots -> ScaleType \cup {Free}]
BY DEF Inv, Wellformed, Objects

LEMMA ObjectFacts ==
  ASSUME Inv, NEW n \in Objects
  PROVE  /\ n \in DOMAIN objects /\ objects[n] \in ObjectType(layout) /\ ScaleFlag(objects[n])
         /\ Sound(layout, objects[n], codes[objects[n].data], At(scales, objects[n].scale))
         /\ objects[n].data \in 1 .. MaxObjects /\ objects[n].scale \in 0 .. MaxObjects
         /\ objects[n].data \in Slots /\ objects[n].data # New /\ objects[n].scale # New
<1>1. n \in DOMAIN objects /\ objects[n] \in ObjectType(layout)
  BY InvFacts
<1>2. objects[n].data <= MaxObjects /\ objects[n].scale <= MaxObjects
  BY <1>1 DEF Inv
<1>3. objects[n].data \in Slots /\ objects[n].scale \in {0} \cup Slots
  BY <1>1 DEF ObjectType
<1>4. objects[n].data \in 1 .. MaxObjects /\ objects[n].scale \in 0 .. MaxObjects
  BY <1>2, <1>3, SlotFacts
<1>5. ScaleFlag(objects[n]) /\ Sound(layout, objects[n], codes[objects[n].data], At(scales, objects[n].scale))
  BY <1>1 DEF Inv, Wellformed, AllSound
<1> QED BY <1>1, <1>3, <1>4, <1>5, SlotFacts DEF New

Untouched(cs, ss) ==
  \A n \in Objects : /\ cs[objects[n].data] = codes[objects[n].data]
                     /\ At(ss, objects[n].scale) = At(scales, objects[n].scale)

Companions(q) == \A n \in Objects : objects[n].scale = q.scale /\ q.scale # 0 => objects[n].data = q.data

LEMMA AppendOne ==
  ASSUME NEW STATE objs, NEW STATE cs, NEW STATE ss, Wellformed(layout, objs, cs, ss), Len(objs) < MaxObjects,
         NEW STATE q, q \in ObjectType(layout), ScaleFlag(q), Sound(layout, q, cs[q.data], At(ss, q.scale)),
         \A n \in DOMAIN objs : objs[n].scale = q.scale /\ q.scale # 0 => objs[n].data = q.data
  PROVE  Wellformed(layout, Append(objs, q), cs, ss)
<1> DEFINE more == Append(objs, q)
           k == Len(objs) + 1
<1>0. objs \in Seq(ObjectType(layout)) /\ AllSound(layout, objs, cs, ss) /\ ScalesGoWithCodes(objs)
  BY DEF Wellformed
<1>1. more \in Seq(ObjectType(layout)) /\ Len(more) = k /\ DOMAIN more = 1 .. k /\ k \in Nat
  BY <1>0
<1>2. more[k] = q /\ \A n \in DOMAIN objs : n # k /\ more[n] = objs[n]
  BY <1>0
<1>3. Len(more) <= MaxObjects
  BY <1>0, <1>1, SlotFacts
<1>4. ASSUME NEW n \in DOMAIN more, n # k
      PROVE  n \in DOMAIN objs
  BY <1>0, <1>1, <1>4
<1> HIDE DEF more, k
<1>5. AllSound(layout, more, cs, ss)
  <2> SUFFICES ASSUME NEW n \in DOMAIN more
               PROVE  ScaleFlag(more[n]) /\ Sound(layout, more[n], cs[more[n].data], At(ss, more[n].scale))
    BY DEF AllSound
  <2>1. CASE n = k
    BY <2>1, <1>2
  <2>2. CASE n # k
    BY <1>0, <1>2, <1>4, <2>2 DEF AllSound
  <2> QED BY <2>1, <2>2
<1>6. ScalesGoWithCodes(more)
  <2> SUFFICES ASSUME NEW m \in DOMAIN more, NEW n \in DOMAIN more, more[m].scale = more[n].scale, more[m].scale # 0
               PROVE  more[m].data = more[n].data
    BY DEF ScalesGoWithCodes
  <2>1. CASE m = k
    BY <2>1, <1>2, <1>4
  <2>2. CASE n = k
    BY <2>2, <1>2, <1>4
  <2>3. CASE m # k /\ n # k
    BY <2>3, <1>0, <1>2, <1>4 DEF ScalesGoWithCodes
  <2> QED BY <2>1, <2>2, <2>3
<1> QED BY <1>1, <1>3, <1>5, <1>6 DEF Wellformed, more

LEMMA AppendWellformed ==
  ASSUME Inv, Room, NEW STATE q, q \in ObjectType(layout), ScaleFlag(q), NEW STATE cs, NEW STATE ss,
         Untouched(cs, ss), Companions(q), Sound(layout, q, cs[q.data], At(ss, q.scale))
  PROVE  Wellformed(layout, Append(objects, q), cs, ss)
<1>1. Wellformed(layout, objects, codes, scales) /\ Objects = DOMAIN objects
  BY InvFacts DEF Inv
<1>2. AllSound(layout, objects, cs, ss)
  BY <1>1 DEF Wellformed, AllSound, Untouched
<1>3. Wellformed(layout, objects, cs, ss)
  BY <1>1, <1>2 DEF Wellformed
<1>4. \A n \in DOMAIN objects : objects[n].scale = q.scale /\ q.scale # 0 => objects[n].data = q.data
  BY <1>1 DEF Companions
<1> QED BY <1>3, <1>4, AppendOne DEF Room

\* An object with codes and scale of its own.
LEMMA AddFreshInv ==
  ASSUME Inv, NEW STATE q, NEW STATE c, NEW STATE s, q \in ObjectType(layout), Sound(layout, q, c, s), c.form = q.form,
         AddFresh(q, c, s)
  PROVE  Inv'
<1> DEFINE e == IF c.form = "packed" THEN 0 ELSE New
           p == [q EXCEPT !.data = New, !.scale = e]
           cs == [codes EXCEPT ![New] = c]
           ss == IF c.form = "packed" THEN scales ELSE [scales EXCEPT ![New] = s]
<1>1. Room /\ Keep(Append(objects, p), cs, ss)
  BY DEF AddFresh
<1>2. e \in {0} \cup Slots /\ New \in Slots /\ New # 0
  BY SlotFacts DEF New
<1>3. p \in ObjectType(layout) /\ p.data = New /\ p.scale = e /\ SameBody(q, p)
  BY <1>2 DEF ObjectType, SameBody
<1>4. ScaleFlag(p)
  BY <1>2, <1>3 DEF ScaleFlag, SameBody
<1>5. cs[New] = c
  BY <1>2, InvFacts
<1>6. Sound(layout, p, c, s)
  BY <1>3, SoundElsewhere
<1>7. Sound(layout, p, cs[p.data], At(ss, p.scale))
  <2>1. CASE c.form = "packed"
    <3>1. p.form = "packed"
      BY <1>3, <2>1 DEF SameBody
    <3>2. Sound(layout, p, c, At(ss, p.scale))
      BY <1>3, <1>6, <3>1, SoundPacked
    <3> QED BY <3>2, <1>3, <1>5
  <2>2. CASE c.form # "packed"
    <3>1. At(ss, p.scale) = s
      BY <1>2, <1>3, <2>2, InvFacts DEF At
    <3> QED BY <3>1, <1>3, <1>5, <1>6
  <2> QED BY <2>1, <2>2
<1>8. Untouched(cs, ss)
  <2> SUFFICES ASSUME NEW n \in Objects
               PROVE  /\ cs[objects[n].data] = codes[objects[n].data]
                      /\ At(ss, objects[n].scale) = At(scales, objects[n].scale)
    BY DEF Untouched
  <2>1. objects[n].data \in Slots /\ objects[n].data # New /\ objects[n].scale # New /\ objects[n] \in ObjectType(layout)
    BY ObjectFacts
  <2>2. objects[n].scale \in {0} \cup Slots
    BY <2>1 DEF ObjectType
  <2> QED BY <2>1, <2>2, InvFacts DEF At
<1>9. Companions(p)
  BY <1>2, <1>3, ObjectFacts DEF Companions
<1> HIDE DEF p, cs, ss, e
<1>10. Wellformed(layout, Append(objects, p), cs, ss)
  BY <1>1, <1>3, <1>4, <1>7, <1>8, <1>9, AppendWellformed
<1> QED BY <1>1, <1>10, InvFacts, KeepInv

LEMMA AddSharingInv ==
  ASSUME Inv, NEW STATE q, NEW i \in Objects, q \in ObjectType(layout), q.data = objects[i].data, q.scale = objects[i].scale,
         q.form = objects[i].form, Sound(layout, q, codes[q.data], At(scales, q.scale)), AddSharing(q)
  PROVE  Inv'
<1>1. Room /\ Keep(Append(objects, q), codes, scales)
  BY DEF AddSharing
<1>2. Untouched(codes, scales)
  BY DEF Untouched
<1>3. ScaleFlag(q)
  BY ObjectFacts DEF ScaleFlag
<1>4. Companions(q)
  BY InvFacts DEF Companions, Inv, Wellformed, ScalesGoWithCodes
<1>5. Wellformed(layout, Append(objects, q), codes, scales)
  BY <1>1, <1>2, <1>3, <1>4, AppendWellformed
<1> QED BY <1>1, <1>5, InvFacts, KeepInv

LEMMA CloneSound ==
  ASSUME NEW l, NEW o, NEW c, NEW s, Sound(l, o, c, s), l \in Layouts, s \in ScaleType \cup {Free}
  PROVE  Sound(l, o, c, Clone(s))
<1>1. CASE s = Free
  BY <1>1 DEF Clone
<1>2. CASE s \in ScaleType
  <2>1. s # Free
    BY <1>2 DEF ScaleType, Free
  <2>2. Clone(s) = [s EXCEPT !.resident = FALSE]
    BY <2>1 DEF Clone
  <2>3. Clone(s) \in ScaleType /\ Clone(s).of = s.of /\ Clone(s).t = s.t /\ Clone(s).kind = s.kind
    BY <1>2, <2>2 DEF ScaleType
  <2> QED BY <2>3 DEF Sound, Built, Reads
<1> QED BY <1>1, <1>2

LEMMA AddWithClonedScaleInv ==
  ASSUME Inv, NEW STATE q, NEW i \in Objects, q \in ObjectType(layout), q.data = objects[i].data, q.scale = objects[i].scale,
         q.form = objects[i].form, Sound(layout, q, codes[q.data], At(scales, q.scale)), AddWithClonedScale(q)
  PROVE  Inv'
<1>1. CASE q.scale = 0
  <2>1. AddSharing(q)
    BY <1>1 DEF AddWithClonedScale
  <2> QED BY <2>1, AddSharingInv
<1>2. CASE q.scale # 0
  <2> DEFINE s == Clone(scales[q.scale])
             ss == [scales EXCEPT ![New] = s]
             p == [q EXCEPT !.scale = New]
  <2>1. Room /\ Keep(Append(objects, p), codes, ss)
    BY <1>2 DEF AddWithClonedScale
  <2>2. New \in Slots /\ New # 0
    BY SlotFacts DEF New
  <2>3. p \in ObjectType(layout) /\ p.data = q.data /\ p.scale = New /\ SameBody(q, p)
    BY <2>2 DEF ObjectType, SameBody
  <2>4. Untouched(codes, ss)
    <3> SUFFICES ASSUME NEW n \in Objects
                 PROVE  At(ss, objects[n].scale) = At(scales, objects[n].scale)
      BY DEF Untouched
    <3>1. objects[n].scale # New /\ objects[n] \in ObjectType(layout)
      BY ObjectFacts
    <3>2. objects[n].scale \in {0} \cup Slots
      BY <3>1 DEF ObjectType
    <3> QED BY <3>1, <3>2, InvFacts DEF At
  <2>5. Companions(p)
    BY <2>3, ObjectFacts DEF Companions
  <2>6. ScaleFlag(p)
    BY <1>2, <2>2, <2>3, ObjectFacts DEF ScaleFlag, SameBody
  <2>7. Sound(layout, q, codes[q.data], s)
    <3>1. q.scale \in Slots
      BY <1>2 DEF ObjectType
    <3>2. scales[q.scale] \in ScaleType \cup {Free} /\ layout \in Layouts
      BY <3>1, InvFacts
    <3>3. Sound(layout, q, codes[q.data], scales[q.scale])
      BY <1>2 DEF At
    <3> QED BY <3>2, <3>3, CloneSound
  <2>8. At(ss, p.scale) = s
    BY <2>2, <2>3, InvFacts DEF At
  <2>9. Sound(layout, p, codes[p.data], s)
    BY <2>3, <2>7, SoundElsewhere
  <2> HIDE DEF p, ss, s
  <2>10. Wellformed(layout, Append(objects, p), codes, ss)
    BY <2>1, <2>3, <2>4, <2>5, <2>6, <2>8, <2>9, AppendWellformed
  <2> QED BY <2>1, <2>10, InvFacts, KeepInv
<1> QED BY <1>1, <1>2

-----------------------------------------------------------------------------
(* The operations that derive an object from another. *)

LEMMA FlipFacts ==
  ASSUME NEW a \in BOOLEAN, NEW b \in BOOLEAN
  PROVE  /\ Flips(a, b) \in BOOLEAN /\ Flips(~a, b) = ~Flips(a, b) /\ Flips(a, ~b) = ~Flips(a, b)
         /\ Flips(a, FALSE) = a /\ Flips(a, a) = FALSE /\ Flips(a, b) = Flips(b, a)
BY DEF Flips

LEMMA SwapFacts ==
  ASSUME NEW s \in Shapes
  PROVE  /\ Swap(s) \in Shapes /\ Swap(Swap(s)) = s /\ Swap(s)[1] = s[2] /\ Swap(s)[2] = s[1]
         /\ s[1] \in Nat /\ s[2] \in Nat /\ s = <<s[1], s[2]>>
BY DEF Swap, Shapes

LEMMA LaidFacts ==
  ASSUME NEW s \in Shapes, NEW v \in BOOLEAN
  PROVE  Laid(v, s) \in Shapes /\ Laid(~v, s) = Swap(Laid(v, s)) /\ Laid(v, Laid(v, s)) = s /\ Laid(FALSE, s) = s
BY SwapFacts DEF Laid

LEMMA LogicalFacts ==
  ASSUME NEW e, e.of \in Values, e.t \in BOOLEAN, NEW f, f.of = e.of, f.t = ~e.t
  PROVE  Logical(e) \in Shapes /\ Logical(f) = Swap(Logical(e))
<1>1. Dims[e.of] \in Shapes
  BY LayoutsAssumption DEF Shapes
<1> QED BY <1>1, SwapFacts DEF Logical

LEMMA TypeFacts ==
  ASSUME NEW l, NEW o \in ObjectType(l)
  PROVE  /\ o.view \in BOOLEAN /\ o.transposed \in BOOLEAN /\ o.shape \in Shapes /\ o.dtype \in AllDtypes
         /\ o.form \in FormsOf(l) /\ o.device \in AllDevices /\ o.outer \in Shapes \X AllDtypes
         /\ o.expected.of \in Marks /\ o.expected.t \in BOOLEAN /\ o.expected \in [of : Marks, t : BOOLEAN]
         /\ o.owned \in BOOLEAN /\ o.moved \in BOOLEAN
         /\ o.data \in Slots /\ o.scale \in {0} \cup Slots
BY DEF ObjectType

LEMMA UsableFacts ==
  ASSUME Inv, NEW i \in Usable
  PROVE  /\ i \in Objects /\ objects[i] \in ObjectType(layout) /\ layout \in Layouts
         /\ Sound(layout, objects[i], codes[objects[i].data], At(scales, objects[i].scale))
         /\ Built(layout, objects[i], codes[objects[i].data], At(scales, objects[i].scale))
         /\ Reads(objects[i], codes[objects[i].data], At(scales, objects[i].scale))
         /\ codes[objects[i].data] \in CodesType(layout)
         /\ codes[objects[i].data].t \in BOOLEAN /\ codes[objects[i].data].size \in Shapes
<1>1. i \in Objects /\ objects[i].owned
  BY DEF Usable
<1>2. Sound(layout, objects[i], codes[objects[i].data], At(scales, objects[i].scale)) /\ objects[i] \in ObjectType(layout)
  BY <1>1, ObjectFacts
<1>3. codes[objects[i].data] \in CodesType(layout)
  BY <1>2 DEF Sound, Built
<1>4. codes[objects[i].data].t \in BOOLEAN /\ codes[objects[i].data].size \in Shapes
  BY <1>3 DEF CodesType
<1> QED BY <1>1, <1>2, <1>3, <1>4, InvFacts DEF Sound

LEMMA PhysicalFacts ==
  ASSUME NEW l, NEW o \in ObjectType(l)
  PROVE  Physical(o) \in Shapes /\ (o.transposed => Physical(o) = Swap(o.shape)) /\ (~o.transposed => Physical(o) = o.shape)
BY TypeFacts, SwapFacts DEF Physical

\* A transpose of an object, its codes viewed or its flag turned.
TurnedBody(l, o, q) ==
  /\ q \in ObjectType(l)
  /\ q.shape = Swap(o.shape) /\ q.outer = <<Swap(o.shape), o.dtype>> /\ q.dtype = o.dtype
  /\ q.expected.of = o.expected.of /\ q.expected.t = ~o.expected.t
  /\ q.form = o.form /\ q.device = o.device /\ q.owned = o.owned /\ q.moved = o.moved
  /\ IF l = "fp8" THEN q.view = ~o.view /\ q.transposed = o.transposed
                  ELSE q.view = o.view /\ q.transposed = ~o.transposed

LEMMA TurnedSound ==
  ASSUME NEW l, NEW o \in ObjectType(l), NEW q, TurnedBody(l, o, q), NEW c, NEW s, Sound(l, o, c, s)
  PROVE  Sound(l, q, c, s)
<1>1. q \in ObjectType(l) /\ c \in CodesType(l)
  BY DEF TurnedBody, Sound, Built
<1>2. c.t \in BOOLEAN /\ c.size \in Shapes
  BY <1>1 DEF CodesType
<1>3. Laid(q.view, c.size) = PaddedIn(l, Physical(q))
  <2>0. Laid(o.view, c.size) = PaddedIn(l, Physical(o))
    BY DEF Sound, Built
  <2>1. CASE l = "fp8"
    <3>1. ~o.transposed /\ ~q.transposed /\ q.view = ~o.view /\ q.shape = Swap(o.shape)
      BY <2>1 DEF Sound, Built, TurnedBody
    <3>2. Physical(o) = o.shape /\ Physical(q) = Swap(o.shape)
      BY <3>1 DEF Physical
    <3>3. \A shape : PaddedIn(l, shape) = shape
      BY <2>1 DEF PaddedIn, Padded
    <3>4. Laid(q.view, c.size) = Swap(Laid(o.view, c.size))
      <4>1. o.view \in BOOLEAN
        BY TypeFacts
      <4> QED BY <3>1, <1>2, <4>1, LaidFacts
    <3> QED BY <2>0, <3>2, <3>3, <3>4
  <2>2. CASE l # "fp8"
    <3>1. q.view = o.view /\ q.transposed = ~o.transposed /\ q.shape = Swap(o.shape) /\ o.shape \in Shapes /\ o.transposed \in BOOLEAN
      BY <2>2, TypeFacts DEF TurnedBody
    <3>2. Physical(q) = Physical(o)
      BY <3>1, SwapFacts DEF Physical
    <3> QED BY <2>0, <3>1, <3>2
  <2> QED BY <2>1, <2>2
<1>4. Built(l, q, c, s)
  BY <1>3 DEF Sound, Built, TurnedBody
<1>5. ASSUME o.owned PROVE Reads(q, c, s)
  <2>1. Reads(o, c, s)
    BY <1>5 DEF Sound
  <2>2. o.expected.of \in Values /\ o.expected.t \in BOOLEAN /\ o.shape = Logical(o.expected)
    BY <2>1, TypeFacts DEF Reads
  <2>3. q.shape = Logical(q.expected)
    BY <2>2, LogicalFacts DEF TurnedBody
  <2>4. Flips(Flips(c.t, q.view), q.transposed) = q.expected.t
    <3>1. /\ Flips(Flips(c.t, o.view), o.transposed) = o.expected.t
          /\ o.view \in BOOLEAN /\ o.transposed \in BOOLEAN /\ o.expected.t \in BOOLEAN
      BY <2>1, TypeFacts DEF Reads
    <3>2. CASE l = "fp8"
      <4>1. q.view = ~o.view /\ q.transposed = o.transposed /\ q.expected.t = ~o.expected.t
        BY <3>2 DEF TurnedBody
      <4> QED BY <4>1, <3>1, <1>2 DEF Flips
    <3>3. CASE l # "fp8"
      <4>1. q.view = o.view /\ q.transposed = ~o.transposed /\ q.expected.t = ~o.expected.t
        BY <3>3 DEF TurnedBody
      <4> QED BY <4>1, <3>1, <1>2 DEF Flips
    <3> QED BY <3>2, <3>3
  <2> QED BY <2>1, <2>3, <2>4 DEF Reads, TurnedBody
<1> QED BY <1>4, <1>5 DEF Sound, TurnedBody

LEMMA TInv ==
  ASSUME Inv, NEW i \in Objects, T(i)
  PROVE  Inv'
<1> DEFINE o == objects[i]
           r == [o EXCEPT !.shape = Swap(@), !.outer = <<Swap(@[1]), @[2]>>, !.expected.t = ~@]
           q == IF layout = "fp8" THEN ViewTransposed(r) ELSE FlagTransposed(r)
<1>1. i \in Usable /\ AddSharing(q)
  BY DEF T
<1>2. o \in ObjectType(layout) /\ o.outer = <<o.shape, o.dtype>> /\ Sound(layout, o, codes[o.data], At(scales, o.scale))
  BY <1>1, UsableFacts DEF Built
<1>3. /\ r \in ObjectType(layout) /\ r.shape = Swap(o.shape) /\ r.outer = <<Swap(o.shape), o.dtype>> /\ r.dtype = o.dtype
      /\ r.expected.of = o.expected.of /\ r.expected.t = ~o.expected.t
      /\ r.form = o.form /\ r.device = o.device /\ r.owned = o.owned /\ r.moved = o.moved
      /\ r.view = o.view /\ r.transposed = o.transposed /\ r.data = o.data /\ r.scale = o.scale
  <2> HIDE DEF o
  <2>1. o.shape \in Shapes /\ Swap(o.shape) \in Shapes /\ o.dtype \in AllDtypes /\ o.outer[1] = o.shape /\ o.outer[2] = o.dtype
    BY <1>2, TypeFacts, SwapFacts
  <2>2. r.shape = Swap(o.shape) /\ r.outer = <<Swap(o.shape), o.dtype>> /\ r.dtype = o.dtype
    BY <1>2, <2>1 DEF ObjectType
  <2>3. r.expected.of = o.expected.of /\ r.expected.t = ~o.expected.t /\ r.expected \in [of : Marks, t : BOOLEAN]
    BY <1>2 DEF ObjectType
  <2>4. /\ r.form = o.form /\ r.device = o.device /\ r.owned = o.owned /\ r.moved = o.moved
        /\ r.view = o.view /\ r.transposed = o.transposed /\ r.data = o.data /\ r.scale = o.scale
    BY <1>2 DEF ObjectType
  <2>5. <<Swap(o.shape), o.dtype>> \in Shapes \X AllDtypes
    BY <2>1
  <2>6. r = [o EXCEPT !.shape = Swap(o.shape), !.outer = <<Swap(o.shape), o.dtype>>, !.expected = r.expected]
    BY <1>2, <2>1, <2>2, <2>3 DEF ObjectType
  <2>7. r \in ObjectType(layout)
    <3> HIDE DEF r
    <3> DEFINE a == Swap(o.shape)
               b == <<Swap(o.shape), o.dtype>>
               e == r.expected
    <3>1. a \in Shapes /\ b \in Shapes \X AllDtypes /\ e \in [of : Marks, t : BOOLEAN]
      BY <2>1, <2>3, <2>5
    <3>2. r = [o EXCEPT !.shape = a, !.outer = b, !.expected = e]
      BY <2>6
    <3> HIDE DEF a, b, e
    <3>3. [o EXCEPT !.shape = a, !.outer = b, !.expected = e] \in ObjectType(layout)
      BY <1>2, <3>1 DEF ObjectType
    <3> QED BY <3>2, <3>3
  <2> QED BY <2>2, <2>3, <2>4, <2>7
<1> HIDE DEF r
<1>4. TurnedBody(layout, o, q) /\ q.data = o.data /\ q.scale = o.scale
  <2>1. CASE layout = "fp8"
    BY <2>1, <1>3 DEF TurnedBody, ViewTransposed, ObjectType
  <2>2. CASE layout # "fp8"
    BY <2>2, <1>3 DEF TurnedBody, FlagTransposed, ObjectType
  <2> QED BY <2>1, <2>2
<1> HIDE DEF q
<1>5. Sound(layout, q, codes[q.data], At(scales, q.scale))
  BY <1>2, <1>4, TurnedSound
<1> QED BY <1>1, <1>4, <1>5, AddSharingInv DEF TurnedBody

LEMMA UnflattenInv ==
  ASSUME Inv, NEW i \in Objects, Unflatten(i)
  PROVE  Inv'
<1>1. i \in Usable /\ AddSharing(objects[i])
  BY DEF Unflatten
<1> QED BY <1>1, UsableFacts, AddSharingInv

LEMMA DetachInv ==
  ASSUME Inv, NEW i \in Objects, Detach(i)
  PROVE  Inv'
<1>1. i \in Usable /\ AddWithClonedScale(objects[i])
  BY DEF Detach
<1> QED BY <1>1, UsableFacts, AddWithClonedScaleInv

-----------------------------------------------------------------------------
(* What an object that nothing was done to reads. *)

LEMMA Division ==
  ASSUME NEW g \in Nat \ {0}, NEW m \in Nat
  PROVE  m \div g \in Nat /\ (m \div g) * g \in Nat /\ m < (m \div g) * g + g
OBVIOUS

LEMMA RoundUpFacts ==
  ASSUME NEW n \in Nat
  PROVE  RoundUp(n) \in Nat /\ n <= RoundUp(n)
<1> DEFINE q == (n + Granule - 1) \div Granule
<1>1. Granule \in Nat \ {0} /\ n + Granule - 1 \in Nat
  BY SizesAssumption
<1>2. q * Granule \in Nat /\ n + Granule - 1 < q * Granule + Granule
  BY <1>1, Division
<1>3. RoundUp(n) = q * Granule
  BY DEF RoundUp
<1> DEFINE r == q * Granule
<1> HIDE DEF q
<1>4. r \in Nat /\ n + Granule - 1 < r + Granule
  BY <1>2
<1> HIDE DEF r
<1>5. n <= r
  BY <1>1, <1>4
<1> QED BY <1>3, <1>4, <1>5 DEF r

LEMMA PaddedFacts ==
  ASSUME NEW s \in Shapes
  PROVE  /\ PaddedShape(s) = PaddedIn(layout, s) /\ PaddedShape(s) \in Shapes
         /\ Cut(PaddedShape(s), s) = s
         /\ s[1] <= PaddedShape(s)[1] /\ s[2] <= PaddedShape(s)[2]
         /\ layout \notin Padded => PaddedShape(s) = s
         /\ layout \in Padded => PaddedShape(s)[1] = RoundUp(s[1]) /\ PaddedShape(s)[2] = RoundUp(s[2])
<1>1. s[1] \in Nat /\ s[2] \in Nat /\ s = <<s[1], s[2]>>
  BY SwapFacts
<1>2. RoundUp(s[1]) \in Nat /\ s[1] <= RoundUp(s[1]) /\ RoundUp(s[2]) \in Nat /\ s[2] <= RoundUp(s[2])
  BY <1>1, RoundUpFacts
<1>3. CASE layout \in Padded
  BY <1>1, <1>2, <1>3 DEF PaddedShape, PaddedIn, Cut, Least, Shapes
<1>4. CASE layout \notin Padded
  BY <1>1, <1>4 DEF PaddedShape, PaddedIn, Cut, Least, Shapes
<1> QED BY <1>3, <1>4

\* Matrices, as products and dequantized objects describe them.
Matrices == [of : Values \cup {"x"}, t : BOOLEAN, shape : Shapes]
Matrix(of, t, shape) == [of |-> of, t |-> t, shape |-> shape]
PlainOf(e) == Matrix(e.of, e.t, Logical(e))

LEMMA TurnMatrix ==
  ASSUME NEW of, NEW t \in BOOLEAN, NEW u \in BOOLEAN, u # t, NEW shape
  PROVE  Turn(Matrix(of, t, shape)) = Matrix(of, u, Swap(shape))
<1> DEFINE m == Matrix(of, t, shape)
           R == [of : {of}, t : BOOLEAN, shape : {shape, Swap(shape)}]
<1>1. m \in R
  BY DEF Matrix
<1>2. m.of = of /\ m.t = t /\ m.shape = shape
  BY DEF Matrix
<1> HIDE DEF m
<1>3. Turn(m) \in R
  BY <1>1, <1>2 DEF Turn
<1>4. Turn(m).of = of /\ Turn(m).t = u /\ Turn(m).shape = Swap(shape)
  BY <1>1, <1>2 DEF Turn
<1>5. Turn(m) = [of |-> Turn(m).of, t |-> Turn(m).t, shape |-> Turn(m).shape]
  BY <1>3
<1> QED BY <1>4, <1>5 DEF Matrix, m

LEMMA MatrixFacts ==
  ASSUME NEW m \in Matrices
  PROVE  /\ Readable(m) /\ ~IsQuantized(m) /\ m # Raise /\ m # Garbage
         /\ Turn(m) \in Matrices /\ Turn(Turn(m)) = m
         /\ \A u \in BOOLEAN : u # m.t => Turn(m) = Matrix(m.of, u, Swap(m.shape))
         /\ m.shape \in Shapes /\ m.t \in BOOLEAN /\ m = Matrix(m.of, m.t, m.shape)
<1>1. m # Raise /\ m # Garbage /\ ~IsQuantized(m)
  BY DEF Matrices, Raise, Garbage, IsQuantized
<1>2. m.of \in Values \cup {"x"} /\ m.t \in BOOLEAN /\ m.shape \in Shapes /\ m = Matrix(m.of, m.t, m.shape)
  BY DEF Matrices, Matrix
<1>4. Swap(m.shape) \in Shapes /\ Swap(Swap(m.shape)) = m.shape
  BY <1>2, SwapFacts
<1>u. PICK u \in BOOLEAN : u # m.t /\ m.t # u
  BY <1>2
<1>3. Turn(m) = Matrix(m.of, u, Swap(m.shape))
  BY <1>2, <1>4, <1>u, TurnMatrix
<1>5. Turn(m) \in Matrices
  BY <1>2, <1>3, <1>4 DEF Matrices, Matrix
<1>6. Turn(Turn(m)) = Matrix(m.of, m.t, m.shape)
  <2>1. Turn(Matrix(m.of, u, Swap(m.shape))) = Matrix(m.of, m.t, Swap(Swap(m.shape)))
    BY <1>2, <1>u, TurnMatrix
  <2> QED BY <1>3, <1>4, <2>1
<1>7. \A v \in BOOLEAN : v # m.t => v = u
  BY <1>2, <1>u
<1> QED BY <1>1, <1>2, <1>3, <1>5, <1>6, <1>7 DEF Readable

LEMMA PlainFacts ==
  ASSUME Inv, NEW i \in Usable
  PROVE  LET o == objects[i] IN
         /\ IsQuantized(o) /\ Plain(o) = PlainOf(o.expected) /\ Plain(o) \in Matrices /\ Plain(o).shape = o.shape
         /\ Plain(o).of = o.expected.of /\ Plain(o).t = o.expected.t
<1> DEFINE o == objects[i]
<1>1. o \in ObjectType(layout) /\ o.expected.of \in Values /\ o.expected.t \in BOOLEAN /\ o.shape = Logical(o.expected) /\ o.shape \in Shapes
  BY UsableFacts, TypeFacts DEF Reads
<1>2. IsQuantized(o)
  BY <1>1 DEF ObjectType, IsQuantized
<1>3. Plain(o) = PlainOf(o.expected)
  BY <1>2 DEF Plain, PlainOf, Matrix, Logical
<1>4. PlainOf(o.expected) \in Matrices
  BY <1>1 DEF PlainOf, Matrix, Matrices
<1> QED BY <1>1, <1>2, <1>3, <1>4 DEF PlainOf, Matrix

\* Its codes as stored, padding included.
LEMMA StoredFacts ==
  ASSUME Inv, NEW i \in Usable
  PROVE  LET o == objects[i]
             t == Flips(codes[o.data].t, o.view)
         IN  /\ Stored(o) = Matrix(o.expected.of, t, PaddedShape(Physical(o))) /\ Stored(o) \in Matrices
             /\ o.transposed => t = ~o.expected.t
             /\ ~o.transposed => t = o.expected.t
<1> DEFINE o == objects[i]
           c == codes[o.data]
           s == scales[o.scale]
           t == Flips(c.t, o.view)
<1>1. /\ o \in ObjectType(layout) /\ Built(layout, o, c, At(scales, o.scale)) /\ Reads(o, c, At(scales, o.scale))
      /\ c.t \in BOOLEAN /\ c.size \in Shapes
  BY UsableFacts
<1>2. /\ o.view \in BOOLEAN /\ o.transposed \in BOOLEAN /\ Physical(o) \in Shapes
      /\ o.expected.t \in BOOLEAN /\ o.expected.of \in Values
  BY <1>1, TypeFacts, PhysicalFacts DEF Reads
<1>3. o.form # "packed" => At(scales, o.scale) = s
  BY UsableFacts, ObjectFacts DEF ScaleFlag, At
<1>4. Whole(o)
  BY <1>1, <1>3 DEF Whole, Reads
<1>5. Laid(o.view, c.size) = PaddedShape(Physical(o))
  BY <1>1, <1>2, PaddedFacts DEF Built
<1>6. Stored(o) = Matrix(o.expected.of, t, PaddedShape(Physical(o)))
  BY <1>1, <1>4, <1>5 DEF Stored, Matrix, Laid, Reads
<1>7. t \in BOOLEAN
  BY <1>1, <1>2, FlipFacts
<1>8. (o.transposed => t = ~o.expected.t) /\ (~o.transposed => t = o.expected.t)
  <2>1. Flips(t, o.transposed) = o.expected.t
    BY <1>1 DEF Reads
  <2> HIDE DEF t, o
  <2> QED BY <2>1, <1>2, <1>7 DEF Flips
<1>9. PaddedShape(Physical(o)) \in Shapes
  BY <1>2, PaddedFacts
<1>10. Stored(o) \in Matrices
  <2> HIDE DEF t, o
  <2> QED BY <1>2, <1>6, <1>7, <1>9 DEF Matrix, Matrices
<1> QED BY <1>6, <1>8, <1>10

LEMMA DequantizeFacts ==
  ASSUME Inv, NEW i \in Usable, ~NotDequantized(objects[i])
  PROVE  Dequantize(objects[i]) = Plain(objects[i])
<1> DEFINE o == objects[i]
           t == Flips(codes[o.data].t, o.view)
           full == LayoutDequantize(o)
           cut == [full EXCEPT !.shape = Cut(@, Physical(o))]
           p == Physical(o)
<1>1. /\ Stored(o) = Matrix(o.expected.of, t, PaddedShape(p)) /\ Stored(o) \in Matrices
      /\ o.transposed => t = ~o.expected.t
      /\ ~o.transposed => t = o.expected.t
  BY StoredFacts
<1>2. IsQuantized(o) /\ Plain(o) = PlainOf(o.expected) /\ Plain(o) \in Matrices /\ Plain(o).shape = o.shape
  BY PlainFacts
<1>3. full = Stored(o)
  BY <1>2 DEF LayoutDequantize, SVDQuantStored, NotDequantized
<1>4. Readable(full)
  BY <1>1, <1>3, MatrixFacts
<1>5. p \in Shapes /\ (o.transposed => p = Swap(o.shape)) /\ (~o.transposed => p = o.shape) /\ o.shape \in Shapes
      /\ Swap(Swap(o.shape)) = o.shape /\ o.expected.t \in BOOLEAN
  BY UsableFacts, TypeFacts, PhysicalFacts, SwapFacts
<1>6. Cut(PaddedShape(p), p) = p
  BY <1>5, PaddedFacts
<1>7. cut = Matrix(o.expected.of, t, p)
  BY <1>1, <1>3, <1>6 DEF Matrix
<1>8. Plain(o) = Matrix(o.expected.of, o.expected.t, o.shape)
  BY <1>2 DEF PlainOf, Matrix
<1>9. Dequantize(o) = IF o.transposed THEN Turn(cut) ELSE cut
  BY <1>4 DEF Dequantize
<1> HIDE DEF o, t, full, cut, p
<1>10. ASSUME o.transposed PROVE Dequantize(o) = Plain(o)
  <2>1. t # o.expected.t /\ t \in BOOLEAN
    BY <1>1, <1>5, <1>10
  <2>2. Turn(cut) = Matrix(o.expected.of, o.expected.t, Swap(p))
    BY <1>5, <1>7, <2>1, TurnMatrix
  <2> QED BY <1>5, <1>8, <1>9, <1>10, <2>1, <2>2
<1>11. ASSUME ~o.transposed PROVE Dequantize(o) = Plain(o)
  BY <1>1, <1>5, <1>7, <1>8, <1>9, <1>11
<1>12. Dequantize(o) = Plain(o)
  BY <1>10, <1>11
<1> QED BY <1>12 DEF o

-----------------------------------------------------------------------------
(* The operations that make codes and scales. *)

LEMMA QuantizeFacts ==
  ASSUME Inv, NEW shape \in Shapes, NEW e \in Quantize(shape)
  PROVE  /\ e.form \in FormsOf(layout) /\ e.form # "packed" /\ e.kind \in Kinds /\ e.size = PaddedShape(shape)
         /\ layout = "fp8" => e.kind = "scalar"
<1>0. layout \in {"fp8", "nvfp4", "mxfp8", "int8", "awq", "svdquant", "convrot", "w4a8"}
  BY LayoutsAssumption, InvFacts
<1>1. CASE layout = "fp8"
  <2>1. Quantize(shape) = FP8Quantize(shape)
    BY <1>1 DEF Quantize, Loaded
  <2> QED BY <1>1, <2>1 DEF FP8Quantize, Encoding, FormsOf, Kinds, PaddedShape, Padded
<1>2. CASE layout = "nvfp4"
  <2>1. Quantize(shape) = NVFP4Quantize(shape)
    BY <1>2 DEF Quantize, Loaded
  <2> QED BY <1>2, <2>1 DEF NVFP4Quantize, Encoding, FormsOf, Kinds
<1>3. CASE layout = "mxfp8"
  <2>1. Quantize(shape) = MXFP8Quantize(shape)
    BY <1>3 DEF Quantize, Loaded
  <2> QED BY <1>3, <2>1 DEF MXFP8Quantize, Encoding, FormsOf, Kinds
<1>4. CASE layout = "int8"
  <2>1. Quantize(shape) = INT8Quantize(shape)
    BY <1>4 DEF Quantize, Loaded
  <2> QED BY <1>4, <2>1 DEF INT8Quantize, Encoding, FormsOf, Kinds, PaddedShape, Padded
<1>5. CASE layout = "convrot"
  <2>1. Quantize(shape) = ConvRotQuantize(shape)
    BY <1>5 DEF Quantize, Loaded
  <2> QED BY <1>5, <2>1 DEF ConvRotQuantize, Encoding, FormsOf, Kinds, PaddedShape, Padded
<1>6. CASE layout = "w4a8"
  <2>1. Quantize(shape) = W4A8Quantize(shape)
    BY <1>6 DEF Quantize, Loaded
  <2> QED BY <1>6, <2>1 DEF W4A8Quantize, Encoding, FormsOf, Kinds, PaddedShape, Padded
<1>7. CASE layout \in Loaded
  BY <1>7 DEF Quantize, Checkpoint, Encoding, FormsOf, Kinds, PaddedShape, Padded, Loaded
<1> QED BY <1>0, <1>1, <1>2, <1>3, <1>4, <1>5, <1>6, <1>7 DEF Loaded

\* An object made of a matrix is sound.
LEMMA MadeSound ==
  ASSUME Inv, NEW q \in ObjectType(layout), NEW kind \in Kinds, NEW resident \in BOOLEAN, NEW c, NEW s,
         ~q.view, ~q.transposed, ~q.moved, q.outer = <<q.shape, q.dtype>>, q.form # "packed",
         q.expected.of \in Values, q.shape = Logical(q.expected),
         layout = "fp8" => kind = "scalar",
         c = [of |-> q.expected.of, t |-> q.expected.t, form |-> q.form, size |-> PaddedShape(q.shape)],
         s = [of |-> q.expected.of, t |-> q.expected.t, kind |-> kind, resident |-> resident]
  PROVE  Sound(layout, q, c, s)
<1>1. q.shape \in Shapes /\ q.expected.t \in BOOLEAN /\ q.form \in FormsOf(layout)
      /\ q.view = FALSE /\ q.transposed = FALSE
  BY TypeFacts
<1>2. PaddedShape(q.shape) \in Shapes /\ PaddedShape(q.shape) = PaddedIn(layout, q.shape)
  BY <1>1, PaddedFacts
<1>3. c \in CodesType(layout) /\ s \in ScaleType
  BY <1>1, <1>2 DEF CodesType, ScaleType, Marks
<1>4. Physical(q) = q.shape
  BY DEF Physical
<1>5. Built(layout, q, c, s)
  BY <1>2, <1>3, <1>4 DEF Built, Laid
<1>6. Flips(Flips(c.t, q.view), q.transposed) = q.expected.t
  BY <1>1 DEF Flips
<1>7. Reads(q, c, s)
  BY <1>6 DEF Reads
<1> QED BY <1>5, <1>7 DEF Sound

LEMMA FromFloatInv ==
  ASSUME Inv, NEW v \in Sources[layout], FromFloat(v, "bf16", Home)
  PROVE  Inv'
<1>1. v \in Values
  BY LayoutsAssumption, InvFacts
<1>2. Dims[v] \in Shapes
  BY <1>1, LayoutsAssumption DEF Shapes
<1>3. PICK e \in Quantize(Dims[v]) :
    AddFresh([data |-> New, scale |-> 0, view |-> FALSE, transposed |-> FALSE, shape |-> Dims[v],
              dtype |-> "bf16", form |-> e.form, device |-> Home, outer |-> <<Dims[v], "bf16">>,
              expected |-> [of |-> v, t |-> FALSE], owned |-> TRUE, moved |-> FALSE],
             [of |-> v, t |-> FALSE, form |-> e.form, size |-> e.size],
             [of |-> v, t |-> FALSE, kind |-> e.kind, resident |-> layout = "w4a8"])
  BY DEF FromFloat
<1> DEFINE q == [data |-> New, scale |-> 0, view |-> FALSE, transposed |-> FALSE, shape |-> Dims[v],
                 dtype |-> "bf16", form |-> e.form, device |-> Home, outer |-> <<Dims[v], "bf16">>,
                 expected |-> [of |-> v, t |-> FALSE], owned |-> TRUE, moved |-> FALSE]
           c == [of |-> v, t |-> FALSE, form |-> e.form, size |-> e.size]
           s == [of |-> v, t |-> FALSE, kind |-> e.kind, resident |-> layout = "w4a8"]
<1>4. /\ e.form \in FormsOf(layout) /\ e.form # "packed" /\ e.kind \in Kinds /\ e.size = PaddedShape(Dims[v])
      /\ layout = "fp8" => e.kind = "scalar"
  BY <1>2, QuantizeFacts
<1>5. "bf16" \in AllDtypes /\ Home \in AllDevices /\ New \in Slots
  BY SlotFacts DEF AllDtypes, AllDevices
<1>6. q \in ObjectType(layout)
  BY <1>1, <1>2, <1>4, <1>5 DEF ObjectType, Marks
<1>7. Sound(layout, q, c, s)
  BY <1>1, <1>4, <1>6, MadeSound DEF Logical
<1>8. AddFresh(q, c, s)
  BY <1>3
<1> QED BY <1>6, <1>7, <1>8, AddFreshInv

LEMMA RequantizeInv ==
  ASSUME Inv, NEW i \in Objects, Requantize(i)
  PROVE  Inv'
<1> DEFINE o == objects[i]
           m == Dequantize(o)
<1>1. i \in Usable /\ layout \notin Loaded
  BY DEF Requantize
<1>2. m = Plain(o) /\ m.of = o.expected.of /\ m.t = o.expected.t /\ m.shape = o.shape
  <2>1. ~NotDequantized(o)
    BY <1>1 DEF NotDequantized, Loaded
  <2> QED BY <1>1, <2>1, DequantizeFacts, PlainFacts
<1>3. PICK e \in Quantize(m.shape) :
           AddFresh([o EXCEPT !.view = FALSE, !.transposed = FALSE, !.shape = m.shape, !.form = e.form,
                                 !.outer = <<m.shape, o.dtype>>, !.moved = FALSE],
                       [of |-> m.of, t |-> m.t, form |-> e.form, size |-> e.size],
                       [of |-> m.of, t |-> m.t, kind |-> e.kind, resident |-> FALSE])
  BY DEF Requantize
<1> DEFINE q == [o EXCEPT !.view = FALSE, !.transposed = FALSE, !.shape = m.shape, !.form = e.form,
                          !.outer = <<m.shape, o.dtype>>, !.moved = FALSE]
           c == [of |-> m.of, t |-> m.t, form |-> e.form, size |-> e.size]
           s == [of |-> m.of, t |-> m.t, kind |-> e.kind, resident |-> FALSE]
<1>4. o \in ObjectType(layout) /\ o.shape \in Shapes /\ o.expected.of \in Values /\ o.shape = Logical(o.expected)
      /\ o.dtype \in AllDtypes
  BY <1>1, UsableFacts, TypeFacts DEF Reads
<1>5. /\ e.form \in FormsOf(layout) /\ e.form # "packed" /\ e.kind \in Kinds /\ e.size = PaddedShape(o.shape)
      /\ layout = "fp8" => e.kind = "scalar"
  BY <1>2, <1>3, <1>4, QuantizeFacts
<1> HIDE DEF o, m
<1>6. /\ q \in ObjectType(layout) /\ q.view = FALSE /\ q.transposed = FALSE /\ q.shape = o.shape /\ q.form = e.form
      /\ q.outer = <<o.shape, o.dtype>> /\ q.moved = FALSE /\ q.dtype = o.dtype /\ q.expected = o.expected
  BY <1>2, <1>4, <1>5 DEF ObjectType
<1> HIDE DEF q
<1>7. Sound(layout, q, c, s)
  BY <1>2, <1>4, <1>5, <1>6, MadeSound
<1>8. AddFresh(q, c, s) /\ c.form = q.form
  BY <1>3, <1>6 DEF q
<1> HIDE DEF c, s
<1> QED BY <1>6, <1>7, <1>8, AddFreshInv

LEMMA CloneTensorInv ==
  ASSUME Inv, NEW i \in Objects, CloneTensor(i)
  PROVE  Inv'
<1> DEFINE o == objects[i]
           c == codes[o.data]
           s == At(scales, o.scale)
<1>1. i \in Usable /\ AddFresh(o, c, Clone(s))
  BY DEF CloneTensor, ScaleOf, At
<1>2. o \in ObjectType(layout) /\ Sound(layout, o, c, s) /\ c.form = o.form /\ layout \in Layouts
  BY <1>1, UsableFacts DEF Reads
<1>3. s \in ScaleType \cup {Free}
  BY <1>2, TypeFacts, InvFacts DEF At
<1> HIDE DEF o, c, s
<1>4. Sound(layout, o, c, Clone(s))
  BY <1>2, <1>3, CloneSound
<1> QED BY <1>1, <1>2, <1>4, AddFreshInv DEF o, c, s

LEMMA ContiguousInv ==
  ASSUME Inv, NEW i \in Objects, Contiguous(i)
  PROVE  Inv'
<1> DEFINE o == objects[i]
           c == codes[o.data]
           s == At(scales, o.scale)
           q == [o EXCEPT !.view = FALSE]
           d == [c EXCEPT !.t = ~@, !.size = Swap(@)]
<1>1. i \in Usable /\ o.view /\ AddFresh(q, d, Clone(scales[o.scale]))
  BY DEF Contiguous
<1>2. /\ o \in ObjectType(layout) /\ Sound(layout, o, c, s) /\ c \in CodesType(layout) /\ layout \in Layouts
      /\ Built(layout, o, c, s) /\ Reads(o, c, s) /\ c.t \in BOOLEAN /\ c.size \in Shapes
  BY <1>1, UsableFacts
<1>3. layout = "fp8" /\ o.form # "packed" /\ o.view = TRUE
  <2>1. layout = "fp8"
    BY <1>1, <1>2 DEF Built
  <2> QED BY <1>1, <1>2, <2>1, TypeFacts DEF FormsOf
<1>4. s = scales[o.scale] /\ s \in ScaleType
  BY <1>1, <1>2, <1>3, ObjectFacts, UsableFacts DEF ScaleFlag, At, Built
<1> HIDE DEF o, c, s
<1>5. /\ q \in ObjectType(layout) /\ q.view = FALSE /\ q.transposed = o.transposed /\ q.shape = o.shape
      /\ q.outer = o.outer /\ q.dtype = o.dtype /\ q.form = o.form /\ q.expected = o.expected /\ q.owned = o.owned
      /\ q.moved = o.moved /\ q.device = o.device
  BY <1>2 DEF ObjectType
<1>6. Swap(c.size) \in Shapes
  BY <1>2, SwapFacts
<1>7. d \in CodesType(layout) /\ d.of = c.of /\ d.t = ~c.t /\ d.form = c.form /\ d.size = Swap(c.size)
  BY <1>2, <1>6 DEF CodesType
<1> HIDE DEF q, d
<1>8. Built(layout, q, d, s)
  <2>1. Physical(q) = Physical(o)
    BY <1>5 DEF Physical
  <2>2. Laid(q.view, d.size) = Laid(o.view, c.size)
    BY <1>3, <1>5, <1>7 DEF Laid
  <2> QED BY <1>2, <1>3, <1>4, <1>5, <1>7, <2>1, <2>2 DEF Built
<1>9. Reads(q, d, s)
  <2>1. Flips(d.t, q.view) = Flips(c.t, o.view)
    BY <1>2, <1>3, <1>5, <1>7 DEF Flips
  <2>2. s.kind = "scalar"
    BY <1>2, <1>3 DEF Built
  <2> QED BY <1>2, <1>5, <1>7, <2>1, <2>2 DEF Reads
<1>10. Sound(layout, q, d, Clone(s))
  BY <1>2, <1>4, <1>8, <1>9, CloneSound DEF Sound
<1>11. d.form = q.form
  BY <1>2, <1>5, <1>7 DEF Reads
<1>12. AddFresh(q, d, Clone(s))
  BY <1>1, <1>4
<1> QED BY <1>5, <1>10, <1>11, <1>12, AddFreshInv DEF q, d, o, c, s

-----------------------------------------------------------------------------
(* Moves and conversions. *)

\* A scale that codes can be read with.
Goes(l, c, s) ==
  /\ s \in ScaleType
  /\ s.of = c.of /\ (s.kind = "scalar" \/ s.t = c.t)
  /\ l = "fp8" => s.kind = "scalar"

\* An object may take another's place if its codes still hold what they held.
SameReading(o, q) ==
  /\ q.view = o.view /\ q.transposed = o.transposed /\ q.shape = o.shape
  /\ q.expected = o.expected /\ q.owned = o.owned

SameCodes(c, d) == d.of = c.of /\ d.t = c.t /\ d.size = c.size

RunsWhereMoved(q) == q.moved => (q.form = "packed" => q.device = "cuda") /\ (q.form = "prepared" => q.device = "xpu")

LEMMA ConvertedSound ==
  ASSUME NEW l, NEW o, NEW c, NEW r, Built(l, o, c, r), Reads(o, c, r),
         NEW q \in ObjectType(l), NEW d \in CodesType(l), NEW s,
         SameReading(o, q), SameCodes(c, d), d.form = q.form, q.outer = <<q.shape, q.dtype>>, RunsWhereMoved(q),
         q.form # "packed" => Goes(l, c, s)
  PROVE  Sound(l, q, d, s)
<1>1. Physical(q) = Physical(o)
  BY DEF Physical, SameReading
<1>2. l = "fp8" => q.form # "packed"
  BY TypeFacts DEF FormsOf
<1>3. Built(l, q, d, s)
  BY <1>1, <1>2 DEF Built, SameReading, SameCodes, Goes
<1>4. Reads(q, d, s)
  BY DEF Reads, SameReading, SameCodes, Goes, RunsWhereMoved
<1> QED BY <1>3, <1>4 DEF Sound

LEMMA GoesFacts ==
  ASSUME Inv, NEW i \in Usable, objects[i].form # "packed"
  PROVE  /\ scales[objects[i].scale] = At(scales, objects[i].scale) /\ objects[i].scale # 0 /\ objects[i].scale \in Slots
         /\ Goes(layout, codes[objects[i].data], scales[objects[i].scale])
         /\ Goes(layout, codes[objects[i].data], Clone(scales[objects[i].scale]))
<1> DEFINE o == objects[i]
           c == codes[o.data]
           s == scales[o.scale]
<1>1. s = At(scales, o.scale) /\ o.scale # 0
  BY UsableFacts, ObjectFacts DEF ScaleFlag, At
<1>2. Goes(layout, c, s)
  BY <1>1, UsableFacts DEF Built, Reads, Goes
<1>3. Clone(s) \in ScaleType /\ Clone(s).of = s.of /\ Clone(s).t = s.t /\ Clone(s).kind = s.kind
  <2>1. s # Free /\ s \in ScaleType
    BY <1>2 DEF Goes, ScaleType, Free
  <2>2. Clone(s) = [s EXCEPT !.resident = FALSE]
    BY <2>1 DEF Clone
  <2> HIDE DEF s
  <2> QED BY <2>1, <2>2 DEF ScaleType
<1>4. Goes(layout, c, Clone(s))
  BY <1>2, <1>3 DEF Goes
<1> QED BY <1>1, <1>2, <1>4, UsableFacts, TypeFacts

\* The layout's normalization changes the form of codes and of object alike, to one
\* that runs on the device.
Normalized(l, o, c, device, p, d) ==
  /\ p \in ObjectType(l) /\ d \in CodesType(l)
  /\ SameReading(o, p) /\ SameCodes(c, d) /\ d.form = p.form /\ p.dtype = o.dtype
  /\ p.form = "packed" => o.form = "packed" /\ device = "cuda"
  /\ p.form = "prepared" => device = "xpu"

LEMMA NormalizeFacts ==
  ASSUME NEW o \in ObjectType(layout), NEW c \in CodesType(layout), c.form = o.form, NEW device
  PROVE  LET r == NormalizeDeviceStorage(o, c, device)
         IN  Normalized(layout, o, c, device, r.object, r.codes)
<1> DEFINE r == NormalizeDeviceStorage(o, c, device)
           same == [object |-> o, codes |-> c]
           standard == [object |-> [o EXCEPT !.form = "standard"], codes |-> [c EXCEPT !.form = "standard"]]
<1>0. "standard" \in FormsOf(layout) /\ o.form \in FormsOf(layout)
  BY TypeFacts DEF FormsOf
<1>1. /\ same.object = o /\ same.codes = c
      /\ SameReading(o, o) /\ SameCodes(c, c)
  BY DEF SameReading, SameCodes
<1>2. /\ standard.object \in ObjectType(layout) /\ standard.codes \in CodesType(layout)
      /\ SameReading(o, standard.object) /\ SameCodes(c, standard.codes) /\ standard.object.form = "standard"
      /\ standard.codes.form = "standard" /\ standard.object.dtype = o.dtype
  BY <1>0 DEF ObjectType, CodesType, SameReading, SameCodes
<1>3. \/ r = same /\ (o.form = "packed" => device = "cuda") /\ (o.form = "prepared" => device = "xpu")
      \/ r = standard
  <2>1. CASE layout = "w4a8"
    <3>1. o.form # "prepared"
      BY <1>0, <2>1 DEF FormsOf
    <3> QED BY <2>1, <3>1 DEF NormalizeDeviceStorage, W4A8Normalize
  <2>2. CASE layout = "svdquant"
    <3>1. o.form # "packed"
      BY <1>0, <2>2 DEF FormsOf
    <3>2. o.form = "prepared" => Xored(c) = [c EXCEPT !.form = "standard"]
      BY DEF Xored
    <3> QED BY <2>2, <3>1, <3>2 DEF NormalizeDeviceStorage, SVDQuantNormalize
  <2>3. CASE layout # "w4a8" /\ layout # "svdquant"
    BY <1>0, <2>3 DEF NormalizeDeviceStorage, FormsOf
  <2> QED BY <2>1, <2>2, <2>3
<1> HIDE DEF r, same, standard
<1>4. Normalized(layout, o, c, device, r.object, r.codes)
  BY <1>1, <1>2, <1>3 DEF Normalized
<1> QED BY <1>4 DEF r

LEMMA ToInv ==
  ASSUME Inv, NEW i \in Objects, NEW device \in Devices[layout], NEW dtype \in Dtypes[layout], NEW force \in BOOLEAN,
         To(i, device, dtype, force)
  PROVE  Inv'
<1> DEFINE o == objects[i]
           c == codes[o.data]
           r == At(scales, o.scale)
           s == IF o.form = "packed" THEN [of |-> c.of, t |-> c.t, kind |-> "rows", resident |-> FALSE]
                ELSE Clone(scales[o.scale])
           n == NormalizeDeviceStorage(o, c, device)
           p == n.object
           d == n.codes
           moved == [p EXCEPT !.device = device, !.moved = TRUE]
           retyped(x) == [x EXCEPT !.dtype = dtype, !.outer = <<x.shape, dtype>>]
<1>1. i \in Usable
  BY DEF To
<1>2. /\ o \in ObjectType(layout) /\ layout \in Layouts /\ c \in CodesType(layout)
      /\ Sound(layout, o, c, r) /\ Built(layout, o, c, r) /\ Reads(o, c, r) /\ c.form = o.form
  BY <1>1, UsableFacts DEF Reads
<1>3. device \in AllDevices /\ dtype \in AllDtypes
  BY <1>2 DEF AllDevices, AllDtypes
<1>4. Goes(layout, c, s) \/ layout = "fp8"
  <2>1. CASE o.form = "packed"
    <3>1. c.of \in Marks /\ c.t \in BOOLEAN
      BY <1>2 DEF CodesType
    <3> QED BY <2>1, <3>1 DEF Goes, ScaleType, Kinds
  <2>2. CASE o.form # "packed"
    BY <1>1, <2>2, GoesFacts
  <2> QED BY <2>1, <2>2
<1>5. Goes(layout, c, s)
  <2>1. layout = "fp8" => o.form # "packed"
    BY <1>2, TypeFacts DEF FormsOf
  <2> QED BY <1>1, <1>4, <2>1, GoesFacts
<1>6. /\ device # o.device => AddFresh(retyped(moved), d, s)
      /\ device = o.device /\ force => AddFresh(retyped(o), c, s)
      /\ device = o.device /\ ~force => AddWithClonedScale(retyped(o))
  BY DEF To
<1>7. ASSUME device # o.device
      PROVE  Inv'
  <2> DEFINE q == retyped(moved)
  <2>1. Normalized(layout, o, c, device, p, d)
    BY <1>2, NormalizeFacts
  <2> HIDE DEF p, d, o, c, r, s
  <2>2. p \in ObjectType(layout) /\ p.shape \in Shapes
    BY <2>1, TypeFacts DEF Normalized
  <2>3. /\ moved \in ObjectType(layout) /\ moved.shape = p.shape /\ moved.device = device /\ moved.form = p.form
        /\ SameReading(p, moved)
    BY <1>3, <2>2 DEF ObjectType, SameReading
  <2> HIDE DEF moved
  <2>4. /\ q \in ObjectType(layout) /\ q.form = p.form /\ q.device = device /\ SameReading(moved, q)
        /\ q.outer = <<q.shape, q.dtype>>
    BY <1>3, <2>2, <2>3 DEF ObjectType, SameReading
  <2> HIDE DEF q
  <2>5. SameReading(o, q) /\ RunsWhereMoved(q) /\ SameCodes(c, d) /\ d.form = q.form /\ d \in CodesType(layout)
    BY <2>1, <2>3, <2>4 DEF SameReading, RunsWhereMoved, Normalized
  <2>6. Sound(layout, q, d, s)
    BY <1>2, <1>5, <2>4, <2>5, ConvertedSound
  <2>7. AddFresh(q, d, s)
    BY <1>6, <1>7 DEF q
  <2> QED BY <2>4, <2>5, <2>6, <2>7, AddFreshInv
<1>8. ASSUME device = o.device
      PROVE  Inv'
  <2> DEFINE q == retyped(o)
  <2> HIDE DEF o, c, r, s
  <2>1. o.shape \in Shapes
    BY <1>2, TypeFacts
  <2>2. /\ q \in ObjectType(layout) /\ q.form = o.form /\ q.device = o.device /\ SameReading(o, q)
        /\ q.outer = <<q.shape, q.dtype>> /\ q.moved = o.moved /\ q.data = o.data /\ q.scale = o.scale
    BY <1>2, <1>3, <2>1 DEF ObjectType, SameReading
  <2> HIDE DEF q
  <2>3. RunsWhereMoved(q) /\ c.form = q.form /\ SameCodes(c, c)
    BY <1>2, <2>2 DEF RunsWhereMoved, Reads, SameCodes
  <2>4. CASE force
    <3>1. Sound(layout, q, c, s)
      BY <1>2, <1>5, <2>2, <2>3, ConvertedSound
    <3>2. AddFresh(q, c, s)
      BY <1>6, <1>8, <2>4 DEF q
    <3> QED BY <2>2, <2>3, <3>1, <3>2, AddFreshInv
  <2>5. CASE ~force
    <3>1. o.form # "packed" => Goes(layout, c, r)
      BY <1>1, GoesFacts DEF o, c, r
    <3>2. Sound(layout, q, c, r)
      BY <1>2, <2>2, <2>3, <3>1, ConvertedSound
    <3>3. AddWithClonedScale(q)
      BY <1>6, <1>8, <2>5 DEF q
    <3> QED BY <2>2, <3>2, <3>3, AddWithClonedScaleInv DEF o, c, r
  <2> QED BY <2>4, <2>5
<1> QED BY <1>7, <1>8

LEMMA LostFacts ==
  ASSUME NEW l, NEW o \in ObjectType(l)
  PROVE  /\ Lost(o) \in ObjectType(l) /\ Lost(o).owned = FALSE
         /\ Lost(o).data = o.data /\ Lost(o).scale = o.scale /\ Lost(o).form = o.form
         /\ Lost(o).view = o.view /\ Lost(o).transposed = o.transposed /\ Lost(o).shape = o.shape
         /\ Lost(o).dtype = o.dtype /\ Lost(o).outer = o.outer
BY DEF Lost, ObjectType, Marks

LEMMA LostSound ==
  ASSUME NEW l, NEW o \in ObjectType(l), NEW c, NEW s, Built(l, o, c, s)
  PROVE  Sound(l, Lost(o), c, s)
<1> DEFINE q == Lost(o)
<1>1. /\ q.owned = FALSE /\ q.form = o.form /\ q.view = o.view /\ q.transposed = o.transposed
      /\ q.shape = o.shape /\ q.dtype = o.dtype /\ q.outer = o.outer
  BY LostFacts
<1> HIDE DEF q
<1>2. Physical(q) = Physical(o)
  BY <1>1 DEF Physical
<1>3. Built(l, q, c, s)
  BY <1>1, <1>2 DEF Built
<1> QED BY <1>1, <1>3 DEF Sound, q

LEMMA EmptyLikeInv ==
  ASSUME Inv, NEW i \in Objects, NEW device \in Devices[layout], NEW dtype \in Dtypes[layout], EmptyLike(i, device, dtype)
  PROVE  Inv'
<1> DEFINE o == objects[i]
           c == codes[o.data]
           r == At(scales, o.scale)
           p == [o EXCEPT !.device = device, !.dtype = dtype, !.outer = <<o.shape, dtype>>]
           d == [c EXCEPT !.of = Unwritten]
<1>1. i \in Usable /\ AddFresh(Lost(p), d, Clone(r))
  BY DEF EmptyLike, ScaleOf, At
<1>2. /\ o \in ObjectType(layout) /\ layout \in Layouts /\ c \in CodesType(layout)
      /\ Built(layout, o, c, r) /\ c.form = o.form
  BY <1>1, UsableFacts DEF Reads
<1>3. device \in AllDevices /\ dtype \in AllDtypes /\ o.shape \in Shapes
  BY <1>2, TypeFacts DEF AllDevices, AllDtypes
<1>4. r \in ScaleType \cup {Free}
  BY <1>2, TypeFacts, InvFacts DEF At
<1> HIDE DEF o, c, r
<1>5. /\ p \in ObjectType(layout) /\ p.form = o.form /\ p.view = o.view /\ p.transposed = o.transposed
      /\ p.shape = o.shape /\ p.outer = <<p.shape, p.dtype>>
  BY <1>2, <1>3 DEF ObjectType
<1>6. d \in CodesType(layout) /\ d.form = c.form /\ d.size = c.size
  BY <1>2 DEF CodesType, Marks
<1> HIDE DEF p, d
<1>7. Built(layout, p, d, r)
  BY <1>2, <1>5, <1>6 DEF Built, Physical
<1>8. Sound(layout, Lost(p), d, Clone(r))
  BY <1>2, <1>4, <1>5, <1>7, LostSound, CloneSound
<1>9. Lost(p) \in ObjectType(layout) /\ d.form = Lost(p).form
  BY <1>2, <1>5, <1>6, LostFacts
<1> QED BY <1>1, <1>8, <1>9, AddFreshInv DEF p, d, o, c, r

-----------------------------------------------------------------------------
(* Operations that overwrite, convert in place or let go. *)

LEMMA ConcatFacts ==
  ASSUME NEW S, NEW a \in Seq(S), NEW b \in Seq(S)
  PROVE  (a \o b) \in Seq(S) /\ Len(a \o b) = Len(a) + Len(b)
OBVIOUS

LEMMA RemoveAtFacts ==
  ASSUME NEW S, NEW s \in Seq(S), NEW i \in 1 .. Len(s)
  PROVE  /\ RemoveAt(s, i) \in Seq(S) /\ Len(RemoveAt(s, i)) = Len(s) - 1
         /\ \A n \in 1 .. Len(s) - 1 : RemoveAt(s, i)[n] = IF n < i THEN s[n] ELSE s[n + 1]
<1> DEFINE a == SubSeq(s, 1, i - 1)
           b == SubSeq(s, i + 1, Len(s))
<1>0. Len(s) \in Nat /\ i \in Nat /\ 1 <= i /\ i <= Len(s)
  OBVIOUS
<1>1. a \in Seq(S) /\ Len(a) = i - 1 /\ \A n \in 1 .. i - 1 : a[n] = s[n]
  BY <1>0
<1>2. b \in Seq(S) /\ Len(b) = Len(s) - i /\ \A n \in 1 .. Len(s) - i : b[n] = s[n + i]
  BY <1>0
<1>3. RemoveAt(s, i) = a \o b
  BY DEF RemoveAt
<1> HIDE DEF a, b
<1>4. RemoveAt(s, i) \in Seq(S) /\ Len(RemoveAt(s, i)) = Len(s) - 1
  <2>1. (a \o b) \in Seq(S) /\ Len(a \o b) = Len(a) + Len(b)
    BY <1>1, <1>2, ConcatFacts
  <2> QED BY <1>0, <1>1, <1>2, <1>3, <2>1
<1>5. ASSUME NEW n \in 1 .. Len(s) - 1
      PROVE  RemoveAt(s, i)[n] = IF n < i THEN s[n] ELSE s[n + 1]
  <2>1. CASE n < i
    <3>1. n \in 1 .. i - 1 /\ n \in 1 .. Len(a)
      BY <1>0, <1>1, <2>1
    <3>2. (a \o b)[n] = a[n]
      BY <1>1, <1>2, <3>1
    <3> QED BY <1>1, <1>3, <2>1, <3>1, <3>2
  <2>2. CASE ~(n < i)
    <3>1. n - (i - 1) \in 1 .. Len(s) - i /\ (n - (i - 1)) + i = n + 1
      BY <1>0, <2>2
    <3>2. (a \o b)[n] = b[n - Len(a)]
      BY <1>0, <1>1, <1>2, <2>2
    <3>3. b[n - (i - 1)] = s[n + 1]
      BY <1>2, <3>1
    <3> QED BY <1>1, <1>3, <2>2, <3>2, <3>3
  <2> QED BY <2>1, <2>2
<1> QED BY <1>4, <1>5

LEMMA DropInv ==
  ASSUME Inv, NEW i \in Objects, Drop(i)
  PROVE  Inv'
<1> DEFINE r == RemoveAt(objects, i)
<1>1. /\ objects \in Seq(ObjectType(layout)) /\ Len(objects) \in Nat /\ i \in 1 .. Len(objects)
      /\ DOMAIN objects = 1 .. Len(objects) /\ Len(objects) <= MaxObjects
  BY InvFacts
<1>2. /\ r \in Seq(ObjectType(layout)) /\ Len(r) = Len(objects) - 1
      /\ \A n \in 1 .. Len(r) : r[n] = IF n < i THEN objects[n] ELSE objects[n + 1]
  BY <1>1, RemoveAtFacts
<1>3. ASSUME NEW n \in DOMAIN r
      PROVE  \E m \in Objects : r[n] = objects[m]
  <2>1. n \in 1 .. Len(r)
    BY <1>2, <1>3
  <2>2. n \in Objects /\ n + 1 \in Objects
    BY <1>1, <1>2, <2>1, InvFacts
  <2> QED BY <1>2, <2>1, <2>2
<1> HIDE DEF r
<1>4. AllSound(layout, r, codes, scales)
  <2> SUFFICES ASSUME NEW n \in DOMAIN r
               PROVE  ScaleFlag(r[n]) /\ Sound(layout, r[n], codes[r[n].data], At(scales, r[n].scale))
    BY DEF AllSound
  <2>1. PICK m \in Objects : r[n] = objects[m]
    BY <1>3
  <2> QED BY <2>1, ObjectFacts
<1>5. ScalesGoWithCodes(r)
  <2> SUFFICES ASSUME NEW m \in DOMAIN r, NEW n \in DOMAIN r, r[m].scale = r[n].scale, r[m].scale # 0
               PROVE  r[m].data = r[n].data
    BY DEF ScalesGoWithCodes
  <2>1. PICK k \in Objects : r[m] = objects[k]
    BY <1>3
  <2>2. PICK j \in Objects : r[n] = objects[j]
    BY <1>3
  <2> QED BY <2>1, <2>2, InvFacts DEF Inv, Wellformed, ScalesGoWithCodes
<1>6. Wellformed(layout, r, codes, scales)
  BY <1>1, <1>2, <1>4, <1>5, SlotFacts DEF Wellformed
<1>7. Keep(r, codes, scales)
  BY DEF Drop, r
<1> QED BY <1>6, <1>7, InvFacts, KeepInv

\* Objects that differ from the old ones one by one are wellformed if each is.
LEMMA OneByOne ==
  ASSUME Inv, NEW STATE objs, objs = [n \in Objects |-> objs[n]], NEW STATE cs, NEW STATE ss,
         \A n \in Objects : /\ objs[n] \in ObjectType(layout) /\ ScaleFlag(objs[n])
                            /\ Sound(layout, objs[n], cs[objs[n].data], At(ss, objs[n].scale)),
         ScalesGoWithCodes(objs)
  PROVE  Wellformed(layout, objs, cs, ss)
<1>1. Objects = 1 .. Len(objects) /\ Len(objects) \in Nat /\ Len(objects) <= MaxObjects
  BY InvFacts
<1>2. DOMAIN objs = Objects
  OBVIOUS
<1>3. [n \in Objects |-> objs[n]] \in [Objects -> ObjectType(layout)]
  OBVIOUS
<1>4. objs \in [1 .. Len(objects) -> ObjectType(layout)]
  BY <1>1, <1>3, Zenon
<1>5. objs \in Seq(ObjectType(layout)) /\ Len(objs) = Len(objects)
  BY <1>1, <1>4
<1>6. AllSound(layout, objs, cs, ss)
  BY <1>2 DEF AllSound
<1> QED BY <1>1, <1>5, <1>6 DEF Wellformed

LEMMA OldScalesGoWithCodes ==
  ASSUME Inv, NEW m \in Objects, NEW n \in Objects, objects[m].scale = objects[n].scale, objects[m].scale # 0
  PROVE  objects[m].data = objects[n].data
BY InvFacts DEF Inv, Wellformed, ScalesGoWithCodes

\* Overwriting the codes of an object, and its scale, leaves every object of one build.
Written(d, c, cs, ss) ==
  /\ cs = [codes EXCEPT ![objects[d].data] = c]
  /\ c \in CodesType(layout) /\ c.size = codes[objects[d].data].size
  /\ \/ ss = scales
     \/ /\ objects[d].scale # 0
        /\ ss = [scales EXCEPT ![objects[d].scale] = ss[objects[d].scale]]
        /\ ss[objects[d].scale] \in ScaleType
        /\ ss[objects[d].scale].kind = scales[objects[d].scale].kind

LEMMA WrittenBuilt ==
  ASSUME Inv, NEW d \in Objects, NEW STATE c, NEW STATE cs, NEW STATE ss, Written(d, c, cs, ss), NEW n \in Objects
  PROVE  /\ Built(layout, objects[n], cs[objects[n].data], At(ss, objects[n].scale))
         /\ n \notin Sharing(d) \cup {d} =>
              /\ cs[objects[n].data] = codes[objects[n].data]
              /\ At(ss, objects[n].scale) = At(scales, objects[n].scale)
         /\ n \in Sharing(d) \cup {d} => cs[objects[n].data] = c
<1> DEFINE o == objects[n]
           w == objects[d]
<1>1. /\ o \in ObjectType(layout) /\ o.data \in Slots /\ Built(layout, o, codes[o.data], At(scales, o.scale)) /\ ScaleFlag(o)
      /\ w.data \in Slots /\ w \in ObjectType(layout) /\ Built(layout, w, codes[w.data], At(scales, w.scale)) /\ ScaleFlag(w)
  BY ObjectFacts DEF Sound
<1>2. o.scale \in {0} \cup Slots /\ w.scale \in {0} \cup Slots
  BY <1>1, TypeFacts
<1>3. n \in Sharing(d) \cup {d} <=> o.data = w.data
  BY DEF Sharing
<1>4. o.data = w.data => cs[o.data] = c
  BY <1>1, InvFacts DEF Written
<1>5. o.data # w.data => cs[o.data] = codes[o.data] /\ At(ss, o.scale) = At(scales, o.scale)
  <2> SUFFICES ASSUME o.data # w.data
               PROVE  cs[o.data] = codes[o.data] /\ At(ss, o.scale) = At(scales, o.scale)
    OBVIOUS
  <2>1. cs[o.data] = codes[o.data]
    BY <1>1, InvFacts DEF Written
  <2>2. o.scale = 0 \/ o.scale # w.scale
    BY OldScalesGoWithCodes
  <2>3. At(ss, o.scale) = At(scales, o.scale)
    BY <1>2, <2>2, InvFacts DEF Written, At
  <2> QED BY <2>1, <2>3
<1>6. Built(layout, o, cs[o.data], At(ss, o.scale))
  <2>1. CASE o.data # w.data
    BY <1>1, <1>5, <2>1
  <2>2. CASE o.data = w.data
    <3>1. cs[o.data] \in CodesType(layout) /\ cs[o.data].size = codes[o.data].size
      BY <1>4, <2>2 DEF Written
    <3>2. o.scale # 0 => ss[o.scale] \in ScaleType /\ ss[o.scale].kind = scales[o.scale].kind
      <4>1. o.scale # 0 => scales[o.scale] \in ScaleType
        BY <1>1 DEF Built, ScaleFlag, At
      <4> QED BY <1>2, <4>1, InvFacts DEF Written
    <3>3. o.form # "packed" => At(ss, o.scale) \in ScaleType /\ At(ss, o.scale).kind = At(scales, o.scale).kind
      BY <1>1, <3>2 DEF ScaleFlag, At
    <3>4. layout = "fp8" => o.form # "packed"
      BY <1>1, TypeFacts DEF FormsOf
    <3> HIDE DEF o, w
    <3> QED BY <1>1, <3>1, <3>3, <3>4 DEF Built
  <2> QED BY <2>1, <2>2
<1> QED BY <1>3, <1>4, <1>5, <1>6

LEMMA DisownWellformed ==
  ASSUME Inv, NEW d \in Objects, NEW STATE c, NEW STATE cs, NEW STATE ss, Written(d, c, cs, ss)
  PROVE  Wellformed(layout, Disown(objects, Sharing(d) \cup {d}), cs, ss)
<1> DEFINE objs == Disown(objects, Sharing(d) \cup {d})
<1>1. objs = [n \in Objects |-> IF n \in Sharing(d) \cup {d} THEN Lost(objects[n]) ELSE objects[n]]
  BY InvFacts DEF Disown
<1>2. objs = [n \in Objects |-> objs[n]]
  BY <1>1
<1> HIDE DEF objs
<1>3. ASSUME NEW n \in Objects
      PROVE  objs[n].data = objects[n].data /\ objs[n].scale = objects[n].scale
  <2>1. objects[n] \in ObjectType(layout)
    BY ObjectFacts
  <2>2. Lost(objects[n]).data = objects[n].data /\ Lost(objects[n]).scale = objects[n].scale
    BY <2>1, LostFacts
  <2> QED BY <1>1, <2>2
<1>4. ASSUME NEW n \in Objects
      PROVE  /\ objs[n] \in ObjectType(layout) /\ ScaleFlag(objs[n])
             /\ Sound(layout, objs[n], cs[objs[n].data], At(ss, objs[n].scale))
  <2>1. objects[n] \in ObjectType(layout) /\ ScaleFlag(objects[n])
        /\ Sound(layout, objects[n], codes[objects[n].data], At(scales, objects[n].scale))
    BY ObjectFacts
  <2>2. CASE n \in Sharing(d) \cup {d}
    <3>1. objs[n] = Lost(objects[n])
      BY <1>1, <2>2
    <3>2. Built(layout, objects[n], cs[objects[n].data], At(ss, objects[n].scale))
      BY WrittenBuilt
    <3>3. Sound(layout, objs[n], cs[objs[n].data], At(ss, objs[n].scale))
      BY <1>3, <2>1, <3>1, <3>2, LostSound
    <3>4. objs[n] \in ObjectType(layout) /\ objs[n].form = objects[n].form
      BY <2>1, <3>1, LostFacts
    <3> QED BY <1>3, <2>1, <3>3, <3>4 DEF ScaleFlag
  <2>3. CASE n \notin Sharing(d) \cup {d}
    <3>1. objs[n] = objects[n]
      BY <1>1, <2>3
    <3>2. /\ cs[objects[n].data] = codes[objects[n].data]
          /\ At(ss, objects[n].scale) = At(scales, objects[n].scale)
      BY <2>3, WrittenBuilt
    <3> QED BY <2>1, <3>1, <3>2
  <2> QED BY <2>2, <2>3
<1>5. ScalesGoWithCodes(objs)
  <2>1. DOMAIN objs = Objects
    BY <1>1
  <2> QED BY <1>3, <2>1, OldScalesGoWithCodes DEF ScalesGoWithCodes
<1> QED BY <1>2, <1>4, <1>5, OneByOne DEF objs

\* The same of an object that a copy wrote to, and of those that follow it.
CopyFits(d, s) ==
  LET dst == objects[d]
      src == objects[s]
  IN  /\ s \in Usable
      /\ src.data # dst.data
      /\ src.outer[1] = dst.outer[1]
      /\ DataShape(src) = DataShape(dst)

Copied(d, s, c, cs, ss) ==
  /\ Written(d, c, cs, ss)
  /\ c.of = codes[objects[s].data].of /\ c.form = codes[objects[s].data].form
  /\ c.t = Flips(Flips(codes[objects[s].data].t, objects[s].view), objects[d].view)
  /\ IF objects[d].scale = 0 THEN Physical(objects[d]) = Physical(objects[s])
     ELSE /\ ss[objects[d].scale].of = codes[objects[s].data].of
          /\ ss[objects[d].scale].t = codes[objects[s].data].t

LEMMA CopyShapes ==
  ASSUME Inv, NEW d \in Objects, NEW s \in Objects, CopyFits(d, s)
  PROVE  /\ (objects[s].form = "packed") = (objects[d].form = "packed")
         /\ objects[s].form # "packed" => Laid(objects[s].view, codes[objects[s].data].size)
                                          = Laid(objects[d].view, codes[objects[d].data].size)
         /\ objects[s].shape = objects[d].shape
<1> DEFINE dst == objects[d]
           src == objects[s]
           sized(o) == Laid(o.view, codes[o.data].size)
<1>1. /\ dst \in ObjectType(layout) /\ src \in ObjectType(layout)
      /\ Built(layout, dst, codes[dst.data], At(scales, dst.scale)) /\ Built(layout, src, codes[src.data], At(scales, src.scale))
  BY ObjectFacts DEF Sound
<1>2. codes[dst.data].size \in Shapes /\ codes[src.data].size \in Shapes
  BY <1>1 DEF Built, CodesType
<1>3. /\ dst.form # "packed" => DataShape(dst) = sized(dst)
      /\ src.form # "packed" => DataShape(src) = sized(src)
      /\ dst.form = "packed" => DataShape(dst) = <<codes[dst.data].size[1] * codes[dst.data].size[2]>>
      /\ src.form = "packed" => DataShape(src) = <<codes[src.data].size[1] * codes[src.data].size[2]>>
  BY DEF DataShape, Laid
<1>4. DataShape(src) = DataShape(dst)
  BY DEF CopyFits
<1>5. sized(dst) \in Shapes /\ sized(src) \in Shapes
  BY <1>1, <1>2, TypeFacts, LaidFacts
<1>6. \A x \in Shapes : \A y : x # <<y>>
  BY DEF Shapes
<1>7. (src.form = "packed") = (dst.form = "packed")
  BY <1>3, <1>4, <1>5, <1>6
<1>8. src.form # "packed" => sized(src) = sized(dst)
  BY <1>3, <1>4, <1>7
<1>9. src.shape = dst.shape
  BY <1>1 DEF CopyFits, Built
<1> QED BY <1>7, <1>8, <1>9

CopyTarget(d, s) ==
  [objects[d] EXCEPT !.shape = objects[s].shape, !.transposed = objects[s].transposed, !.form = objects[s].form,
                     !.expected = objects[s].expected, !.owned = TRUE, !.moved = FALSE]

LEMMA CopyTargetSound ==
  ASSUME Inv, NEW d \in Objects, NEW s \in Objects, CopyFits(d, s), NEW STATE c, NEW STATE cs, NEW STATE ss,
         Copied(d, s, c, cs, ss)
  PROVE  LET q == CopyTarget(d, s)
         IN  /\ q \in ObjectType(layout) /\ ScaleFlag(q) /\ q.data = objects[d].data /\ q.scale = objects[d].scale
             /\ Sound(layout, q, cs[q.data], At(ss, q.scale))
<1> DEFINE dst == objects[d]
           src == objects[s]
           cd == codes[dst.data]
           co == codes[src.data]
           r == At(ss, dst.scale)
           old == At(scales, src.scale)
           q == CopyTarget(d, s)
<1>1. /\ src \in ObjectType(layout) /\ Built(layout, src, co, old) /\ Reads(src, co, old)
      /\ co.t \in BOOLEAN /\ co.size \in Shapes
  BY UsableFacts DEF CopyFits
<1>2. /\ dst \in ObjectType(layout) /\ ScaleFlag(dst) /\ ScaleFlag(src)
      /\ Built(layout, dst, cd, At(scales, dst.scale))
  BY ObjectFacts DEF Sound
<1>3. /\ (src.form = "packed") = (dst.form = "packed")
      /\ src.form # "packed" => Laid(src.view, co.size) = Laid(dst.view, cd.size)
      /\ src.shape = dst.shape
  BY CopyShapes
<1>4. /\ cs[dst.data] = c /\ Built(layout, dst, c, r)
      /\ c \in CodesType(layout) /\ c.size = cd.size /\ c.of = co.of /\ c.form = co.form
      /\ c.t = Flips(Flips(co.t, src.view), dst.view)
      /\ IF dst.scale = 0 THEN Physical(dst) = Physical(src) ELSE r.of = co.of /\ r.t = co.t
  <2>1. cs[dst.data] = c /\ Built(layout, dst, cs[dst.data], r)
    BY WrittenBuilt DEF Copied
  <2> QED BY <2>1 DEF Copied, Written, At
<1>5. /\ src.shape \in Shapes /\ src.transposed \in BOOLEAN /\ src.form \in FormsOf(layout) /\ src.view \in BOOLEAN
      /\ src.expected \in [of : Marks, t : BOOLEAN] /\ dst.view \in BOOLEAN /\ src.expected.t \in BOOLEAN
  BY <1>1, <1>2, TypeFacts
<1>6. q = [dst EXCEPT !.shape = src.shape, !.transposed = src.transposed, !.form = src.form,
                     !.expected = src.expected, !.owned = TRUE, !.moved = FALSE]
  BY DEF CopyTarget
<1> HIDE DEF dst, src, cd, co, r, old, q
<1>7. /\ q \in ObjectType(layout) /\ q.data = dst.data /\ q.scale = dst.scale /\ q.view = dst.view /\ q.shape = src.shape
      /\ q.transposed = src.transposed /\ q.form = src.form /\ q.expected = src.expected /\ q.owned = TRUE /\ q.moved = FALSE
      /\ q.outer = dst.outer /\ q.dtype = dst.dtype
  BY <1>2, <1>5, <1>6 DEF ObjectType
<1>8. ScaleFlag(q)
  BY <1>2, <1>3, <1>7 DEF ScaleFlag
<1>9. Built(layout, q, c, r)
  <2>1. Physical(q) = Physical(src)
    BY <1>7 DEF Physical
  <2>2. Laid(q.view, c.size) = PaddedIn(layout, Physical(q))
    <3>1. CASE dst.form = "packed"
      <4>1. Physical(dst) = Physical(src)
        BY <1>2, <1>4, <3>1 DEF ScaleFlag
      <4> QED BY <1>4, <1>7, <2>1, <4>1 DEF Built
    <3>2. CASE dst.form # "packed"
      BY <1>1, <1>3, <1>4, <1>7, <2>1, <3>2 DEF Built
    <3> QED BY <3>1, <3>2
  <2>3. layout = "fp8" => ~q.transposed /\ r.kind = "scalar"
    BY <1>1, <1>4, <1>7 DEF Built
  <2>4. layout # "fp8" => ~q.view
    BY <1>4, <1>7 DEF Built
  <2>5. q.outer = <<q.shape, q.dtype>>
    BY <1>2, <1>3, <1>7 DEF Built
  <2>6. q.form # "packed" => r \in ScaleType
    BY <1>3, <1>4, <1>7 DEF Built
  <2> QED BY <1>4, <2>2, <2>3, <2>4, <2>5, <2>6 DEF Built
<1>10. Reads(q, c, r)
  <2>1. Flips(Flips(c.t, q.view), q.transposed) = q.expected.t
    <3>1. Flips(c.t, q.view) = Flips(co.t, src.view)
      BY <1>1, <1>4, <1>5, <1>7 DEF Flips
    <3> QED BY <1>1, <1>7, <3>1 DEF Reads
  <2>2. q.form # "packed" => r.of = c.of /\ (r.kind = "scalar" \/ r.t = c.t)
    <3> SUFFICES ASSUME q.form # "packed"
                 PROVE  r.of = c.of /\ (r.kind = "scalar" \/ r.t = c.t)
      OBVIOUS
    <3>1. dst.scale # 0
      BY <1>2, <1>3, <1>7 DEF ScaleFlag
    <3>2. layout # "fp8" => c.t = co.t
      <4>1. layout # "fp8" => src.view = FALSE /\ dst.view = FALSE
        BY <1>1, <1>2, <1>5 DEF Built
      <4> QED BY <1>1, <1>4, <4>1 DEF Flips
    <3>3. layout = "fp8" => r.kind = "scalar"
      BY <1>4 DEF Built
    <3> QED BY <1>4, <3>1, <3>2, <3>3
  <2> QED BY <1>1, <1>4, <1>7, <2>1, <2>2 DEF Reads
<1>11. Sound(layout, q, cs[q.data], At(ss, q.scale))
  <2>1. Sound(layout, q, c, r)
    BY <1>9, <1>10 DEF Sound
  <2> QED BY <1>4, <1>7, <2>1 DEF r
<1> QED BY <1>7, <1>8, <1>11 DEF q, dst

\* An alias of the written object, its flags standing to those of the object as before.
Turned(a, d) == Flips(objects[a].expected.t, objects[d].expected.t)

Follows(a, d, s) ==
  /\ objects[a].owned /\ objects[d].owned
  /\ objects[a].scale = objects[d].scale /\ objects[a].scale # 0
  /\ objects[a].form = objects[s].form
  /\ Turned(a, d) = Flips(Flips(objects[a].transposed, objects[s].transposed), Flips(objects[a].view, objects[d].view))

Follower(a, d, s) ==
  [objects[a] EXCEPT !.expected = [of |-> objects[s].expected.of, t |-> Flips(objects[s].expected.t, Turned(a, d))]]

LEMMA FollowerSound ==
  ASSUME Inv, NEW d \in Objects, NEW s \in Objects, CopyFits(d, s), NEW STATE c, NEW STATE cs, NEW STATE ss,
         Copied(d, s, c, cs, ss), NEW a \in Sharing(d), Follows(a, d, s)
  PROVE  LET q == Follower(a, d, s)
         IN  /\ q \in ObjectType(layout) /\ ScaleFlag(q) /\ q.data = objects[a].data /\ q.scale = objects[a].scale
             /\ Sound(layout, q, cs[q.data], At(ss, q.scale))
<1> DEFINE dst == objects[d]
           src == objects[s]
           o == objects[a]
           cd == codes[dst.data]
           co == codes[src.data]
           r == At(ss, o.scale)
           turned == Turned(a, d)
           e == [of |-> src.expected.of, t |-> Flips(src.expected.t, turned)]
           q == Follower(a, d, s)
<1>0. s \in Usable /\ a \in Usable /\ d \in Usable /\ o.data = dst.data /\ o.scale = dst.scale /\ o.scale # 0 /\ o.form = src.form
  BY DEF CopyFits, Follows, Sharing, Usable
<1>1. /\ src \in ObjectType(layout) /\ Built(layout, src, co, At(scales, src.scale)) /\ Reads(src, co, At(scales, src.scale))
      /\ co.t \in BOOLEAN
  BY <1>0, UsableFacts
<1>2. dst \in ObjectType(layout) /\ Reads(dst, cd, At(scales, dst.scale))
  BY <1>0, UsableFacts
<1>3. /\ o \in ObjectType(layout) /\ Reads(o, cd, At(scales, o.scale)) /\ ScaleFlag(o)
      /\ Built(layout, o, c, r) /\ cs[o.data] = c
  <2>1. Built(layout, o, cs[o.data], r) /\ cs[o.data] = c
    BY <1>0, UsableFacts, WrittenBuilt DEF Copied
  <2> QED BY <1>0, <2>1, UsableFacts, ObjectFacts
<1>4. /\ c.of = co.of /\ c.form = co.form /\ c.t = Flips(Flips(co.t, src.view), dst.view) /\ r.of = co.of /\ r.t = co.t
  BY <1>0 DEF Copied, At
<1>5. src.shape = dst.shape
  BY CopyShapes
<1>6. /\ src.expected.of \in Values /\ src.expected.t \in BOOLEAN /\ dst.expected.t \in BOOLEAN /\ o.expected.t \in BOOLEAN
      /\ src.view \in BOOLEAN /\ src.transposed \in BOOLEAN /\ dst.view \in BOOLEAN /\ o.view \in BOOLEAN /\ o.transposed \in BOOLEAN
      /\ o.outer = <<o.shape, o.dtype>>
  BY <1>1, <1>2, <1>3, TypeFacts DEF Reads, Built
<1>7. turned = Flips(o.expected.t, dst.expected.t)
      /\ turned = Flips(Flips(o.transposed, src.transposed), Flips(o.view, dst.view))
  BY DEF Follows, Turned
<1>8. q = [o EXCEPT !.expected = e]
  BY DEF Follower
<1> HIDE DEF dst, src, o, cd, co, r, turned, q
<1>9. turned \in BOOLEAN /\ Flips(src.expected.t, turned) \in BOOLEAN
  BY <1>6, <1>7 DEF Flips
<1>10. e \in [of : Marks, t : BOOLEAN] /\ e.of = src.expected.of /\ e.t = Flips(src.expected.t, turned)
  BY <1>6, <1>9 DEF Marks
<1> HIDE DEF e
<1>11. /\ q \in ObjectType(layout) /\ q.data = o.data /\ q.scale = o.scale /\ q.view = o.view /\ q.shape = o.shape
       /\ q.transposed = o.transposed /\ q.form = o.form /\ q.expected = e /\ q.owned = o.owned /\ q.moved = o.moved
       /\ q.outer = o.outer /\ q.dtype = o.dtype /\ q.device = o.device
  BY <1>3, <1>8, <1>10 DEF ObjectType
<1>12. Built(layout, q, c, r)
  <2>1. Physical(q) = Physical(o)
    BY <1>11 DEF Physical
  <2> QED BY <1>3, <1>11, <2>1 DEF Built
<1>13. Reads(q, c, r)
  <2>1. Flips(Flips(c.t, q.view), q.transposed) = e.t
    <3>1. Flips(Flips(co.t, src.view), src.transposed) = src.expected.t
      BY <1>1 DEF Reads
    <3> QED BY <1>1, <1>4, <1>6, <1>7, <1>10, <1>11, <3>1 DEF Flips
  <2>2. r.kind = "scalar" \/ r.t = c.t
    <3>1. layout # "fp8" => c.t = co.t
      <4>1. layout # "fp8" => src.view = FALSE /\ dst.view = FALSE
        <5>1. Built(layout, dst, cd, At(scales, dst.scale))
          BY <1>0, UsableFacts DEF dst, cd
        <5> QED BY <1>1, <1>6, <5>1 DEF Built
      <4> QED BY <1>1, <1>4, <4>1 DEF Flips
    <3> QED BY <1>3, <1>4, <3>1 DEF Built
  <2>3. o.shape = Logical(e)
    <3>1. o.shape = Logical(o.expected) /\ dst.shape = Logical(dst.expected) /\ o.expected.of = dst.expected.of
          /\ dst.expected.of \in Values
      BY <1>2, <1>3 DEF Reads
    <3>2. src.shape = Logical(src.expected)
      BY <1>1 DEF Reads
    <3>3. CASE turned = FALSE
      <4>1. o.expected.t = dst.expected.t /\ e.t = src.expected.t
        BY <1>6, <1>7, <1>10, <3>3 DEF Flips
      <4> QED BY <1>5, <1>10, <3>1, <3>2, <4>1 DEF Logical
    <3>4. CASE turned = TRUE
      <4>1. o.expected.t = ~dst.expected.t /\ e.t = ~src.expected.t
        BY <1>6, <1>7, <1>10, <3>4 DEF Flips
      <4>2. Logical(o.expected) = Swap(Logical(dst.expected))
        BY <1>6, <3>1, <4>1, LogicalFacts
      <4>3. Logical(e) = Swap(Logical(src.expected))
        BY <1>6, <1>10, <4>1, LogicalFacts
      <4> QED BY <1>5, <3>1, <3>2, <4>2, <4>3
    <3> QED BY <1>9, <3>3, <3>4
  <2> QED BY <1>0, <1>1, <1>3, <1>4, <1>6, <1>10, <1>11, <2>1, <2>2, <2>3 DEF Reads
<1>14. Sound(layout, q, cs[q.data], At(ss, q.scale))
  <2>1. Sound(layout, q, c, r)
    BY <1>12, <1>13 DEF Sound
  <2> QED BY <1>3, <1>11, <2>1 DEF r
<1>15. ScaleFlag(q)
  BY <1>3, <1>11 DEF ScaleFlag
<1> QED BY <1>11, <1>14, <1>15 DEF q, o

LEMMA CopiedWellformed ==
  ASSUME Inv, NEW d \in Objects, NEW s \in Objects, CopyFits(d, s), NEW STATE c, NEW STATE cs, NEW STATE ss,
         Copied(d, s, c, cs, ss)
  PROVE  Wellformed(layout, AfterCopy(d, s), cs, ss)
<1> DEFINE objs == AfterCopy(d, s)
<1>1. objs = [n \in Objects |->
                IF n = d THEN CopyTarget(d, s)
                ELSE IF n \notin Sharing(d) THEN objects[n]
                ELSE IF ~Follows(n, d, s) THEN Lost(objects[n])
                ELSE Follower(n, d, s)]
  BY DEF AfterCopy, CopyTarget, Follows, Follower, Turned
<1>2. objs = [n \in Objects |-> objs[n]]
  BY <1>1
<1>3. Written(d, c, cs, ss)
  BY DEF Copied
<1> HIDE DEF objs
<1>4. ASSUME NEW n \in Objects
      PROVE  /\ objs[n] \in ObjectType(layout) /\ ScaleFlag(objs[n])
             /\ Sound(layout, objs[n], cs[objs[n].data], At(ss, objs[n].scale))
             /\ objs[n].data = objects[n].data /\ objs[n].scale = objects[n].scale
  <2>1. objects[n] \in ObjectType(layout) /\ ScaleFlag(objects[n])
        /\ Sound(layout, objects[n], codes[objects[n].data], At(scales, objects[n].scale))
    BY ObjectFacts
  <2>2. CASE n = d
    <3>1. objs[n] = CopyTarget(d, s)
      BY <1>1, <2>2
    <3> QED BY <2>2, <3>1, CopyTargetSound
  <2>3. CASE n # d /\ n \notin Sharing(d)
    <3>1. objs[n] = objects[n]
      BY <1>1, <2>3
    <3>2. /\ cs[objects[n].data] = codes[objects[n].data]
          /\ At(ss, objects[n].scale) = At(scales, objects[n].scale)
      BY <1>3, <2>3, WrittenBuilt
    <3> QED BY <2>1, <3>1, <3>2
  <2>4. CASE n # d /\ n \in Sharing(d) /\ ~Follows(n, d, s)
    <3>1. objs[n] = Lost(objects[n])
      BY <1>1, <2>4
    <3>2. Built(layout, objects[n], cs[objects[n].data], At(ss, objects[n].scale))
      BY <1>3, WrittenBuilt
    <3>3. /\ objs[n] \in ObjectType(layout) /\ objs[n].form = objects[n].form
          /\ objs[n].data = objects[n].data /\ objs[n].scale = objects[n].scale
      <4>1. /\ Lost(objects[n]) \in ObjectType(layout) /\ Lost(objects[n]).form = objects[n].form
            /\ Lost(objects[n]).data = objects[n].data /\ Lost(objects[n]).scale = objects[n].scale
        BY <2>1, LostFacts
      <4> QED BY <3>1, <4>1
    <3>4. Sound(layout, objs[n], cs[objs[n].data], At(ss, objs[n].scale))
      BY <2>1, <3>1, <3>2, <3>3, LostSound
    <3> QED BY <2>1, <3>3, <3>4 DEF ScaleFlag
  <2>5. CASE n # d /\ n \in Sharing(d) /\ Follows(n, d, s)
    <3>1. objs[n] = Follower(n, d, s)
      BY <1>1, <2>5
    <3> QED BY <2>5, <3>1, FollowerSound
  <2> QED BY <2>2, <2>3, <2>4, <2>5
<1>5. ScalesGoWithCodes(objs)
  <2>1. DOMAIN objs = Objects
    BY <1>1
  <2> QED BY <1>4, <2>1, OldScalesGoWithCodes DEF ScalesGoWithCodes
<1> QED BY <1>2, <1>4, <1>5, OneByOne DEF objs

LEMMA CopyIntoInv ==
  ASSUME Inv, NEW d \in Objects, NEW s \in Objects, CopyInto(d, s)
  PROVE  Inv'
<1> DEFINE dst == objects[d]
           src == objects[s]
           co == codes[src.data]
           cd == codes[dst.data]
           c == Overwritten(d, s)
           cs == [codes EXCEPT ![dst.data] = c]
           new == [scales[dst.scale] EXCEPT !.of = co.of, !.t = co.t]
           fits == IF dst.scale = 0 THEN Physical(dst) = Physical(src)
                   ELSE scales[dst.scale].kind = "rows" \/ scales[src.scale].kind = "scalar"
           ss == IF dst.scale = 0 THEN scales ELSE [scales EXCEPT ![dst.scale] = new]
<1>1. /\ CopyFits(d, s)
      /\ ~fits => Keep(Disown(objects, Sharing(d) \cup {d}), cs, scales)
      /\ fits => Keep(AfterCopy(d, s), cs, ss)
  BY DEF CopyInto, CopyFits
<1>2. s \in Usable /\ layout \in Layouts
  BY <1>1, InvFacts DEF CopyFits
<1>3. /\ src \in ObjectType(layout) /\ co \in CodesType(layout) /\ co.t \in BOOLEAN /\ src.view \in BOOLEAN
  BY <1>2, UsableFacts, TypeFacts
<1>4. /\ dst \in ObjectType(layout) /\ cd \in CodesType(layout) /\ dst.view \in BOOLEAN /\ ScaleFlag(dst)
      /\ dst.scale \in {0} \cup Slots /\ Built(layout, dst, cd, At(scales, dst.scale))
  BY ObjectFacts, TypeFacts DEF Sound, Built
<1>5. cd.size \in Shapes
  BY <1>4 DEF CodesType
<1>6. /\ c \in CodesType(layout) /\ c.of = co.of /\ c.form = co.form /\ c.size = cd.size
      /\ c.t = Flips(Flips(co.t, src.view), dst.view)
  <2> DEFINE u == Flips(Flips(co.t, src.view), dst.view)
             z == cd.size
  <2>1. u \in BOOLEAN
    BY <1>3, <1>4 DEF Flips
  <2>2. c = [co EXCEPT !.t = u, !.size = z]
    BY <1>3 DEF Overwritten, CodesType
  <2> HIDE DEF u, z, c, co
  <2>3. z \in Shapes
    BY <1>5 DEF z
  <2>4. c \in CodesType(layout) /\ c.of = co.of /\ c.form = co.form /\ c.size = z /\ c.t = u
    BY <1>3, <2>1, <2>2, <2>3 DEF CodesType
  <2> QED BY <2>4 DEF u, z
<1>7. Written(d, c, cs, scales)
  <2> HIDE DEF c
  <2> QED BY <1>6 DEF Written
<1>8. CASE ~fits
  <2>1. Wellformed(layout, Disown(objects, Sharing(d) \cup {d}), cs, scales)
    <3> HIDE DEF c, cs
    <3> QED BY <1>7, DisownWellformed
  <2> QED BY <1>1, <1>2, <1>8, <2>1, KeepInv
<1>9. CASE fits
  <2>1. dst.scale # 0 => /\ ss[dst.scale] = new /\ new \in ScaleType /\ new.kind = scales[dst.scale].kind
                         /\ new.of = co.of /\ new.t = co.t
                         /\ ss = [scales EXCEPT ![dst.scale] = new]
    <3> SUFFICES ASSUME dst.scale # 0
                 PROVE  /\ ss[dst.scale] = new /\ new \in ScaleType /\ new.kind = scales[dst.scale].kind
                        /\ new.of = co.of /\ new.t = co.t
                        /\ ss = [scales EXCEPT ![dst.scale] = new]
      OBVIOUS
    <3>1. scales[dst.scale] \in ScaleType
      BY <1>4 DEF Built, ScaleFlag, At
    <3>2. co.of \in Marks
      BY <1>3 DEF CodesType
    <3> DEFINE x == scales[dst.scale]
               v == co.of
               u == co.t
    <3>3. new = [x EXCEPT !.of = v, !.t = u] /\ x \in ScaleType /\ v \in Marks /\ u \in BOOLEAN
      BY <1>3, <3>1, <3>2
    <3>4. ss = [scales EXCEPT ![dst.scale] = new]
      OBVIOUS
    <3>5. ss[dst.scale] = new
      <4> HIDE DEF new
      <4> QED BY <1>4, InvFacts, <3>4
    <3> HIDE DEF new, x, v, u
    <3>6. new \in ScaleType /\ new.kind = x.kind /\ new.of = v /\ new.t = u
      BY <3>3 DEF ScaleType
    <3> QED BY <3>4, <3>5, <3>6 DEF x, v, u
  <2>2. dst.scale = 0 => ss = scales /\ Physical(dst) = Physical(src)
    BY <1>9
  <2> HIDE DEF c, new, ss
  <2>3. Written(d, c, cs, ss)
    BY <1>6, <2>1, <2>2 DEF Written
  <2>4. Copied(d, s, c, cs, ss)
    BY <1>6, <2>1, <2>2, <2>3 DEF Copied
  <2>5. Wellformed(layout, AfterCopy(d, s), cs, ss)
    <3> HIDE DEF cs
    <3> QED BY <1>1, <2>4, CopiedWellformed
  <2> QED BY <1>1, <1>2, <1>9, <2>5, KeepInv
<1> QED BY <1>8, <1>9

LEMMA OptimizeForGemvInv ==
  ASSUME Inv, NEW i \in Objects, OptimizeForGemv(i)
  PROVE  Inv'
<1> DEFINE o == objects[i]
           lost == {n \in Objects : objects[n].data = o.data \/ objects[n].scale = o.scale}
           co == codes[o.data]
           so == scales[o.scale]
           q == [o EXCEPT !.form = "packed", !.scale = 0, !.moved = FALSE]
           c == [co EXCEPT !.form = "packed"]
           s == [so EXCEPT !.of = Unwritten]
           cs == [codes EXCEPT ![o.data].form = "packed"]
           ss == [scales EXCEPT ![o.scale].of = Unwritten]
           objs == Disown(objects, lost)
<1>1. /\ i \in Usable /\ Room /\ layout = "w4a8" /\ o.form # "packed" /\ Keep(Append(objs, q), cs, ss)
  BY DEF OptimizeForGemv
<1>2. /\ o \in ObjectType(layout) /\ layout \in Layouts /\ co \in CodesType(layout)
      /\ Built(layout, o, co, At(scales, o.scale)) /\ Reads(o, co, At(scales, o.scale))
  BY <1>1, UsableFacts
<1>3. so \in ScaleType /\ o.scale # 0 /\ o.scale \in Slots /\ o.data \in Slots
  BY <1>1, <1>2, GoesFacts, TypeFacts DEF Goes
<1>4. lost = Sharing(i) \cup {i}
  <2>1. \A n \in Objects : objects[n].scale = o.scale => objects[n].data = o.data
    BY <1>3, OldScalesGoWithCodes
  <2> QED BY <2>1 DEF Sharing
<1>5. "packed" \in FormsOf(layout) /\ 0 \in {0} \cup Slots
  BY <1>1 DEF FormsOf
<1>6. cs = [codes EXCEPT ![o.data] = c] /\ ss = [scales EXCEPT ![o.scale] = s]
  BY <1>3, InvFacts
<1> HIDE DEF o, co, so, cs, ss
<1>7. c \in CodesType(layout) /\ c.form = "packed" /\ SameCodes(co, c)
  BY <1>2, <1>5 DEF CodesType, SameCodes
<1>8. s \in ScaleType /\ s.kind = so.kind
  BY <1>3 DEF ScaleType, Marks
<1>9. /\ q \in ObjectType(layout) /\ q.form = "packed" /\ q.scale = 0 /\ q.moved = FALSE /\ q.data = o.data
      /\ SameReading(o, q) /\ q.outer = o.outer /\ q.shape = o.shape /\ q.dtype = o.dtype
  BY <1>2, <1>5 DEF ObjectType, SameReading
<1> HIDE DEF c, s, q, lost
<1>10. cs[o.data] = c /\ ss[o.scale] = s
  BY <1>3, <1>6, InvFacts
<1>11. Written(i, c, cs, ss)
  BY <1>3, <1>6, <1>7, <1>8, <1>10 DEF Written, SameCodes, o, co, so
<1>12. Wellformed(layout, objs, cs, ss)
  BY <1>4, <1>11, DisownWellformed
<1>13. Len(objs) = Len(objects)
  <2>1. DOMAIN objs = DOMAIN objects
    BY DEF Disown
  <2>2. objs \in Seq(ObjectType(layout))
    BY <1>12 DEF Wellformed
  <2> HIDE DEF objs
  <2>3. 1 .. Len(objs) = 1 .. Len(objects) /\ Len(objs) \in Nat /\ Len(objects) \in Nat
    BY <2>1, <2>2, InvFacts
  <2> QED BY <2>3
<1> HIDE DEF objs
<1>14. Sound(layout, q, c, Free)
  <2>1. RunsWhereMoved(q) /\ q.outer = <<q.shape, q.dtype>>
    BY <1>2, <1>9 DEF RunsWhereMoved, Built
  <2> QED BY <1>2, <1>7, <1>9, <2>1, ConvertedSound
<1>15. Sound(layout, q, cs[q.data], At(ss, q.scale)) /\ ScaleFlag(q)
  BY <1>9, <1>10, <1>14 DEF At, ScaleFlag
<1>16. Wellformed(layout, Append(objs, q), cs, ss)
  BY <1>1, <1>9, <1>12, <1>13, <1>15, AppendOne DEF Room
<1> QED BY <1>1, <1>2, <1>16, KeepInv

\* A conversion in place, or into codes of its own: q is what the object has become,
\* c and s what it reads.
LEMMA ConvertedWellformed ==
  ASSUME Inv, NEW i \in Usable, NEW STATE q, NEW STATE c, NEW STATE s, NEW STATE cs, NEW STATE ss, NEW STATE lost,
         q \in ObjectType(layout), q.scale = New, q.form # "packed", Sound(layout, q, c, s),
         c \in CodesType(layout), c.size = codes[objects[i].data].size,
         cs = [codes EXCEPT ![q.data] = c], ss = [scales EXCEPT ![New] = s],
         \/ q.data = New /\ lost = {}
         \/ q.data = objects[i].data /\ lost = Sharing(i)
  PROVE  Wellformed(layout, Disown([objects EXCEPT ![i] = q], lost), cs, ss)
<1> DEFINE objs == Disown([objects EXCEPT ![i] = q], lost)
<1>0. i \in Objects /\ New \in Slots /\ New # 0
  BY UsableFacts, SlotFacts DEF New
<1>1. objs = [n \in Objects |-> IF n = i THEN q ELSE IF n \in lost THEN Lost(objects[n]) ELSE objects[n]]
  <2>1. i \notin lost
    BY DEF Sharing
  <2> QED BY <1>0, <2>1, InvFacts DEF Disown
<1>2. objs = [n \in Objects |-> objs[n]]
  BY <1>1
<1> HIDE DEF objs
<1>3. q.data \in Slots /\ cs[q.data] = c /\ At(ss, q.scale) = s
  BY <1>0, TypeFacts, InvFacts DEF At
<1>4. ASSUME NEW n \in Objects
      PROVE  At(ss, objects[n].scale) = At(scales, objects[n].scale) /\ objects[n].scale # New
  <2>1. objects[n].scale # New /\ objects[n].scale \in {0} \cup Slots
    BY ObjectFacts, TypeFacts
  <2> QED BY <2>1, InvFacts DEF At
<1>5. ASSUME NEW n \in Objects, n # i
      PROVE  /\ objs[n] \in ObjectType(layout) /\ ScaleFlag(objs[n])
             /\ Sound(layout, objs[n], cs[objs[n].data], At(ss, objs[n].scale))
             /\ objs[n].data = objects[n].data /\ objs[n].scale = objects[n].scale
  <2>1. /\ objects[n] \in ObjectType(layout) /\ ScaleFlag(objects[n])
        /\ Sound(layout, objects[n], codes[objects[n].data], At(scales, objects[n].scale))
        /\ objects[n].data \in Slots /\ objects[n].data # New
    BY ObjectFacts
  <2>2. CASE n \in lost
    <3>1. objs[n] = Lost(objects[n]) /\ q.data = objects[i].data /\ lost = Sharing(i)
      BY <1>1, <1>5, <2>2
    <3>2. Written(i, c, cs, scales)
      BY <3>1 DEF Written
    <3>3. Built(layout, objects[n], cs[objects[n].data], At(scales, objects[n].scale))
      BY <1>0, <3>2, WrittenBuilt
    <3>4. /\ Lost(objects[n]) \in ObjectType(layout) /\ Lost(objects[n]).form = objects[n].form
          /\ Lost(objects[n]).data = objects[n].data /\ Lost(objects[n]).scale = objects[n].scale
      BY <2>1, LostFacts
    <3>5. Sound(layout, Lost(objects[n]), cs[objects[n].data], At(scales, objects[n].scale))
      BY <2>1, <3>3, LostSound
    <3> QED BY <1>4, <2>1, <3>1, <3>4, <3>5 DEF ScaleFlag
  <2>3. CASE n \notin lost
    <3>1. objs[n] = objects[n]
      BY <1>1, <1>5, <2>3
    <3>2. cs[objects[n].data] = codes[objects[n].data]
      <4>1. objects[n].data # q.data
        BY <1>5, <2>1, <2>3 DEF Sharing
      <4> QED BY <2>1, <4>1, InvFacts
    <3> QED BY <1>4, <2>1, <3>1, <3>2
  <2> QED BY <2>2, <2>3
<1>6. objs[i] = q
  BY <1>0, <1>1
<1>7. ScaleFlag(q)
  BY <1>0 DEF ScaleFlag
<1>8. ASSUME NEW n \in Objects
      PROVE  /\ objs[n] \in ObjectType(layout) /\ ScaleFlag(objs[n])
             /\ Sound(layout, objs[n], cs[objs[n].data], At(ss, objs[n].scale))
  <2>1. CASE n = i
    BY <1>3, <1>6, <1>7, <2>1
  <2>2. CASE n # i
    BY <1>5, <2>2
  <2> QED BY <2>1, <2>2
<1>9. ScalesGoWithCodes(objs)
  <2> SUFFICES ASSUME NEW m \in Objects, NEW n \in Objects, objs[m].scale = objs[n].scale, objs[m].scale # 0
               PROVE  objs[m].data = objs[n].data
    <3>1. DOMAIN objs = Objects
      BY <1>1
    <3> QED BY <3>1 DEF ScalesGoWithCodes
  <2>1. CASE m = i
    <3>1. n = i
      BY <1>4, <1>5, <1>6, <2>1
    <3> QED BY <2>1, <3>1
  <2>2. CASE n = i
    <3>1. m = i
      BY <1>4, <1>5, <1>6, <2>2
    <3> QED BY <2>2, <3>1
  <2>3. CASE m # i /\ n # i
    BY <1>5, <2>3, OldScalesGoWithCodes
  <2> QED BY <2>1, <2>2, <2>3
<1> QED BY <1>2, <1>8, <1>9, OneByOne DEF objs

LEMMA XoredFacts ==
  ASSUME layout = "svdquant", NEW c \in CodesType(layout)
  PROVE  /\ Xored(c) \in CodesType(layout) /\ SameCodes(c, Xored(c))
         /\ c.form = "prepared" => Xored(c).form = "standard"
         /\ c.form # "prepared" => Xored(c).form = "prepared"
<1>1. "prepared" \in FormsOf(layout) /\ "standard" \in FormsOf(layout)
  BY DEF FormsOf
<1> QED BY <1>1 DEF Xored, CodesType, SameCodes

LEMMA PrepareInv ==
  ASSUME Inv, NEW i \in Objects, NEW tile_packed \in BOOLEAN, Prepare(i, tile_packed)
  PROVE  Inv'
<1> DEFINE o == objects[i]
           data == IF tile_packed THEN New ELSE o.data
           co == codes[o.data]
           q == [o EXCEPT !.data = data, !.scale = New, !.form = "prepared", !.moved = FALSE]
           c == Xored(co)
           s == Clone(scales[o.scale])
           cs == [codes EXCEPT ![data] = c]
           ss == [scales EXCEPT ![New] = s]
           lost == IF tile_packed THEN {} ELSE Sharing(i)
<1>1. /\ i \in Usable /\ layout = "svdquant" /\ o.form # "prepared"
      /\ Keep(Disown([objects EXCEPT ![i] = [@ EXCEPT !.data = data, !.scale = New, !.form = "prepared", !.moved = FALSE]],
                     lost), cs, ss)
  BY DEF Prepare
<1>2. [objects EXCEPT ![i] = [@ EXCEPT !.data = data, !.scale = New, !.form = "prepared", !.moved = FALSE]]
      = [objects EXCEPT ![i] = q]
  BY InvFacts
<1>3. Keep(Disown([objects EXCEPT ![i] = q], lost), cs, ss)
  BY <1>1, <1>2
<1>4. /\ o \in ObjectType(layout) /\ layout \in Layouts /\ co \in CodesType(layout)
      /\ Built(layout, o, co, At(scales, o.scale)) /\ Reads(o, co, At(scales, o.scale))
  BY <1>1, UsableFacts
<1>5. o.form # "packed" /\ co.form = o.form /\ New \in Slots /\ data \in Slots
  BY <1>1, <1>4, TypeFacts, SlotFacts DEF FormsOf, Reads
<1>6. Goes(layout, co, s)
  BY <1>1, <1>5, GoesFacts
<1>7. c \in CodesType(layout) /\ SameCodes(co, c) /\ c.form = "prepared"
  BY <1>1, <1>4, <1>5, XoredFacts
<1> HIDE DEF o, data, co, c, s
<1>8. /\ q \in ObjectType(layout) /\ q.form = "prepared" /\ q.scale = New /\ q.moved = FALSE /\ q.data = data
      /\ SameReading(o, q) /\ q.outer = o.outer /\ q.shape = o.shape /\ q.dtype = o.dtype
  <2>1. "prepared" \in FormsOf(layout)
    BY <1>1 DEF FormsOf
  <2> QED BY <1>4, <1>5, <2>1 DEF ObjectType, SameReading
<1> HIDE DEF q
<1>9. Sound(layout, q, c, s)
  <2>1. RunsWhereMoved(q) /\ q.outer = <<q.shape, q.dtype>>
    BY <1>4, <1>8 DEF RunsWhereMoved, Built
  <2> QED BY <1>4, <1>6, <1>7, <1>8, <2>1, ConvertedSound
<1>10. c.size = codes[objects[i].data].size
  BY <1>7 DEF SameCodes, co, o
<1>11. (q.data = New /\ lost = {}) \/ (q.data = objects[i].data /\ lost = Sharing(i))
  BY <1>8 DEF data, o
<1>12. cs = [codes EXCEPT ![q.data] = c] /\ q.form # "packed"
  BY <1>8
<1> HIDE DEF cs, lost
<1>13. Wellformed(layout, Disown([objects EXCEPT ![i] = q], lost), cs, ss)
  BY <1>1, <1>7, <1>8, <1>9, <1>10, <1>11, <1>12, ConvertedWellformed
<1> QED BY <1>3, <1>4, <1>13, KeepInv

LEMMA RestoreInv ==
  ASSUME Inv, NEW i \in Objects, Restore(i)
  PROVE  Inv'
<1> DEFINE o == objects[i]
           co == codes[o.data]
           q == [o EXCEPT !.scale = New, !.form = "standard"]
           c == Xored(co)
           s == Clone(scales[o.scale])
           cs == [codes EXCEPT ![o.data] = c]
           ss == [scales EXCEPT ![New] = s]
<1>1. /\ i \in Usable /\ o.form = "prepared"
      /\ Keep(Disown([objects EXCEPT ![i] = [@ EXCEPT !.scale = New, !.form = "standard"]], Sharing(i)),
              [codes EXCEPT ![o.data] = Xored(@)], ss)
  BY DEF Restore
<1>2. /\ o \in ObjectType(layout) /\ layout \in Layouts /\ co \in CodesType(layout)
      /\ Built(layout, o, co, At(scales, o.scale)) /\ Reads(o, co, At(scales, o.scale))
  BY <1>1, UsableFacts
<1>3. o.form # "packed" /\ co.form = o.form /\ New \in Slots /\ o.data \in Slots /\ layout = "svdquant"
  BY <1>1, <1>2, TypeFacts, SlotFacts DEF FormsOf, Reads
<1>4. Keep(Disown([objects EXCEPT ![i] = q], Sharing(i)), cs, ss)
  <2>1. [objects EXCEPT ![i] = [@ EXCEPT !.scale = New, !.form = "standard"]] = [objects EXCEPT ![i] = q]
    BY InvFacts
  <2>2. [codes EXCEPT ![o.data] = Xored(@)] = cs
    BY <1>3, InvFacts
  <2> QED BY <1>1, <2>1, <2>2
<1>5. Goes(layout, co, s)
  BY <1>1, <1>3, GoesFacts
<1>6. c \in CodesType(layout) /\ SameCodes(co, c) /\ c.form = "standard"
  BY <1>1, <1>2, <1>3, XoredFacts
<1> HIDE DEF o, co, c, s
<1>7. /\ q \in ObjectType(layout) /\ q.form = "standard" /\ q.scale = New /\ q.data = o.data
      /\ SameReading(o, q) /\ q.outer = o.outer /\ q.shape = o.shape /\ q.dtype = o.dtype
  <2>1. "standard" \in FormsOf(layout)
    BY DEF FormsOf
  <2> QED BY <1>2, <1>3, <2>1 DEF ObjectType, SameReading
<1> HIDE DEF q
<1>8. Sound(layout, q, c, s)
  <2>1. RunsWhereMoved(q) /\ q.outer = <<q.shape, q.dtype>>
    BY <1>2, <1>7 DEF RunsWhereMoved, Built
  <2> QED BY <1>2, <1>5, <1>6, <1>7, <2>1, ConvertedSound
<1>9. c.size = codes[objects[i].data].size /\ q.data = objects[i].data
  BY <1>6, <1>7 DEF SameCodes, co, o
<1>10. cs = [codes EXCEPT ![q.data] = c] /\ q.form # "packed"
  BY <1>7
<1> HIDE DEF cs
<1>11. Wellformed(layout, Disown([objects EXCEPT ![i] = q], Sharing(i)), cs, ss)
  BY <1>1, <1>6, <1>7, <1>8, <1>9, <1>10, ConvertedWellformed
<1> QED BY <1>2, <1>4, <1>11, KeepInv

-----------------------------------------------------------------------------
(* The invariant, and what it says. *)

LEMMA InitInv == Init => Inv
<1> SUFFICES ASSUME Init PROVE Inv
  OBVIOUS
<1>1. objects = <<>> /\ layout \in Layouts /\ codes = [i \in Slots |-> Free] /\ scales = [i \in Slots |-> Free]
  BY DEF Init
<1>2. objects \in Seq(ObjectType(layout)) /\ Len(objects) = 0 /\ DOMAIN objects = {}
  BY <1>1
<1>3. Wellformed(layout, objects, codes, scales)
  BY <1>2, SlotFacts DEF Wellformed, AllSound, ScalesGoWithCodes
<1> QED BY <1>1, <1>2, <1>3 DEF Inv

LEMMA DeriveInv ==
  ASSUME Inv, NEW i \in Objects, Derive(i)
  PROVE  Inv'
<1>1. CASE T(i)
  BY <1>1, TInv
<1>2. CASE Unflatten(i)
  BY <1>2, UnflattenInv
<1>3. CASE Detach(i)
  BY <1>3, DetachInv
<1>4. CASE CloneTensor(i)
  BY <1>4, CloneTensorInv
<1>5. CASE Contiguous(i)
  BY <1>5, ContiguousInv
<1>6. CASE Requantize(i)
  BY <1>6, RequantizeInv
<1>7. CASE \E device \in Devices[layout], dtype \in Dtypes[layout], force \in BOOLEAN : To(i, device, dtype, force)
  BY <1>7, ToInv
<1>8. CASE \E device \in Devices[layout], dtype \in Dtypes[layout] : EmptyLike(i, device, dtype)
  BY <1>8, EmptyLikeInv
<1> QED BY <1>1, <1>2, <1>3, <1>4, <1>5, <1>6, <1>7, <1>8 DEF Derive

LEMMA NextInv ==
  ASSUME Inv, [Next]_vars
  PROVE  Inv'
<1>1. CASE Create
  BY <1>1, FromFloatInv DEF Create
<1>2. ASSUME NEW i \in Objects, Derive(i)
      PROVE  Inv'
  BY <1>2, DeriveInv
<1>3. ASSUME NEW i \in Objects, Convert(i)
      PROVE  Inv'
  BY <1>3, OptimizeForGemvInv, RestoreInv, PrepareInv DEF Convert
<1>4. ASSUME NEW i \in Objects, Drop(i)
      PROVE  Inv'
  BY <1>4, DropInv
<1>5. ASSUME NEW d \in Objects, NEW s \in Objects, CopyInto(d, s)
      PROVE  Inv'
  BY <1>5, CopyIntoInv
<1>6. CASE UNCHANGED vars
  BY <1>6 DEF vars, Inv
<1> QED BY <1>1, <1>2, <1>3, <1>4, <1>5, <1>6 DEF Next

\* Whatever the operations make, move, view, copy, convert and drop, each object finds in
\* the codes and the scale it shares with others what its own flags and shape say of them.
THEOREM InvHolds == Spec => []Inv
<1>1. Init => Inv
  BY InitInv
<1>2. Inv /\ [Next]_vars => Inv'
  BY NextInv
<1> QED BY <1>1, <1>2, PTL DEF Spec

LEMMA FormsFacts ==
  ASSUME Inv
  PROVE  Forms = FormsOf(layout)
<1>1. layout \in {"fp8", "nvfp4", "mxfp8", "int8", "awq", "svdquant", "convrot", "w4a8"}
  BY LayoutsAssumption, InvFacts
<1>2. CASE layout = "int8"
  BY <1>2 DEF Forms, FormsOf
<1>3. CASE layout = "svdquant"
  BY <1>3 DEF Forms, FormsOf
<1>4. CASE layout = "w4a8"
  BY <1>4 DEF Forms, FormsOf
<1>5. CASE layout \notin {"int8", "svdquant", "w4a8"}
  BY <1>5 DEF Forms, FormsOf
<1> QED BY <1>2, <1>3, <1>4, <1>5

LEMMA InvTypeOK == Inv => TypeOK
<1> SUFFICES ASSUME Inv PROVE TypeOK
  OBVIOUS
<1>1. ASSUME NEW i \in Slots, codes[i] # Free
      PROVE  codes[i].form \in Forms /\ codes[i].of \in Values \cup {Unwritten}
  <2>1. codes[i] \in CodesType(layout)
    BY <1>1, InvFacts
  <2> QED BY <2>1, FormsFacts DEF CodesType, Marks
<1>2. ASSUME NEW i \in Slots, scales[i] # Free
      PROVE  scales[i].kind \in {"scalar", "rows"}
  <2>1. scales[i] \in ScaleType
    BY <1>2, InvFacts
  <2> QED BY <2>1 DEF ScaleType, Kinds
<1>3. ASSUME NEW i \in Objects
      PROVE  /\ objects[i].data \in Slots /\ codes[objects[i].data] # Free
             /\ (objects[i].scale = 0 \/ scales[objects[i].scale] # Free)
             /\ objects[i].form \in Forms
             /\ (objects[i].form = "packed") = (objects[i].scale = 0)
  <2>1. /\ objects[i] \in ObjectType(layout) /\ ScaleFlag(objects[i])
        /\ Built(layout, objects[i], codes[objects[i].data], At(scales, objects[i].scale))
    BY ObjectFacts DEF Sound
  <2>2. codes[objects[i].data] # Free
    BY <2>1 DEF Built, CodesType, Free
  <2>3. objects[i].scale # 0 => scales[objects[i].scale] # Free
    BY <2>1 DEF Built, ScaleFlag, At, ScaleType, Free
  <2>4. objects[i].data \in Slots /\ objects[i].form \in Forms
    BY <2>1, TypeFacts, FormsFacts
  <2> QED BY <2>1, <2>2, <2>3, <2>4 DEF ScaleFlag
<1> QED BY <1>1, <1>2, <1>3, InvFacts DEF TypeOK

\* The fields of every object, its codes and its scale have their types (the checks of
\* tensor/base.py:318-339 and of the layouts' Params).
THEOREM TypeCorrect == Spec => []TypeOK
BY InvHolds, InvTypeOK, PTL

\* dequantize() of an object that nobody wrote to behind its back is the value it was made
\* of, transposed as often as the object was, with the shape and the dtype that the tensor
\* around it announces: no view, move, copy_ or conversion of an object that shares its
\* codes changes that (tensor/base.py:318-339, 452-527).
THEOREM ReadsItsValue == Spec => []DequantizesToItsValue
<1>1. Inv => DequantizesToItsValue
  <2> SUFFICES ASSUME Inv, NEW i \in Usable
               PROVE  LET o == objects[i]
                      IN  /\ ~NotDequantized(o) => Dequantize(o) = Plain(o)
                          /\ o.outer = <<Plain(o).shape, o.dtype>>
    BY DEF DequantizesToItsValue
  <2>1. ~NotDequantized(objects[i]) => Dequantize(objects[i]) = Plain(objects[i])
    BY DequantizeFacts
  <2>2. objects[i].outer = <<objects[i].shape, objects[i].dtype>>
    BY UsableFacts DEF Built
  <2>3. Plain(objects[i]).shape = objects[i].shape
    BY PlainFacts
  <2> QED BY <2>1, <2>2, <2>3
<1> QED BY <1>1, InvHolds, PTL

\* What a state dict saves is in the form of the checkpoint, with a scale that fits the
\* codes, also of an object whose codes a device's kernel wanted in another form; packed
\* W4A8 records refuse (svdquant_w4a4.py:508-526, w4a8_int8.py:366-378).
THEOREM StandardFormSaved == Spec => []SavedInStandardForm
<1>1. Inv => SavedInStandardForm
  <2> SUFFICES ASSUME Inv, NEW i \in Usable
               PROVE  LET saved == StateDict(objects[i])
                          scale == ScaleOf(objects[i])
                      IN  IF objects[i].form = "packed" THEN saved = Raise
                          ELSE /\ saved.form \in {"standard", "convrot"}
                               /\ saved.of = scale.of /\ (scale.kind = "rows" => saved.t = scale.t)
    BY DEF SavedInStandardForm
  <2> DEFINE o == objects[i]
             c == codes[o.data]
             s == scales[o.scale]
  <2>1. /\ o \in ObjectType(layout) /\ o.form \in FormsOf(layout) /\ c \in CodesType(layout) /\ c.form = o.form
    BY UsableFacts, TypeFacts DEF Reads
  <2>2. CASE o.form = "packed"
    <3>1. layout = "w4a8"
      BY <2>1, <2>2 DEF FormsOf
    <3>2. StateDict(o) = Raise
      BY <2>2, <3>1 DEF StateDict, W4A8StateDict
    <3> QED BY <2>2, <3>2
  <2>3. CASE o.form # "packed"
    <3>1. o.scale # 0 /\ s.of = c.of /\ (s.kind = "scalar" \/ s.t = c.t)
      BY <2>3, GoesFacts DEF Goes
    <3>2. ScaleOf(o) = s
      BY <3>1 DEF ScaleOf
    <3>3. \/ StateDict(o) = c /\ c.form \in {"standard", "convrot"}
          \/ layout = "svdquant" /\ o.form = "prepared" /\ StateDict(o) = Xored(c)
      BY <2>1, <2>3 DEF StateDict, W4A8StateDict, SVDQuantStateDict, FormsOf
    <3>4. CASE StateDict(o) = c /\ c.form \in {"standard", "convrot"}
      BY <2>3, <3>1, <3>2, <3>4
    <3>5. CASE layout = "svdquant" /\ o.form = "prepared" /\ StateDict(o) = Xored(c)
      <4>1. Xored(c).form = "standard" /\ Xored(c).of = c.of /\ Xored(c).t = c.t
        BY <2>1, <3>5, XoredFacts DEF SameCodes
      <4> QED BY <2>3, <3>1, <3>2, <3>5, <4>1
    <3> QED BY <3>3, <3>4, <3>5
  <2> QED BY <2>2, <2>3
<1> QED BY <1>1, InvHolds, PTL

-----------------------------------------------------------------------------
(* Products. *)

Product(a, b) == [of |-> <<a.of, b.of>>, t |-> <<a.t, b.t>>, shape |-> <<a.shape[1], b.shape[2]>>]

LEMMA MatMulFacts ==
  ASSUME NEW a \in Matrices, NEW b \in Matrices, a.shape[2] = b.shape[1]
  PROVE  MatMul(a, b) = Product(a, b)
<1>1. a # Raise /\ a # Garbage /\ b # Raise /\ b # Garbage
  BY MatrixFacts
<1> QED BY <1>1 DEF MatMul, Product

LEMMA KernelFacts ==
  ASSUME NEW a, NEW b \in Matrices
  PROVE  Kernel(a, b) = MatMul(a, Turn(b)) /\ Kernel(a, Turn(b)) = MatMul(a, b)
<1>1. Readable(b) /\ Turn(b) \in Matrices /\ Turn(Turn(b)) = b
  BY MatrixFacts
<1>2. Readable(Turn(b))
  BY <1>1, MatrixFacts
<1> QED BY <1>1, <1>2 DEF Kernel

\* A float matrix, or an object.
Operand(x) ==
  \/ x \in Matrices
  \/ \E j \in Usable : x = objects[j]

LEMMA OperandFacts ==
  ASSUME Inv, NEW x, Operand(x)
  PROVE  /\ Plain(x) \in Matrices
         /\ ~NotDequantized(x) => Float(x) = Plain(x)
         /\ ~IsQuantized(x) => Plain(x) = x /\ Float(x) = x
         /\ IsQuantized(x) => \E j \in Usable : x = objects[j]
<1>1. CASE x \in Matrices
  <2>1. ~IsQuantized(x)
    BY <1>1, MatrixFacts
  <2> QED BY <1>1, <2>1 DEF Plain, Float
<1>2. ASSUME NEW j \in Usable, x = objects[j]
      PROVE  /\ Plain(x) \in Matrices
             /\ ~NotDequantized(x) => Float(x) = Plain(x)
             /\ ~IsQuantized(x) => Plain(x) = x /\ Float(x) = x
             /\ IsQuantized(x) => \E k \in Usable : x = objects[k]
  <2>1. Plain(x) \in Matrices /\ IsQuantized(x)
    BY <1>2, PlainFacts
  <2>2. ~NotDequantized(x) => Dequantize(x) = Plain(x)
    BY <1>2, DequantizeFacts
  <2> QED BY <1>2, <2>1, <2>2 DEF Float
<1> QED BY <1>1, <1>2 DEF Operand

\* Without padding the stored matrix is the plain one, or its transpose.
LEMMA StoredPlain ==
  ASSUME Inv, NEW i \in Usable, layout \notin Padded
  PROVE  IF objects[i].transposed THEN Stored(objects[i]) = Turn(Plain(objects[i])) ELSE Stored(objects[i]) = Plain(objects[i])
<1> DEFINE o == objects[i]
           e == o.expected
           p == Physical(o)
           t == Flips(codes[o.data].t, o.view)
<1>1. /\ Stored(o) = Matrix(e.of, t, PaddedShape(p)) /\ Stored(o) \in Matrices
      /\ o.transposed => t = ~e.t
      /\ ~o.transposed => t = e.t
  BY StoredFacts
<1>2. Plain(o) \in Matrices /\ Plain(o).shape = o.shape /\ Plain(o).of = e.of /\ Plain(o).t = e.t
  BY PlainFacts
<1>3. p \in Shapes /\ (o.transposed => p = Swap(o.shape)) /\ (~o.transposed => p = o.shape) /\ e.t \in BOOLEAN
  BY UsableFacts, TypeFacts, PhysicalFacts
<1>4. PaddedShape(p) = p
  BY <1>3, PaddedFacts
<1>5. t \in BOOLEAN
  BY UsableFacts, TypeFacts DEF Flips
<1> HIDE DEF o, e, p, t
<1>6. o.transposed => Stored(o) = Turn(Plain(o))
  <2> SUFFICES ASSUME o.transposed PROVE Stored(o) = Turn(Plain(o))
    OBVIOUS
  <2>1. t # Plain(o).t
    BY <1>1, <1>2, <1>3
  <2>2. Turn(Plain(o)) = Matrix(e.of, t, Swap(o.shape))
    BY <1>2, <1>5, <2>1, MatrixFacts
  <2> QED BY <1>1, <1>3, <1>4, <2>2
<1>7. ~o.transposed => Stored(o) = Plain(o)
  <2>1. Plain(o) = Matrix(e.of, e.t, o.shape)
    BY <1>2, MatrixFacts
  <2> QED BY <1>1, <1>3, <1>4, <2>1
<1> QED BY <1>6, <1>7 DEF o

\* The product of padded matrices, cut to the shape of the plain ones.
LEMMA SliceFacts ==
  ASSUME NEW a \in Values, NEW s \in BOOLEAN, NEW p \in Shapes, NEW b \in Values, NEW t \in BOOLEAN, NEW r \in Shapes,
         NEW u \in BOOLEAN, u # t, p[2] = r[2]
  PROVE  Slice(Kernel(Matrix(a, s, PaddedShape(p)), Matrix(b, t, PaddedShape(r))), p[1], r[1])
         = Product(Matrix(a, s, p), Matrix(b, u, Swap(r)))
<1> DEFINE x == Matrix(a, s, PaddedShape(p))
           y == Matrix(b, t, PaddedShape(r))
           z == Matrix(b, u, Swap(PaddedShape(r)))
           P == PaddedShape(p)
           R == PaddedShape(r)
<1>1. P \in Shapes /\ R \in Shapes /\ p[1] \in Nat /\ r[1] \in Nat /\ p[1] <= P[1] /\ r[1] <= R[1] /\ P[2] = R[2]
  <2>1. P \in Shapes /\ R \in Shapes /\ p[1] <= P[1] /\ r[1] <= R[1] /\ p[1] \in Nat /\ r[1] \in Nat
    BY PaddedFacts, SwapFacts
  <2>2. P[2] = R[2]
    BY PaddedFacts DEF PaddedShape
  <2> QED BY <2>1, <2>2
<1> HIDE DEF P, R
<1>2. Swap(R) \in Shapes /\ Swap(R)[1] = R[2] /\ Swap(R)[2] = R[1] /\ R[1] \in Nat /\ P[1] \in Nat /\ Swap(r)[2] = r[1]
  BY <1>1, SwapFacts
<1>3. x \in Matrices /\ y \in Matrices /\ z \in Matrices /\ x.shape = P /\ z.shape = Swap(R)
      /\ x.of = a /\ x.t = s /\ z.of = b /\ z.t = u
  BY <1>1, <1>2 DEF Matrices, Matrix, P, R
<1>4. Turn(y) = z
  BY TurnMatrix
<1>5. Kernel(x, y) = Product(x, z)
  <2> HIDE DEF x, y, z
  <2>1. Kernel(x, y) = MatMul(x, z)
    BY <1>3, <1>4, KernelFacts
  <2> QED BY <1>1, <1>2, <1>3, <2>1, MatMulFacts
<1>6. Product(x, z) = [of |-> <<a, b>>, t |-> <<s, u>>, shape |-> <<P[1], R[1]>>]
  <2> HIDE DEF x, y, z
  <2> QED BY <1>2, <1>3 DEF Product
<1>7. Readable(Product(x, z))
  BY <1>6 DEF Readable, Raise, Garbage
<1>8. Cut(<<P[1], R[1]>>, <<p[1], r[1]>>) = <<p[1], r[1]>>
  BY <1>1, <1>2 DEF Cut, Least
<1>9. Slice(Product(x, z), p[1], r[1]) = [of |-> <<a, b>>, t |-> <<s, u>>, shape |-> <<p[1], r[1]>>]
  <2> HIDE DEF x, z
  <2> QED BY <1>6, <1>7, <1>8 DEF Slice
<1>10. Product(Matrix(a, s, p), Matrix(b, u, Swap(r))) = [of |-> <<a, b>>, t |-> <<s, u>>, shape |-> <<p[1], r[1]>>]
  BY <1>2 DEF Product, Matrix
<1> QED BY <1>5, <1>9, <1>10

LEMMA PaddedLinear ==
  ASSUME Inv, NEW j \in Usable, NEW i \in Usable, ~objects[j].transposed, ~objects[i].transposed,
         objects[j].shape[2] = objects[i].shape[2]
  PROVE  Slice(Kernel(Stored(objects[j]), Stored(objects[i])), objects[j].shape[1], objects[i].shape[1])
         = Kernel(Plain(objects[j]), Plain(objects[i]))
<1> DEFINE x == objects[j]
           w == objects[i]
<1>1. Stored(x) = Matrix(x.expected.of, x.expected.t, PaddedShape(x.shape))
      /\ Stored(w) = Matrix(w.expected.of, w.expected.t, PaddedShape(w.shape))
  BY StoredFacts DEF Physical
<1>2. /\ x.expected.of \in Values /\ x.expected.t \in BOOLEAN /\ x.shape \in Shapes
      /\ w.expected.of \in Values /\ w.expected.t \in BOOLEAN /\ w.shape \in Shapes
  BY UsableFacts, TypeFacts DEF Reads
<1>3. /\ Plain(x) \in Matrices /\ Plain(x).shape = x.shape /\ Plain(x).of = x.expected.of /\ Plain(x).t = x.expected.t
      /\ Plain(w) \in Matrices /\ Plain(w).shape = w.shape /\ Plain(w).of = w.expected.of /\ Plain(w).t = w.expected.t
  BY PlainFacts
<1> HIDE DEF x, w
<1>4. PICK u \in BOOLEAN : u # w.expected.t
  BY <1>2
<1>5. Turn(Plain(w)) = Matrix(w.expected.of, u, Swap(w.shape)) /\ Turn(Plain(w)) \in Matrices
  BY <1>3, <1>4, MatrixFacts
<1>6. Plain(x) = Matrix(x.expected.of, x.expected.t, x.shape)
  BY <1>3, MatrixFacts
<1>7. Swap(w.shape)[1] = w.shape[2] /\ Turn(Plain(w)).shape = Swap(w.shape)
  BY <1>2, <1>5, SwapFacts DEF Matrix
<1>8. Kernel(Plain(x), Plain(w)) = Product(Plain(x), Turn(Plain(w)))
  <2>1. x.shape[2] = w.shape[2]
    BY DEF x, w
  <2> QED BY <1>3, <1>5, <1>7, <2>1, KernelFacts, MatMulFacts
<1>9. Slice(Kernel(Stored(x), Stored(w)), x.shape[1], w.shape[1])
      = Product(Matrix(x.expected.of, x.expected.t, x.shape), Matrix(w.expected.of, u, Swap(w.shape)))
  <2>1. x.shape[2] = w.shape[2]
    BY DEF x, w
  <2> QED BY <1>1, <1>2, <1>4, <2>1, SliceFacts
<1>10. Slice(Kernel(Stored(x), Stored(w)), x.shape[1], w.shape[1]) = Kernel(Plain(x), Plain(w))
  BY <1>5, <1>6, <1>8, <1>9
<1> QED BY <1>10 DEF x, w

LEMMA PaddedMM ==
  ASSUME Inv, NEW j \in Usable, NEW i \in Usable, ~objects[j].transposed, objects[i].transposed,
         objects[j].shape[2] = objects[i].shape[1]
  PROVE  Slice(Kernel(Stored(objects[j]), Stored(objects[i])), objects[j].shape[1], objects[i].shape[2])
         = MatMul(Plain(objects[j]), Plain(objects[i]))
<1> DEFINE x == objects[j]
           w == objects[i]
           u == Flips(codes[w.data].t, w.view)
           r == Swap(w.shape)
<1>1. Stored(x) = Matrix(x.expected.of, x.expected.t, PaddedShape(x.shape))
  BY StoredFacts DEF Physical
<1>2. Stored(w) = Matrix(w.expected.of, u, PaddedShape(r))
  BY StoredFacts DEF Physical
<1>3. /\ x.expected.of \in Values /\ x.expected.t \in BOOLEAN /\ x.shape \in Shapes
      /\ w.expected.of \in Values /\ w.expected.t \in BOOLEAN /\ w.shape \in Shapes
  BY UsableFacts, TypeFacts DEF Reads
<1>4. /\ Plain(x) \in Matrices /\ Plain(x).shape = x.shape /\ Plain(x).of = x.expected.of /\ Plain(x).t = x.expected.t
      /\ Plain(w) \in Matrices /\ Plain(w).shape = w.shape /\ Plain(w).of = w.expected.of /\ Plain(w).t = w.expected.t
  BY PlainFacts
<1>5. x.shape[2] = w.shape[1]
  OBVIOUS
<1>6. r \in Shapes /\ Swap(r) = w.shape /\ r[1] = w.shape[2] /\ r[2] = w.shape[1]
  BY <1>3, SwapFacts
<1>7. u \in BOOLEAN /\ w.expected.t # u
  BY <1>3, StoredFacts
<1> HIDE DEF x, w, u, r
<1>8. Plain(x) = Matrix(x.expected.of, x.expected.t, x.shape) /\ Plain(w) = Matrix(w.expected.of, w.expected.t, w.shape)
  BY <1>4, MatrixFacts
<1>9. Slice(Kernel(Stored(x), Stored(w)), x.shape[1], r[1])
      = Product(Matrix(x.expected.of, x.expected.t, x.shape), Matrix(w.expected.of, w.expected.t, Swap(r)))
  <2>1. x.shape[2] = r[2]
    BY <1>5, <1>6
  <2> QED BY <1>1, <1>2, <1>3, <1>6, <1>7, <2>1, SliceFacts
<1>10. MatMul(Plain(x), Plain(w)) = Product(Plain(x), Plain(w))
  BY <1>4, <1>5, MatMulFacts
<1>11. Slice(Kernel(Stored(x), Stored(w)), x.shape[1], w.shape[2]) = MatMul(Plain(x), Plain(w))
  BY <1>6, <1>8, <1>9, <1>10
<1> QED BY <1>11 DEF x, w

\* The operands of a product that is not excused.
Fit(i, x) ==
  /\ i \in Usable
  /\ Operand(x) /\ ~NotDequantized(x)
  /\ ~Stranded(objects[i])

LEMMA FitFacts ==
  ASSUME Inv, NEW i, NEW x, Fit(i, x)
  PROVE  LET w == objects[i] IN
         /\ Plain(x) \in Matrices /\ Plain(w) \in Matrices /\ IsQuantized(w)
         /\ Float(x) = Plain(x) /\ (~IsQuantized(x) => x = Plain(x))
         /\ ~NotDequantized(w) => Float(w) = Plain(w)
         /\ layout # "svdquant" => ~NotDequantized(w)
         /\ layout \in Layouts
<1>1. Plain(x) \in Matrices /\ Float(x) = Plain(x) /\ (~IsQuantized(x) => x = Plain(x))
  BY OperandFacts DEF Fit
<1>2. Operand(objects[i])
  BY DEF Fit, Operand
<1>3. IsQuantized(objects[i]) /\ Plain(objects[i]) \in Matrices
  BY PlainFacts DEF Fit
<1>4. ~NotDequantized(objects[i]) => Float(objects[i]) = Plain(objects[i])
  BY <1>2, OperandFacts
<1>5. layout # "svdquant" => ~NotDequantized(objects[i])
  BY DEF NotDequantized
<1> QED BY <1>1, <1>3, <1>4, <1>5, InvFacts

\* A weight that is not stranded is in a form that runs where it is.
LEMMA RunsHere ==
  ASSUME Inv, NEW i \in Usable, ~Stranded(objects[i])
  PROVE  /\ objects[i].form = "packed" => objects[i].device = "cuda"
         /\ objects[i].form = "prepared" => objects[i].device = "xpu"
BY UsableFacts DEF Stranded, Reads

LEMMA PlainLinearFacts ==
  ASSUME Inv, NEW i, NEW x, Fit(i, x), ~NotDequantized(objects[i])
  PROVE  PlainLinear(x, objects[i]) = Kernel(Plain(x), Plain(objects[i]))
BY FitFacts DEF PlainLinear

LEMMA PlainMMFacts ==
  ASSUME Inv, NEW i, NEW x, Fit(i, x), ~NotDequantized(objects[i])
  PROVE  PlainMM(x, objects[i]) = MatMul(Plain(x), Plain(objects[i]))
BY FitFacts DEF PlainMM

\* The kernel on the codes of a weight as stored.
LEMMA StoredLinear ==
  ASSUME Inv, NEW i, NEW x, Fit(i, x), layout \notin Padded, ~objects[i].transposed
  PROVE  Kernel(Plain(x), Stored(objects[i])) = Kernel(Plain(x), Plain(objects[i]))
BY StoredPlain DEF Fit

LEMMA StoredMM ==
  ASSUME Inv, NEW i, NEW x, Fit(i, x), layout \notin Padded, objects[i].transposed
  PROVE  Kernel(Plain(x), Stored(objects[i])) = MatMul(Plain(x), Plain(objects[i]))
<1>1. Stored(objects[i]) = Turn(Plain(objects[i]))
  BY StoredPlain DEF Fit
<1>2. Plain(objects[i]) \in Matrices
  BY FitFacts
<1> QED BY <1>1, <1>2, KernelFacts

LEMMA FP8Operand ==
  ASSUME Inv, layout = "fp8", NEW x, Operand(x)
  PROVE  (IF IsQuantized(x) THEN Stored(x) ELSE x) = Plain(x)
<1>1. CASE ~IsQuantized(x)
  BY <1>1, OperandFacts
<1>2. CASE IsQuantized(x)
  <2>1. PICK j \in Usable : x = objects[j]
    BY <1>2, OperandFacts
  <2>2. ~x.transposed
    BY <2>1, UsableFacts DEF Built
  <2>3. Stored(x) = Plain(x)
    BY <2>1, <2>2, StoredPlain DEF Padded
  <2> QED BY <1>2, <2>3
<1> QED BY <1>1, <1>2

LEMMA LinearAgrees ==
  ASSUME Inv, NEW i, NEW x, Fit(i, x), ~(objects[i].transposed /\ NotDequantized(objects[i])),
         Plain(x).shape[2] = Plain(objects[i]).shape[2], NEW fails \in BOOLEAN
  PROVE  Linear(x, objects[i], fails) = Kernel(Plain(x), Plain(objects[i]))
<1> DEFINE w == objects[i]
           K == Kernel(Plain(x), Plain(w))
<1>0. /\ layout \in {"fp8", "nvfp4", "mxfp8", "int8", "awq", "svdquant", "convrot", "w4a8"}
      /\ IsQuantized(w) /\ Float(x) = Plain(x)
      /\ layout # "svdquant" => PlainLinear(x, w) = K
      /\ w.transposed => PlainLinear(x, w) = K
      /\ layout \notin Padded /\ ~w.transposed => Kernel(Float(x), Stored(w)) = K
  <2>1. layout # "svdquant" \/ w.transposed => ~NotDequantized(w)
    BY FitFacts
  <2> QED BY <2>1, FitFacts, PlainLinearFacts, StoredLinear, LayoutsAssumption
<1>1. i \in Usable /\ ~Stranded(w) /\ Operand(x)
  BY DEF Fit
<1>2. ASSUME layout \in Padded, IsQuantized(x), ~x.transposed, ~w.transposed
      PROVE  Slice(Kernel(Stored(x), Stored(w)), x.shape[1], w.shape[1]) = K
  <2>1. PICK j \in Usable : x = objects[j]
    BY <1>1, <1>2, OperandFacts
  <2>2. Plain(x).shape = x.shape /\ Plain(w).shape = w.shape
    BY <1>1, <2>1, PlainFacts
  <2> QED BY <1>1, <1>2, <2>1, <2>2, PaddedLinear
<1>3. CASE layout = "fp8"
  <2>1. ~w.transposed /\ layout \notin Padded
    BY <1>1, <1>3, UsableFacts DEF Built, Padded
  <2>2. Kernel(IF IsQuantized(x) THEN Stored(x) ELSE x, Stored(w)) = K
    BY <1>0, <1>1, <1>3, <2>1, FP8Operand
  <2>3. FP8Linear(x, w, fails) = K
    <3> HIDE DEF K, w
    <3> QED BY <1>0, <1>3, <2>2 DEF FP8Linear, Attempt
  <2> QED BY <1>3, <2>3 DEF Linear
<1>4. CASE layout = "nvfp4"
  <2>1. NVFP4Linear(x, w, fails) = K
    <3> HIDE DEF K, w
    <3> QED BY <1>0, <1>2, <1>4 DEF NVFP4Linear, Attempt, Padded
  <2> QED BY <1>4, <2>1 DEF Linear
<1>5. CASE layout = "mxfp8"
  <2>1. MXFP8Linear(x, w, fails) = K
    <3> HIDE DEF K, w
    <3> QED BY <1>0, <1>2, <1>5 DEF MXFP8Linear, Attempt, Padded
  <2> QED BY <1>5, <2>1 DEF Linear
<1>6. CASE layout = "int8"
  <2>1. INT8Linear(x, w) = K
    BY <1>0, <1>6 DEF INT8Linear, Padded
  <2> QED BY <1>6, <2>1 DEF Linear
<1>7. CASE layout = "awq"
  <2>1. AWQLinear(x, w) = K
    BY <1>0, <1>7 DEF AWQLinear, Padded
  <2> QED BY <1>7, <2>1 DEF Linear
<1>8. CASE layout = "svdquant"
  <2>1. SVDQuantLinear(x, w) = K
    BY <1>0, <1>1, <1>8, RunsHere DEF SVDQuantLinear, SVDQuantForward, Padded
  <2> QED BY <1>8, <2>1 DEF Linear
<1>9. CASE layout = "convrot"
  <2>1. ConvRotLinear(x, w) = K
    BY <1>0, <1>9 DEF ConvRotLinear, Padded
  <2> QED BY <1>9, <2>1 DEF Linear
<1>10. CASE layout = "w4a8"
  <2>1. W4A8Linear(x, w) = K
    BY <1>0, <1>1, <1>10, RunsHere DEF W4A8Linear, W4A8Forward, Padded
  <2> QED BY <1>10, <2>1 DEF Linear
<1> QED BY <1>0, <1>3, <1>4, <1>5, <1>6, <1>7, <1>8, <1>9, <1>10

\* mm with an untransposed weight may be refused where the layout says so.
MayRefuse(w) == layout \in RefusesRhs /\ ~w.transposed

LEMMA MMAgrees ==
  ASSUME Inv, NEW i, NEW x, Fit(i, x), Plain(x).shape[2] = Plain(objects[i]).shape[1], NEW fails \in BOOLEAN
  PROVE  LET w == objects[i]
             P == MatMul(Plain(x), Plain(w))
         IN  /\ MM(x, w, fails) = P \/ (MayRefuse(w) /\ MM(x, w, fails) = Raise)
             /\ \A scaled \in BOOLEAN :
                  ~(scaled /\ NotDequantized(w)) =>
                    AddMM(x, w, fails, scaled) = P \/ (MayRefuse(w) /\ AddMM(x, w, fails, scaled) = Raise)
<1> DEFINE w == objects[i]
           P == MatMul(Plain(x), Plain(w))
           Good(m) == m = P \/ (MayRefuse(w) /\ m = Raise)
<1>0. /\ layout \in {"fp8", "nvfp4", "mxfp8", "int8", "awq", "svdquant", "convrot", "w4a8"}
      /\ IsQuantized(w) /\ Float(x) = Plain(x)
      /\ layout # "svdquant" => PlainMM(x, w) = P
      /\ layout \notin Padded /\ w.transposed => Kernel(Float(x), Stored(w)) = P
  <2>1. layout # "svdquant" => ~NotDequantized(w)
    BY FitFacts
  <2> QED BY <2>1, FitFacts, PlainMMFacts, StoredMM, LayoutsAssumption
<1>1. i \in Usable /\ ~Stranded(w) /\ Operand(x)
  BY DEF Fit
<1>2. ASSUME layout \in Padded, IsQuantized(x), ~x.transposed, w.transposed
      PROVE  Slice(Kernel(Stored(x), Stored(w)), x.shape[1], w.shape[2]) = P
  <2>1. PICK j \in Usable : x = objects[j]
    BY <1>1, <1>2, OperandFacts
  <2>2. Plain(x).shape = x.shape /\ Plain(w).shape = w.shape
    BY <1>1, <2>1, PlainFacts
  <2> QED BY <1>1, <1>2, <2>1, <2>2, PaddedMM
<1>3. CASE layout = "fp8"
  <2>1. ~w.transposed /\ layout \notin Padded
    BY <1>1, <1>3, UsableFacts DEF Built, Padded
  <2>2. Stored(w) = Plain(w)
    BY <1>1, <2>1, StoredPlain
  <2>3. MatMul(IF IsQuantized(x) THEN Stored(x) ELSE x, Stored(w)) = P
    BY <1>1, <1>3, <2>2, FP8Operand
  <2>4. FP8MM(x, w, fails) = P
    <3> HIDE DEF P, w
    <3> QED BY <1>0, <1>3, <2>3 DEF FP8MM, Attempt
  <2> QED BY <1>3, <2>4 DEF MM, AddMM, FP8AddMM
<1>4. CASE layout = "nvfp4"
  <2>1. NVFP4MM(x, w, fails) = P
    <3> HIDE DEF P, w
    <3> QED BY <1>0, <1>2, <1>4 DEF NVFP4MM, Attempt, Padded
  <2> QED BY <1>0, <1>4, <2>1 DEF MM, AddMM
<1>5. CASE layout = "mxfp8"
  <2>1. MXFP8MM(x, w, fails) = P
    <3> HIDE DEF P, w
    <3> QED BY <1>0, <1>2, <1>5 DEF MXFP8MM, Attempt, Padded
  <2> QED BY <1>5, <2>1 DEF MM, AddMM, MXFP8AddMM
<1>6. CASE layout = "int8"
  <2>1. Float(x) = Plain(x) /\ (~w.transposed => MatMul(Float(x), Stored(w)) = P)
    BY <1>0, <1>1, <1>6, StoredPlain DEF Padded
  <2>2. INT8MM(x, w) = P
    BY <1>0, <1>6, <2>1 DEF INT8MM, Padded
  <2> QED BY <1>6, <2>2 DEF MM, AddMM, INT8AddMM
<1>7. CASE layout = "awq"
  <2>1. Good(AWQMM(x, w))
    BY <1>0, <1>7 DEF AWQMM, MayRefuse, RefusesRhs, Padded
  <2> QED BY <1>7, <2>1 DEF MM, AddMM, AWQAddMM
<1>8. CASE layout = "svdquant"
  <2>1. Good(SVDQuantMM(x, w))
    BY <1>0, <1>1, <1>8, RunsHere DEF SVDQuantMM, SVDQuantForward, MayRefuse, RefusesRhs, Padded
  <2> QED BY <1>8, <2>1 DEF MM, AddMM, SVDQuantAddMM
<1>9. CASE layout = "convrot"
  <2>1. Good(ConvRotMM(x, w))
    BY <1>0, <1>9 DEF ConvRotMM, MayRefuse, RefusesRhs, Padded
  <2> QED BY <1>9, <2>1 DEF MM, AddMM, ConvRotAddMM
<1>10. CASE layout = "w4a8"
  <2>1. Good(W4A8MM(x, w))
    BY <1>0, <1>1, <1>10, RunsHere DEF W4A8MM, W4A8Forward, MayRefuse, RefusesRhs, Padded
  <2>2. \A scaled \in BOOLEAN : Good(W4A8AddMM(x, w, scaled))
    BY <1>0, <1>10, <2>1 DEF W4A8AddMM
  <2> QED BY <1>10, <2>1, <2>2 DEF MM, AddMM
<1> QED BY <1>0, <1>3, <1>4, <1>5, <1>6, <1>7, <1>8, <1>9, <1>10

\* linear, mm and addmm with a quantized operand are the product of the plain matrices,
\* whichever kernel the layout picks, whether the kernel or the quantization of the other
\* operand fails and the fallback computes it, however the weight was viewed or
\* transposed, and with the padding of the codes cut off; only mm with an untransposed
\* weight may be refused (_resolve_*_rhs).
THEOREM ProductsOfPlainMatrices == Spec => []ProductsAgree
<1>1. Inv => ProductsAgree
  <2> SUFFICES ASSUME Inv, NEW i \in Usable, NEW fails \in Failures, NEW scaled \in Scalings
               PROVE  LET w == objects[i]
                          floats(n) == {[of |-> "x", t |-> FALSE, shape |-> <<2, n>>]}
                          excused(x) == NotDequantized(x) \/ Stranded(w)
                          others == {objects[j] : j \in Usable}
                          rhs(product, x) ==
                            IF layout \in RefusesRhs /\ ~w.transposed THEN product \in {Raise, MatMul(Plain(x), Plain(w))}
                            ELSE product = MatMul(Plain(x), Plain(w))
                      IN  /\ \A x \in floats(Plain(w).shape[2]) \cup {y \in others : Plain(y).shape[2] = Plain(w).shape[2]} :
                               \/ Linear(x, w, fails) = Kernel(Plain(x), Plain(w))
                               \/ excused(x) \/ (w.transposed /\ NotDequantized(w))
                          /\ \A x \in floats(Plain(w).shape[1]) \cup {y \in others : Plain(y).shape[2] = Plain(w).shape[1]} :
                               \/ rhs(MM(x, w, fails), x) /\ rhs(AddMM(x, w, fails, scaled), x)
                               \/ excused(x) \/ (scaled /\ NotDequantized(w))
    BY DEF ProductsAgree
  <2> DEFINE w == objects[i]
             float(n) == [of |-> "x", t |-> FALSE, shape |-> <<2, n>>]
             others == {objects[j] : j \in Usable}
  <2>1. fails \in BOOLEAN /\ scaled \in BOOLEAN
    BY DEF Failures, Scalings
  <2>2. Plain(w).shape \in Shapes /\ Plain(w).shape[1] \in Nat /\ Plain(w).shape[2] \in Nat
    BY PlainFacts, MatrixFacts, SwapFacts
  <2>3. ASSUME NEW n \in Nat
        PROVE  Operand(float(n)) /\ Plain(float(n)).shape[2] = n
    <3>1. float(n) \in Matrices
      BY DEF Matrices, Shapes
    <3>2. ~IsQuantized(float(n))
      BY <3>1, MatrixFacts
    <3>3. Plain(float(n)) = float(n)
      BY <3>2 DEF Plain
    <3> QED BY <3>1, <3>3 DEF Operand
  <2>4. ASSUME NEW x, Operand(x), Plain(x).shape[2] = Plain(w).shape[2]
        PROVE  \/ Linear(x, w, fails) = Kernel(Plain(x), Plain(w))
               \/ NotDequantized(x) \/ Stranded(w) \/ (w.transposed /\ NotDequantized(w))
    BY <2>1, <2>4, LinearAgrees DEF Fit
  <2>5. ASSUME NEW x, Operand(x), Plain(x).shape[2] = Plain(w).shape[1]
        PROVE  \/ /\ MM(x, w, fails) = MatMul(Plain(x), Plain(w)) \/ (MayRefuse(w) /\ MM(x, w, fails) = Raise)
                  /\ \/ AddMM(x, w, fails, scaled) = MatMul(Plain(x), Plain(w))
                     \/ MayRefuse(w) /\ AddMM(x, w, fails, scaled) = Raise
               \/ NotDequantized(x) \/ Stranded(w) \/ (scaled /\ NotDequantized(w))
    BY <2>1, <2>5, MMAgrees DEF Fit
  <2>6. \A y \in others : Operand(y)
    BY DEF Operand
  <2> HIDE DEF w
  <2>7. \A x \in {float(Plain(w).shape[2])} \cup {y \in others : Plain(y).shape[2] = Plain(w).shape[2]} :
          \/ Linear(x, w, fails) = Kernel(Plain(x), Plain(w))
          \/ NotDequantized(x) \/ Stranded(w) \/ (w.transposed /\ NotDequantized(w))
    BY <2>2, <2>3, <2>4, <2>6
  <2>8. \A x \in {float(Plain(w).shape[1])} \cup {y \in others : Plain(y).shape[2] = Plain(w).shape[1]} :
          \/ /\ MM(x, w, fails) = MatMul(Plain(x), Plain(w)) \/ (MayRefuse(w) /\ MM(x, w, fails) = Raise)
             /\ \/ AddMM(x, w, fails, scaled) = MatMul(Plain(x), Plain(w))
                \/ MayRefuse(w) /\ AddMM(x, w, fails, scaled) = Raise
          \/ NotDequantized(x) \/ Stranded(w) \/ (scaled /\ NotDequantized(w))
    BY <2>2, <2>3, <2>5, <2>6
  <2> QED BY <2>7, <2>8 DEF w, MayRefuse
<1> QED BY <1>1, InvHolds, PTL
=============================================================================
