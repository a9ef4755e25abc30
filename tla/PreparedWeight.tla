---------------------------- MODULE PreparedWeight ----------------------------
(***************************************************************************)
(* Destructive preparation of a W4A16 weight (comfy_kitchen/                *)
(* svdquant_w4a16.py).  Preparing XORs the packed bytes with 0x88 in place   *)
(* and marks the tensor object; restoring XORs them again and clears the     *)
(* mark.  A linear call trusts the mark of the object it was prepared from.  *)
(*                                                                          *)
(* Data abstraction.  The bytes of a storage are "signed", as in the         *)
(* checkpoint, or "unsigned", as oneDNN reads them: each XOR turns one into  *)
(* the other.  Two tensor objects may share a storage, as a parameter and    *)
(* its .data do; the mark is on the object.                                  *)
(***************************************************************************)
EXTENDS Integers, Sequences

CONSTANTS Tensors,     \* tensor objects
          Storages,
          StorageOf,   \* [tensor -> storage]
          MaxPrepared  \* bound on the preparations of a behaviour

VARIABLES
  bytes,    \* [storage -> "signed" or "unsigned"]
  marked,   \* tensors with _comfy_kitchen_w4a16_prepared
  prepared, \* the PreparedSVDQuantW4A16 objects, oldest first
  pending,  \* the preparation under way
  used      \* bytes the last linear call multiplied with, or "none"

weight_vars == <<bytes, marked, prepared, pending, used>>

Forms == {"signed", "unsigned"}
Xor(form) == IF form = "signed" THEN "unsigned" ELSE "signed"

None == [source |-> "none"]

-----------------------------------------------------------------------------
(* prepare_svdquant_w4a16_for_xpu *)

\* Lines 156-167: a marked tensor raises and nothing changes.
Prepare(q, destructive) ==
  /\ pending = None
  /\ Len(prepared) < MaxPrepared
  /\ q \notin marked
  /\ pending' = [source |-> q, destructive |-> destructive]
  /\ used' = "none"
  /\ UNCHANGED <<bytes, marked, prepared>>

\* As OutOfMemory, with the bytes converted before the scales are allocated.
OutOfMemoryConverted ==
  /\ pending # None
  /\ bytes' = [bytes EXCEPT ![StorageOf[pending.source]] = Xor(@)]
  /\ pending' = None
  /\ UNCHANGED <<marked, prepared, used>>

\* The scales, the reciprocal or the copy of the bytes cannot be allocated.
OutOfMemory ==
  /\ pending # None
  /\ pending' = None
  /\ UNCHANGED <<bytes, marked, prepared, used>>

ConvertInPlace ==
  /\ pending # None /\ pending.destructive
  /\ LET s == StorageOf[pending.source]
     IN  bytes' = [bytes EXCEPT ![s] = Xor(@)]
  /\ marked' = marked \cup {pending.source}
  /\ prepared' = Append(prepared, [source |-> pending.source, destructive |-> TRUE,
                                   copy |-> "none"])
  /\ pending' = None
  /\ UNCHANGED used

ConvertCopy ==
  /\ pending # None /\ ~pending.destructive
  /\ prepared' = Append(prepared, [source |-> pending.source, destructive |-> FALSE,
                                   copy |-> Xor(bytes[StorageOf[pending.source]])])
  /\ pending' = None
  /\ UNCHANGED <<bytes, marked, used>>

-----------------------------------------------------------------------------
(* restore_svdquant_w4a16_source_ *)

\* As Restore, with the mark left on the tensor.
RestoreKeepsMark(p) ==
  /\ pending = None
  /\ p.destructive /\ p.source \in marked
  /\ bytes' = [bytes EXCEPT ![StorageOf[p.source]] = Xor(@)]
  /\ used' = "none"
  /\ UNCHANGED <<marked, prepared, pending>>

\* Without the mark it raises; without `destructive` it changes nothing.
Restore(p) ==
  /\ pending = None
  /\ p.destructive /\ p.source \in marked
  /\ bytes' = [bytes EXCEPT ![StorageOf[p.source]] = Xor(@)]
  /\ marked' = marked \ {p.source}
  /\ used' = "none"
  /\ UNCHANGED <<prepared, pending>>

-----------------------------------------------------------------------------
(* svdquant_w4a16_linear, with validate=True *)

Packed(p) == IF p.destructive THEN bytes[StorageOf[p.source]] ELSE p.copy

Valid(p) == p.destructive => p.source \in marked

Linear(p) ==
  /\ pending = None
  /\ Valid(p)
  /\ used' = Packed(p)
  /\ UNCHANGED <<bytes, marked, prepared, pending>>

WeightInit ==
  /\ bytes = [s \in Storages |-> "signed"]
  /\ marked = {}
  /\ prepared = <<>>
  /\ pending = None
  /\ used = "none"

WeightNext ==
  \/ \E q \in Tensors, destructive \in BOOLEAN : Prepare(q, destructive)
  \/ OutOfMemory \/ ConvertInPlace \/ ConvertCopy
  \/ \E i \in DOMAIN prepared : Restore(prepared[i]) \/ Linear(prepared[i])

WeightSpec == WeightInit /\ [][WeightNext]_weight_vars

-----------------------------------------------------------------------------
(* Properties. *)

PreparedType ==
  [source : Tensors, destructive : {TRUE}, copy : {"none"}]
    \cup [source : Tensors, destructive : {FALSE}, copy : Forms]

\* Every variable has its type, and only tensors that were prepared are marked.
WeightTypeOK ==
  /\ bytes \in [Storages -> Forms]
  /\ marked \subseteq {prepared[i].source : i \in DOMAIN prepared}
  /\ prepared \in Seq(PreparedType)
  /\ pending \in {None} \cup [source : Tensors, destructive : BOOLEAN]
  /\ used \in Forms \cup {"none"}

\* Whatever is prepared, restored and prepared again, by whichever prepared
\* object, a call that passes validation multiplies with unsigned bytes.
LinearReadsConverted == used # "signed"

\* Without a mark the bytes are those of the checkpoint, also after a preparation
\* that ran out of memory ("safe to retry", svdquant_w4a16.py:169-171).
UnmarkedIsCheckpoint ==
  \A q \in Tensors : q \notin marked => bytes[StorageOf[q]] = "signed"

\* "The destructive form is intentionally one-shot" (svdquant_w4a16.py:152):
\* no preparation turns converted bytes back.
OneShot ==
  [][\A s \in Storages : bytes[s] = "unsigned" /\ pending # None
        => bytes'[s] = "unsigned"]_weight_vars
=============================================================================
