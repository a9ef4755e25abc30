-------------------------- MODULE MCQuantizedTensors --------------------------
(***************************************************************************)
(* Two matrices of one shape, a square one and one of the transposed shape;   *)
(* padding to a multiple of 4.                                               *)
(***************************************************************************)
EXTENDS QuantizedTensors, TLC

CONSTANTS A, B, C, D, E

ShapeOf == [v \in Values |-> CASE v = C -> <<4, 4>> [] v = D -> <<5, 3>> [] OTHER -> <<3, 5>>]

\* The layouts of most states do without the square one.  Packed records do not show
\* the shape of what they hold.
SourcesOf == [l \in Layouts |-> CASE l = "w4a8" -> {D, E}
                                  [] l \in {"int8", "svdquant"} -> {A, B}
                                  [] OTHER -> {A, B, C}]

\* A move matters where storage is converted for a device (W4A8 records on leaving CUDA),
\* a dtype anywhere alike.
DevicesOf == [l \in Layouts |-> CASE l = "svdquant" -> {"cuda", "xpu"}
                                  [] l = "w4a8" -> {"xpu"}
                                  [] OTHER -> {"cuda"}]
DtypesOf == [l \in Layouts |-> IF l = "mxfp8" THEN {"bf16", "f32"} ELSE {"bf16"}]

\* Matrices of one shape are not told apart.
ValueSymmetry == Permutations({A, B})
=============================================================================
