--------------------------- MODULE MCBackendRegistry ---------------------------
(***************************************************************************)
(* Small instances of BackendRegistry: the eager backend provides every     *)
(* function, the native ones a part of them, and one of those comes late.   *)
(***************************************************************************)
EXTENDS BackendRegistry

CONSTANTS cuda, triton, eager, quantize, linear, t1

ThreeBackends == [b \in {cuda, triton, eager} |->
                    CASE b = cuda -> {quantize}
                      [] b = triton -> {linear}
                      [] b = eager -> {quantize, linear}]

TwoBackends == [b \in {cuda, eager} |-> {quantize}]

ListOfThree == {<<cuda, triton, eager>>, <<eager, triton>>}

ListOfTwo == {<<cuda, eager>>}
=============================================================================
