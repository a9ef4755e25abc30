--------------------------- MODULE MCPreparedWeight ---------------------------
(***************************************************************************)
(* Small instances of PreparedWeight.                                       *)
(***************************************************************************)
EXTENDS PreparedWeight

CONSTANTS parameter, data, other, weight, weight2

\* Every tensor object has a storage of its own.
OwnStorages == [q \in {parameter, other} |-> IF q = parameter THEN weight ELSE weight2]

\* A parameter and its .data.
SharedStorage == [q \in {parameter, data} |-> weight]
=============================================================================
