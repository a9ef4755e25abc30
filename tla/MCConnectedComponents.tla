------------------------- MODULE MCConnectedComponents -------------------------
(***************************************************************************)
(* Small instances of ConnectedComponents.                                  *)
(***************************************************************************)
EXTENDS ConnectedComponents

\* Every edge list, self-loops and repeated edges included.
AllLists == [1 .. NEdges -> (0 .. N - 1) \X (0 .. N - 1)]

\* A chain 2, 1, 0, with its first edge three times.
RepeatedEdge == {<< <<2, 1>>, <<1, 0>>, <<2, 1>>, <<2, 1>> >>}
=============================================================================
