--------------------------- MODULE MCDeferredDecode ---------------------------
(***************************************************************************)
(* Small instances of DeferredDecode.  A behaviour stops when the bound on  *)
(* its steps is reached.                                                    *)
(***************************************************************************)
EXTENDS DeferredDecode
=============================================================================
