--------------------------- MODULE MC_Operations ---------------------------
(* One browser; the bounds are in the configuration. *)
EXTENDS Operations
=============================================================================
