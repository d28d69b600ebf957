-------------------------------- MODULE MCLsp --------------------------------
(* One target and the `_shared.run` above it. *)
EXTENDS Lsp

MCTargets == {"build"}
=============================================================================
