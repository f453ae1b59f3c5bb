-------------------------------- MODULE MCHooks --------------------------------
(* Small instances of the hook registry: one named hook besides the pairs.   *)
EXTENDS Hooks

CONSTANT n
================================================================================
