------------------------------- MODULE MCBashJob -------------------------------
(* Small instances of a shell command: a shell, its descendants, two pipes.  *)
EXTENDS BashJob

CONSTANTS c1, c2, out, err
================================================================================
