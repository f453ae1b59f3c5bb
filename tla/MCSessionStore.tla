---------------------------- MODULE MCSessionStore ----------------------------
(* Model-checking instance of SessionStore: interchangeable callers' ids.    *)
EXTENDS SessionStore, TLC

IdSymmetry == Permutations(EventIds)
===============================================================================
