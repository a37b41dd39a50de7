---------------------------- MODULE MCCompositor ----------------------------
(***************************************************************************)
(* Compositor for TLC, with the symmetry of its constants: no action and   *)
(* no invariant tells two jobs, two callers or two processes apart.  Only  *)
(* for runs that check no liveness.                                        *)
(***************************************************************************)
EXTENDS Compositor, TLC

Symmetry == Permutations(Jobs) \cup Permutations(Callers) \cup Permutations(Procs)
=============================================================================
