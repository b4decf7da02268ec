--------------------------- MODULE MCCaptureCycle ---------------------------
(* Small instances of CaptureCycle: two worker processes, as in a deploy.  *)
EXTENDS CaptureCycle, TLC

ProcSymmetry == Permutations(Procs)
=============================================================================
