-------------------------- MODULE MCRuntimeSession --------------------------
(***************************************************************************)
(* The instance of RuntimeSession that TLC checks.  Processes, runs and    *)
(* files are interchangeable: no definition chooses or orders them, and no *)
(* liveness property is checked.                                           *)
(***************************************************************************)
EXTENDS RuntimeSession, TLC

Symmetry == Permutations(Process) \cup Permutations(Run) \cup Permutations(File)
=============================================================================
