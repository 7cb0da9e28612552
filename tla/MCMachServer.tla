---------------------------- MODULE MCMachServer ------------------------------
(***************************************************************************)
(* Small instances of MachServer for TLC.                                  *)
(***************************************************************************)
EXTENDS MachServer, TLC

\* Sessions, connections, descriptors and buffers are interchangeable.
Symmetry == Permutations(Sessions) \cup Permutations(Conns)
              \cup Permutations(Fds) \cup Permutations(Buffers)
===============================================================================
