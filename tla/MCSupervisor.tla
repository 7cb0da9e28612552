----------------------------- MODULE MCSupervisor -----------------------------
(***************************************************************************)
(* Small instances of Supervisor for TLC.                                  *)
(***************************************************************************)
EXTENDS Supervisor
CONSTANTS a, b

\* The first two workers are pinned to one core, as the core mask may say; a third
\* is not pinned.  Core b is nobody's.
PinnedShared == [i \in Workers |-> IF i <= 2 THEN a ELSE NoCore]

\* Two workers: one pinned to a core, one not pinned.
PinnedApart == [i \in Workers |-> IF i = 1 THEN a ELSE NoCore]
===============================================================================
