---------------------------- MODULE MCScheduling ------------------------------
(***************************************************************************)
(* A small instance of Scheduling for TLC.                                 *)
(***************************************************************************)
EXTENDS Scheduling, TLC
===============================================================================
