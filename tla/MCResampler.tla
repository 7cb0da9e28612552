----------------------------- MODULE MCResampler ------------------------------
(***************************************************************************)
(* Instances of Resampler for TLC.  Only the ratio of two rates matters,   *)
(* so a rate is given in lowest terms.                                     *)
(***************************************************************************)
EXTENDS Resampler

\* Up by 2 and by 3/2 and down by 2 and by 3/2, and rates that are refused.
SmallSupported == {[in |-> 1, out |-> 2], [in |-> 2, out |-> 3],
                   [in |-> 2, out |-> 1], [in |-> 3, out |-> 2]}
SmallRates == SmallSupported \cup {[in |-> 4, out |-> 5], [in |-> 5, out |-> 4]}

\* 44100 to 48000 samples a second.
RealRates == {[in |-> 147, out |-> 160]}
===============================================================================
