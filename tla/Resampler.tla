------------------------------ MODULE Resampler -------------------------------
(***************************************************************************)
(* The streaming windowed-sinc resampler: resampler_init of                *)
(* src/src/processing/resample.c and resample_l16_advanced of              *)
(* src/src/processing/resample_adv.c.                                      *)
(*                                                                         *)
(* A sample is abstracted to its number in the stream of the session (the  *)
(* first is 1, 0 is the silence before it), and an output to the samples   *)
(* its window covers; the filter's values are left out.  Positions keep    *)
(* their fixed-point scale: the read position, the step and the number of  *)
(* outputs are the integers the code computes.  (It computes the number of *)
(* outputs and the step in doubles; for the six supported rates and any    *)
(* packet that fits a session they are exactly the quotients used here.)   *)
(***************************************************************************)
EXTENDS Integers

CONSTANTS
    Rates,        \* the rates START payloads ask for, as [in, out]
    Supported,    \* those resampler_init supports
    Packets,      \* sizes of an INPUT's audio, in samples
    Half,         \* half the taps of the filter (64)
    History,      \* RESAMPLER_MAX_TAPS (1024)
    One,          \* one sample in fixed point (2^32)
    MaxPackets    \* bound: packets after a START

Rate == [in : Nat \ {0}, out : Nat \ {0}]

ASSUME ResamplerAssumption ==
    /\ Rates \subseteq Rate /\ Supported \subseteq Rates
    /\ \A r \in Rates : r.in # r.out /\ r.out <= One
    /\ Packets \subseteq Nat
    /\ Half \in Nat \ {0} /\ History \in Nat \ {0} /\ One \in Nat \ {0}
    /\ MaxPackets \in Nat

VARIABLES
    rate,         \* in_sample_rate and out_sample_rate
    pos,          \* pos_fp: where the next output is, relative to the next packet
    hist,         \* delay_buf, oldest first
    n,            \* history: samples the stream has had
    packets,      \* history: packets since START
    outs,         \* history: outputs since START
    odd           \* history: packets since START whose outputs were rounded down

vars == <<rate, pos, hist, n, packets, outs, odd>>

-------------------------------------------------------------------------------
\* Quotients rounded up and down; the divisor is positive.
Floor(x, d) == x \div d
Ceil(x, d)  == -Floor(-x, d)

\* resampler_init: the first output is this many samples before the stream, so
\* that the window of an output never reaches past its packet.
HalfOnly(r) == Half                                 \* mutant: not stretched
Delay(r) == IF r.in > r.out THEN Ceil(r.in * Half, r.out) ELSE Half

\* A START: the session is zeroed, and resampler_init sets the delay unless it
\* refuses the rates; that it did is not looked at.
Silence == [j \in 1..History |-> 0]
FirstPos(r) == IF r \in Supported THEN -(Delay(r) * One) ELSE 0

Init ==
    /\ rate \in Rates /\ pos = FirstPos(rate) /\ hist = Silence
    /\ n = 0 /\ packets = 0 /\ outs = 0 /\ odd = 0

KeptHistory(h) == h                                 \* mutant: not zeroed
ClearedHistory(h) == Silence
Start(r) ==
    /\ rate' = r /\ pos' = FirstPos(r) /\ hist' = ClearedHistory(hist)
    /\ n' = 0 /\ packets' = 0 /\ outs' = 0 /\ odd' = 0

-------------------------------------------------------------------------------
(***************************************************************************)
(* resample_l16_advanced, for a packet of m samples.                       *)
(***************************************************************************)
Step(r)       == Floor(r.in * One, r.out)
OutsRounded(r, m) == (m * r.out + r.in \div 2) \div r.in   \* mutant: to nearest
OutSamples(r, m) == Floor(m * r.out, r.in)
Whole(r, m)   == (m * r.out) % r.in = 0

\* Position of the last output of the packet.
LastPos(m) == pos + (OutSamples(rate, m) - 1) * Step(rate)

\* The windows of a packet's outputs overlap, so the outputs read, between them,
\* every place from the first of the first window to the last of the last one.
\* Upsampling, a window is the filter's taps; downsampling, it is stretched by
\* the ratio of the rates.
FirstRead ==
    IF rate.in < rate.out THEN Floor(pos, One) - (Half - 1)
    ELSE Ceil(pos * rate.out - rate.in * (Half - 1) * One, One * rate.out)
LastRead(m) ==
    IF rate.in < rate.out THEN Floor(LastPos(m), One) + Half
    ELSE Floor(LastPos(m) * rate.out + rate.in * Half * One, One * rate.out)
ReadPlaces(m) == IF OutSamples(rate, m) = 0 THEN {} ELSE FirstRead..LastRead(m)

\* What is read at place k: before the packet, the history; after it, its last
\* sample again.  Before the history, downsampling stays at its oldest sample
\* and upsampling leaves the array.
Outside == -1
Sample(k, m) ==
    IF k >= m THEN n + m
    ELSE IF k >= 0 THEN n + k + 1
    ELSE IF k >= -History THEN hist[History + k + 1]
    ELSE IF rate.in < rate.out THEN Outside ELSE hist[1]

\* The history after the packet: the last samples of the old history and the
\* packet together.
NotShifted(m) ==                                    \* mutant: memmove forgotten
    [j \in 1..History |->
        IF j + m > History THEN n + m - History + j ELSE hist[j]]
Shifted(m) ==
    [j \in 1..History |->
        IF j + m > History THEN n + m - History + j ELSE hist[j + m]]

Packet(m) ==
    /\ packets < MaxPackets
    /\ hist' = Shifted(m)
    /\ pos' = pos + OutSamples(rate, m) * Step(rate) - m * One
    /\ n' = n + m /\ packets' = packets + 1
    /\ outs' = outs + OutSamples(rate, m)
    /\ odd' = IF Whole(rate, m) THEN odd ELSE odd + 1
    /\ UNCHANGED rate

Next == \/ \E r \in Rates : Start(r)
        \/ \E m \in Packets : Packet(m)

Spec == Init /\ [][Next]_vars

-------------------------------------------------------------------------------
(***************************************************************************)
(* Properties.                                                             *)
(***************************************************************************)

\* Every variable has its type; no sample of the history comes from outside.
TypeOK ==
    /\ rate \in Rates /\ pos \in Int /\ hist \in [1..History -> Nat]
    /\ n \in Nat /\ packets \in Nat /\ outs \in Nat /\ odd \in Nat

\* The sample at a place of the stream: silence before the first.
StreamAt(i) == IF i <= 0 THEN 0 ELSE i

\* The history is the end of the stream, however it was cut into packets
\* (resample_adv.c:275-290): the two ways of updating it agree, and a START
\* begins a new stream (transcode.c:24).
HistoryIsStream ==
    \A j \in 1..History : hist[j] = StreamAt(n - History + j)

\* With supported rates no output needs a sample that has not arrived: no window
\* reaches past its packet, where the last sample would be repeated in place of
\* the stream's ("to avoid reading future samples", resample.c:42-49).
NoFutureSamples ==
    rate \in Supported => \A m \in Packets : \A k \in ReadPlaces(m) : k < m

\* The resampler falls behind its stream by less than one output for each packet
\* whose outputs were rounded down (resample_adv.c:160) and by less than one
\* unit of the fixed-point scale for each output (:158), and never runs ahead.
LagBounded ==
    /\ pos <= FirstPos(rate)
    /\ pos >= FirstPos(rate) - odd * Step(rate) - outs

\* While every packet's outputs came out even, an output is computed from the
\* samples of the stream its window covers, over packet boundaries and all
\* ("should continue smoothly", tests/unit/test_resample_adv.c:133).
ReadsTheStream ==
    odd = 0 => \A m \in Packets : \A k \in ReadPlaces(m) :
                  k < m => Sample(k, m) = StreamAt(n + k + 1)

\* The same for packets of any size: no window begins before the history.
\* VIOLATED: what rounding the outputs down loses adds up, packet by packet.
ReadsInsideHistory ==
    \A m \in Packets : \A k \in ReadPlaces(m) : k >= -History
===============================================================================
