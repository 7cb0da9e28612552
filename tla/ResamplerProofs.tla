--------------------------- MODULE ResamplerProofs ----------------------------
(***************************************************************************)
(* Proofs about the streaming resampler, for every set of rates, every     *)
(* packet size, every filter length, history and fixed-point scale.        *)
(*                                                                         *)
(* Everything rests on one fact about a packet (PacketAdvance): its        *)
(* outputs advance the read position by no more than the packet is long,   *)
(* and fall short of that by less than one output if they were rounded     *)
(* down, and one unit of the scale per output.                             *)
(***************************************************************************)
EXTENDS Resampler, TLAPS

-------------------------------------------------------------------------------
(***************************************************************************)
(* Arithmetic.                                                             *)
(***************************************************************************)
LEMMA Quotient ==
    ASSUME NEW a \in Int, NEW d \in Nat \ {0}
    PROVE  /\ Floor(a, d) \in Int
           /\ Floor(a, d) * d <= a /\ a < Floor(a, d) * d + d
           /\ a % d = 0 => Floor(a, d) * d = a
  BY DEF Floor

LEMMA Cancel ==
    ASSUME NEW a \in Int, NEW b \in Int, NEW c \in Nat \ {0}
    PROVE  /\ a * c <= b * c => a <= b
           /\ a * c < b * c => a < b
  OBVIOUS

LEMMA Products ==
    ASSUME NEW a \in Nat, NEW b \in Nat, NEW c \in Nat, NEW d \in Nat
    PROVE  /\ a <= b /\ c <= d => a * c <= b * d
           /\ a < b /\ c < d => a * c < b * d
           /\ a * c \in Nat
<1>1. a * c \in Nat
  OBVIOUS
<1>2. ASSUME a <= b, c <= d PROVE a * c <= b * d
  <2>1. a * c <= b * c
    BY <1>2
  <2>2. b * c <= b * d
    BY <1>2
  <2> QED
    BY <2>1, <2>2
<1>3. ASSUME a < b, c < d PROVE a * c < b * d
  <2>1. a * c <= b * c
    BY <1>3
  <2>2. b * c < b * d
    BY <1>3
  <2> QED
    BY <2>1, <2>2
<1> QED
  BY <1>1, <1>2, <1>3

LEMMA Regroup ==
    ASSUME NEW a \in Int, NEW b \in Int, NEW c \in Int, NEW d \in Int
    PROVE  (a * b) * (c * d) = (a * c) * (b * d)
  OBVIOUS

-------------------------------------------------------------------------------
(***************************************************************************)
(* One packet.                                                             *)
(***************************************************************************)

\* What the two quotients of a packet are.
LEMMA Quotients ==
    ASSUME NEW r \in Rates, NEW m \in Nat
    PROVE  /\ r.in \in Nat \ {0} /\ r.out \in Nat \ {0} /\ One \in Nat \ {0}
           /\ Step(r) \in Nat \ {0} /\ OutSamples(r, m) \in Nat
           /\ Step(r) * r.out <= r.in * One
           /\ r.in * One < (Step(r) + 1) * r.out
           /\ OutSamples(r, m) * r.in <= m * r.out
           /\ m * r.out < (OutSamples(r, m) + 1) * r.in
           /\ Whole(r, m) => OutSamples(r, m) * r.in = m * r.out
<1>1. r.in \in Nat \ {0} /\ r.out \in Nat \ {0} /\ One \in Nat \ {0} /\ r.out <= One
  BY ResamplerAssumption DEF Rate
<1> DEFINE a == r.in * One
           b == m * r.out
<1>2. a \in Nat /\ b \in Nat /\ r.out <= a
  <2>1. 1 * r.out <= r.in * One
    BY <1>1, Products
  <2>2. b \in Nat /\ a \in Nat
    BY <1>1, Products
  <2> QED
    BY <1>1, <2>1, <2>2
<1>3. Step(r) = Floor(a, r.out) /\ OutSamples(r, m) = Floor(b, r.in)
  BY DEF Step, OutSamples
<1>4. Whole(r, m) => b % r.in = 0
  BY DEF Whole
<1> HIDE DEF a, b
<1> PICK s : s = Floor(a, r.out)
  OBVIOUS
<1> PICK q : q = Floor(b, r.in)
  OBVIOUS
<1>5. s \in Int /\ s * r.out <= a /\ a < s * r.out + r.out
  <2>1. a \in Int /\ r.out \in Nat \ {0}
    BY <1>1, <1>2
  <2> QED
    BY <2>1, Quotient
<1>6. q \in Int /\ q * r.in <= b /\ b < q * r.in + r.in /\ (b % r.in = 0 => q * r.in = b)
  <2>1. b \in Int /\ r.in \in Nat \ {0}
    BY <1>1, <1>2
  <2> QED
    BY <2>1, Quotient
<1>7. s * r.out + r.out = (s + 1) * r.out /\ q * r.in + r.in = (q + 1) * r.in
  <2>1. \A x, y \in Int : x * y + y = (x + 1) * y
    OBVIOUS
  <2> QED
    BY <1>1, <1>5, <1>6, <2>1
<1>8. s \in Nat \ {0}
  <2>1. 0 * r.out < s * r.out
    BY <1>1, <1>2, <1>5
  <2>2. 0 < s
    BY <1>1, <1>5, <2>1, Cancel
  <2> QED
    BY <1>5, <2>2
<1>9. q \in Nat
  <2>1. 0 * r.in < (q + 1) * r.in
    BY <1>1, <1>2, <1>6, <1>7
  <2>2. q + 1 \in Int
    BY <1>6
  <2>3. 0 < q + 1
    BY <1>1, <2>1, <2>2, Cancel
  <2> QED
    BY <1>6, <2>3
<1>10. Whole(r, m) => q * r.in = b
  BY <1>4, <1>6
<1> QED
  BY <1>1, <1>3, <1>5, <1>6, <1>7, <1>8, <1>9, <1>10 DEF a, b

\* The outputs of a packet advance the read position by the packet's length,
\* less what was rounded away.
LEMMA PacketAdvance ==
    ASSUME NEW r \in Rates, NEW m \in Nat
    PROVE  LET s == Step(r)
               q == OutSamples(r, m)
           IN /\ q * s \in Nat /\ q * s <= m * One
              /\ m * One <= q * s + q + s
              /\ Whole(r, m) => m * One <= q * s + q
<1> PICK s : s = Step(r)
  OBVIOUS
<1> PICK q : q = OutSamples(r, m)
  OBVIOUS
<1> PICK i : i = r.in
  OBVIOUS
<1> PICK o : o = r.out
  OBVIOUS
<1>1. i \in Nat \ {0} /\ o \in Nat \ {0} /\ One \in Nat \ {0} /\ s \in Nat /\ q \in Nat
  BY Quotients
<1>2. s * o <= i * One /\ i * One < (s + 1) * o
  BY Quotients
<1>3. q * i <= m * o /\ m * o < (q + 1) * i
  BY Quotients
<1>4. /\ q * i \in Nat /\ s * o \in Nat /\ m * o \in Nat /\ i * One \in Nat
      /\ (q + 1) * i \in Nat /\ (s + 1) * o \in Nat /\ q * s \in Nat
  BY <1>1, Products
<1>5. i * o \in Nat \ {0} /\ m * One \in Nat
  BY <1>1
<1>6. (m * One) * (i * o) = (m * o) * (i * One)
  <2>1. (m * One) * (o * i) = (m * o) * (One * i)
    BY <1>1, Regroup
  <2>2. o * i = i * o /\ One * i = i * One
    BY <1>1
  <2> QED
    BY <2>1, <2>2
<1>7. q * s <= m * One
  <2>1. (q * s) * (i * o) = (q * i) * (s * o)
    BY <1>1, Regroup
  <2>2. (q * i) * (s * o) <= (m * o) * (i * One)
    BY <1>2, <1>3, <1>4, Products
  <2> QED
    BY <1>4, <1>5, <1>6, <2>1, <2>2, Cancel
<1>8. m * One <= q * s + q + s
  <2>1. (m * o) * (i * One) < ((q + 1) * i) * ((s + 1) * o)
    BY <1>2, <1>3, <1>4, Products
  <2>2. ((q + 1) * i) * ((s + 1) * o) = ((q + 1) * (s + 1)) * (i * o)
    BY <1>1, Regroup
  <2>3. (q + 1) * (s + 1) = q * s + q + s + 1
    BY <1>1
  <2>4. (m * One) * (i * o) < ((q + 1) * (s + 1)) * (i * o)
    BY <1>6, <2>1, <2>2
  <2>5. (q + 1) * (s + 1) \in Int
    BY <1>1
  <2>6. m * One < (q + 1) * (s + 1)
    BY <1>5, <2>4, <2>5, Cancel
  <2>7. PICK x \in Nat : x = q * s
    BY <1>4
  <2>8. PICK y \in Nat : y = m * One
    BY <1>5
  <2>9. y < x + q + s + 1
    BY <2>3, <2>6, <2>7, <2>8
  <2> QED
    BY <1>1, <2>7, <2>8, <2>9
<1>9. ASSUME Whole(r, m) PROVE m * One <= q * s + q
  <2>1. m * o = q * i
    BY <1>9, Quotients
  <2>2. (q * i) * (i * One) <= (q * i) * ((s + 1) * o)
    BY <1>2, <1>4, Products
  <2>3. (q * i) * ((s + 1) * o) = (q * (s + 1)) * (i * o)
    BY <1>1, Regroup
  <2>4. q * (s + 1) = q * s + q
    BY <1>1
  <2>5. (m * One) * (i * o) <= (q * s + q) * (i * o)
    BY <1>6, <2>1, <2>2, <2>3, <2>4
  <2>6. q * s + q \in Int
    BY <1>1, <1>4
  <2> QED
    BY <1>5, <2>5, <2>6, Cancel
<1> QED
  BY <1>4, <1>7, <1>8, <1>9

\* The delay is long enough for half of a window, stretched when downsampling.
LEMMA DelayCovers ==
    ASSUME NEW r \in Rates
    PROVE  /\ Delay(r) \in Int
           /\ r.in < r.out => Delay(r) = Half
           /\ r.in > r.out => r.in * Half <= Delay(r) * r.out
<1>1. r.in \in Nat \ {0} /\ r.out \in Nat \ {0} /\ Half \in Nat /\ r.in # r.out
  BY ResamplerAssumption DEF Rate
<1>2. CASE r.in < r.out
  BY <1>1, <1>2 DEF Delay
<1>3. CASE r.in > r.out
  <2> PICK h : h = r.in * Half
    OBVIOUS
  <2>1. h \in Int
    BY <1>1
  <2>2. PICK c : c = Floor(-h, r.out)
    OBVIOUS
  <2>3. c \in Int /\ c * r.out <= -h
    BY <1>1, <2>1, <2>2, Quotient
  <2>4. Delay(r) = -c
    BY <1>3, <2>2 DEF Delay, Ceil
  <2>5. (-c) * r.out = -(c * r.out)
    BY <1>1, <2>3
  <2>6. c * r.out \in Int
    BY <1>1, <2>3
  <2> QED
    BY <1>1, <1>3, <2>1, <2>3, <2>4, <2>5, <2>6
<1> QED
  BY <1>1, <1>2, <1>3

-------------------------------------------------------------------------------
(***************************************************************************)
(* The invariant: the three parts support each other only through TypeOK.  *)
(***************************************************************************)
ResamplerInv == TypeOK /\ HistoryIsStream /\ LagBounded

LEMMA FirstPosTyped == ASSUME NEW r \in Rates PROVE FirstPos(r) \in Int
  BY ResamplerAssumption, DelayCovers DEF FirstPos

\* A session that has just been started, for the first time or again.
LEMMA FreshStream ==
    ASSUME NEW r \in Rates
    PROVE  /\ Silence \in [1..History -> Nat]
           /\ \A j \in 1..History : Silence[j] = StreamAt(0 - History + j)
           /\ FirstPos(r) \in Int
           /\ FirstPos(r) >= FirstPos(r) - 0 * Step(r) - 0
<1>1. FirstPos(r) \in Int /\ Step(r) \in Nat /\ History \in Nat
  BY FirstPosTyped, Quotients, ResamplerAssumption
<1>2. Silence \in [1..History -> Nat]
  BY DEF Silence
<1>3. \A j \in 1..History : Silence[j] = StreamAt(0 - History + j)
  BY <1>1 DEF Silence, StreamAt
<1> QED
  BY <1>1, <1>2, <1>3

LEMMA InvInit == Init => ResamplerInv
<1> SUFFICES ASSUME Init PROVE ResamplerInv
  OBVIOUS
<1> QED
  BY FreshStream DEF Init, ResamplerInv, TypeOK, HistoryIsStream, LagBounded

LEMMA InvStart ==
    ASSUME ResamplerInv, NEW r \in Rates, Start(r)
    PROVE  ResamplerInv'
<1>1. /\ rate' = r /\ pos' = FirstPos(r) /\ hist' = Silence
      /\ n' = 0 /\ packets' = 0 /\ outs' = 0 /\ odd' = 0
  BY DEF Start, ClearedHistory
<1>2. TypeOK'
  BY <1>1, FreshStream DEF TypeOK
<1>3. HistoryIsStream'
  BY <1>1, FreshStream DEF HistoryIsStream
<1>4. LagBounded'
  BY <1>1, FreshStream DEF LagBounded
<1> QED
  BY <1>2, <1>3, <1>4 DEF ResamplerInv

\* However a packet compares with the history, the history stays the stream's end.
LEMMA ShiftedIsStream ==
    ASSUME TypeOK, HistoryIsStream, NEW m \in Nat
    PROVE  /\ Shifted(m) \in [1..History -> Nat]
           /\ \A j \in 1..History : Shifted(m)[j] = StreamAt(n + m - History + j)
<1>1. n \in Nat /\ History \in Nat /\ hist \in [1..History -> Nat]
  BY ResamplerAssumption DEF TypeOK
<1>2. ASSUME NEW j \in 1..History
      PROVE  Shifted(m)[j] \in Nat /\ Shifted(m)[j] = StreamAt(n + m - History + j)
  <2>1. CASE j + m > History
    BY <1>1, <2>1 DEF Shifted, StreamAt
  <2>2. CASE ~(j + m > History)
    <3>1. j + m \in 1..History
      BY <1>1, <2>2
    <3>2. hist[j + m] = StreamAt(n - History + (j + m)) /\ hist[j + m] \in Nat
      BY <1>1, <3>1 DEF HistoryIsStream
    <3>3. n - History + (j + m) = n + m - History + j
      BY <1>1
    <3> QED
      BY <2>2, <3>2, <3>3 DEF Shifted
  <2> QED
    BY <2>1, <2>2
<1> QED
  BY <1>2 DEF Shifted

LEMMA InvPacket ==
    ASSUME ResamplerInv, NEW m \in Packets, Packet(m)
    PROVE  ResamplerInv'
<1> PICK s : s = Step(rate)
  OBVIOUS
<1> PICK q : q = OutSamples(rate, m)
  OBVIOUS
<1> PICK f : f = FirstPos(rate)
  OBVIOUS
<1> PICK w : w = Whole(rate, m)
  OBVIOUS
<1>1. /\ rate \in Rates /\ m \in Nat /\ One \in Nat /\ pos \in Int
      /\ n \in Nat /\ packets \in Nat /\ outs \in Nat /\ odd \in Nat
  BY ResamplerAssumption DEF ResamplerInv, TypeOK
<1>2. /\ rate' = rate /\ hist' = Shifted(m) /\ n' = n + m
      /\ pos' = pos + q * s - m * One
      /\ packets' = packets + 1 /\ outs' = outs + q
  BY DEF Packet
<1>3. /\ Whole(rate, m) => odd' = odd
      /\ ~Whole(rate, m) => odd' = odd + 1
  BY DEF Packet
<1>4. /\ q \in Nat /\ s \in Nat /\ f \in Int
      /\ q * s \in Nat /\ q * s <= m * One /\ m * One <= q * s + q + s
      /\ Whole(rate, m) => m * One <= q * s + q
  BY <1>1, Quotients, PacketAdvance, FirstPosTyped
<1>5. Shifted(m) \in [1..History -> Nat]
  BY <1>1, ShiftedIsStream DEF ResamplerInv
<1>6. m * One \in Int
  BY <1>1
<1>7. TypeOK'
  <2>1. pos' \in Int
    BY <1>1, <1>2, <1>4, <1>6
  <2>2. n' \in Nat /\ packets' \in Nat /\ outs' \in Nat
    BY <1>1, <1>2, <1>4
  <2>3. odd' \in Nat
    BY <1>1, <1>3
  <2> QED
    BY <1>1, <1>2, <1>5, <2>1, <2>2, <2>3 DEF TypeOK
<1>8. HistoryIsStream'
  <2>1. \A j \in 1..History : Shifted(m)[j] = StreamAt(n + m - History + j)
    BY <1>1, ShiftedIsStream DEF ResamplerInv
  <2>2. ASSUME NEW j \in 1..History PROVE hist'[j] = StreamAt(n' - History + j)
    <3>1. hist'[j] = Shifted(m)[j] /\ n' = n + m
      BY <1>2
    <3>2. n' - History + j = n + m - History + j
      BY <1>1, <3>1, ResamplerAssumption
    <3>3. Shifted(m)[j] = StreamAt(n + m - History + j)
      BY <2>1
    <3> QED
      BY <3>1, <3>2, <3>3
  <2> QED
    BY <2>2 DEF HistoryIsStream, StreamAt
<1>9. LagBounded'
  <2> PICK advance : advance = q * s
    OBVIOUS
  <2> PICK whole : whole = m * One
    OBVIOUS
  <2> PICK lag : lag = odd * s
    OBVIOUS
  <2>1. advance \in Nat /\ whole \in Int /\ lag \in Int /\ (odd + 1) * s = lag + s
    BY <1>1, <1>4, <1>6
  <2>2. pos <= f /\ pos >= f - lag - outs
    BY DEF ResamplerInv, LagBounded
  <2>3. pos' = pos + advance - whole /\ advance <= whole
    BY <1>2, <1>4
  <2>4. pos' <= f
    BY <1>1, <1>4, <2>1, <2>2, <2>3
  <2>5. CASE Whole(rate, m)
    <3>1. whole <= advance + q
      BY <1>4, <2>5
    <3>2. pos' >= f - lag - (outs + q)
      BY <1>1, <1>4, <2>1, <2>2, <2>3, <3>1
    <3> QED
      BY <1>2, <1>3, <2>4, <2>5, <3>2 DEF LagBounded
  <2>6. CASE ~Whole(rate, m)
    <3>1. whole <= advance + q + s
      BY <1>4
    <3>2. pos' >= f - (lag + s) - (outs + q)
      BY <1>1, <1>4, <2>1, <2>2, <2>3, <3>1
    <3>3. odd' * s = lag + s
      BY <1>3, <2>1, <2>6
    <3> QED
      BY <1>2, <2>4, <3>2, <3>3 DEF LagBounded
  <2> QED
    BY <2>5, <2>6
<1> QED
  BY <1>7, <1>8, <1>9 DEF ResamplerInv

LEMMA InvStep == ResamplerInv /\ [Next]_vars => ResamplerInv'
<1> SUFFICES ASSUME ResamplerInv, [Next]_vars PROVE ResamplerInv'
  OBVIOUS
<1>1. CASE \E r \in Rates : Start(r)
  BY <1>1, InvStart
<1>2. CASE \E m \in Packets : Packet(m)
  BY <1>2, InvPacket
<1>3. CASE UNCHANGED vars
  BY <1>3 DEF vars, ResamplerInv, TypeOK, HistoryIsStream, LagBounded
<1> QED
  BY <1>1, <1>2, <1>3 DEF Next

LEMMA InvHolds == Spec => []ResamplerInv
  BY InvInit, InvStep, PTL DEF Spec

\* The resampler's variables keep their types: the history never takes up a
\* sample from outside the stream (resample_adv.c:275-290).
THEOREM ResamplerTyped == Spec => []TypeOK
<1>1. ResamplerInv => TypeOK
  BY DEF ResamplerInv
<1> QED
  BY <1>1, InvHolds, PTL

\* The history is the end of the stream after packets of any sizes, shorter or
\* longer than the history itself (resample_adv.c:275-290).
THEOREM HistoryIsTheStream == Spec => []HistoryIsStream
<1>1. ResamplerInv => HistoryIsStream
  BY DEF ResamplerInv
<1> QED
  BY <1>1, InvHolds, PTL

\* The read position never runs ahead of the stream, and falls behind by less
\* than one output per unevenly scaled packet (resample_adv.c:158-160).
THEOREM LagIsBounded == Spec => []LagBounded
<1>1. ResamplerInv => LagBounded
  BY DEF ResamplerInv
<1> QED
  BY <1>1, InvHolds, PTL

-------------------------------------------------------------------------------
(***************************************************************************)
(* No future samples.                                                      *)
(***************************************************************************)

\* The last window of a packet ends inside the packet.
LEMMA LastWindowInside ==
    ASSUME TypeOK, LagBounded, rate \in Supported, NEW m \in Packets,
           OutSamples(rate, m) # 0
    PROVE  LastRead(m) \in Int /\ LastRead(m) < m
<1> PICK s : s = Step(rate)
  OBVIOUS
<1> PICK q : q = OutSamples(rate, m)
  OBVIOUS
<1> PICK d : d = Delay(rate)
  OBVIOUS
<1> PICK p : p = LastPos(m)
  OBVIOUS
<1> PICK i : i = rate.in
  OBVIOUS
<1> PICK o : o = rate.out
  OBVIOUS
<1>1. rate \in Rates /\ m \in Nat /\ pos \in Int
  BY ResamplerAssumption DEF TypeOK
<1>2. /\ s \in Nat \ {0} /\ q \in Nat \ {0} /\ One \in Nat \ {0}
      /\ i \in Nat \ {0} /\ o \in Nat \ {0} /\ i # o
      /\ q * s \in Nat /\ q * s <= m * One
      /\ Half \in Nat /\ d \in Int
  BY <1>1, Quotients, PacketAdvance, DelayCovers, ResamplerAssumption
<1>3. pos <= -(d * One)
  BY DEF LagBounded, FirstPos
<1>4. p \in Int /\ p < m * One - d * One
  <2>1. (q - 1) * s = q * s - s
    BY <1>2
  <2>2. p = pos + (q - 1) * s
    BY DEF LastPos
  <2> PICK x : x = q * s
    OBVIOUS
  <2> PICK y : y = m * One
    OBVIOUS
  <2> PICK z : z = d * One
    OBVIOUS
  <2>3. x \in Nat /\ y \in Int /\ z \in Int
    BY <1>1, <1>2
  <2> QED
    BY <1>1, <1>2, <1>3, <2>1, <2>2, <2>3
<1>5. m * One \in Int /\ d * One \in Int /\ m * One - d * One = (m - d) * One
  BY <1>1, <1>2
<1>6. CASE i < o
  <2>1. d = Half
    BY <1>1, <1>6, DelayCovers
  <2> PICK t : t = Floor(p, One)
    OBVIOUS
  <2>2. t \in Int /\ t * One <= p
    BY <1>2, <1>4, Quotient
  <2>3. t * One \in Int
    BY <1>2, <2>2
  <2>4. t * One < (m - d) * One
    BY <1>4, <1>5, <2>2, <2>3
  <2>5. m - d \in Int
    BY <1>1, <1>2
  <2>6. t < m - d
    BY <1>2, <2>2, <2>4, <2>5, Cancel
  <2>7. LastRead(m) = t + Half
    BY <1>6 DEF LastRead
  <2> QED
    BY <1>1, <1>2, <2>1, <2>2, <2>6, <2>7
<1>7. CASE i > o
  <2> PICK x : x = p * o + i * Half * One
    OBVIOUS
  <2> PICK c : c = One * o
    OBVIOUS
  <2> PICK t : t = Floor(x, c)
    OBVIOUS
  <2>1. x \in Int /\ c \in Nat \ {0}
    BY <1>2, <1>4
  <2>2. t \in Int /\ t * c <= x
    BY <2>1, Quotient
  <2>3. x < m * c
    <3>1. i * Half <= d * o
      BY <1>1, <1>7, DelayCovers
    <3>2. i * Half \in Int /\ d * o \in Int
      BY <1>2
    <3>3. (i * Half) * One <= (d * o) * One
      <4>1. \A a, b \in Int, e \in Nat : a <= b => a * e <= b * e
        OBVIOUS
      <4> QED
        BY <1>2, <3>1, <3>2, <4>1
    <3>4. p * o < ((m - d) * One) * o
      <4>1. \A a, b \in Int, e \in Nat \ {0} : a < b => a * e < b * e
        OBVIOUS
      <4>2. (m - d) * One \in Int /\ p < (m - d) * One
        BY <1>1, <1>2, <1>4, <1>5
      <4> QED
        BY <1>2, <1>4, <4>1, <4>2
    <3>5. ((m - d) * One) * o = m * c - (d * o) * One
      BY <1>1, <1>2
    <3>6. p * o \in Int /\ (i * Half) * One \in Int /\ (d * o) * One \in Int /\ m * c \in Int
      BY <1>1, <1>2, <1>4, <2>1, <3>2
    <3>7. p * o < m * c - (d * o) * One
      BY <3>4, <3>5
    <3> QED
      BY <3>3, <3>6, <3>7
  <2>4. t * c \in Int /\ m * c \in Int
    BY <1>1, <2>1, <2>2
  <2>5. t * c < m * c
    BY <2>1, <2>2, <2>3, <2>4
  <2>6. t < m
    BY <1>1, <2>1, <2>2, <2>5, Cancel
  <2>7. LastRead(m) = t
    BY <1>2, <1>7 DEF LastRead
  <2> QED
    BY <2>2, <2>6, <2>7
<1> QED
  BY <1>2, <1>6, <1>7

\* With supported rates, whatever sizes the packets have, no window of an output
\* reaches past the packet that is there (resample.c:42-49).
THEOREM NoFuture == Spec => []NoFutureSamples
<1>1. ASSUME ResamplerInv PROVE NoFutureSamples
  <2> SUFFICES ASSUME rate \in Supported, NEW m \in Packets, NEW k \in ReadPlaces(m)
               PROVE  k < m
    BY DEF NoFutureSamples
  <2>1. OutSamples(rate, m) # 0 /\ k \in FirstRead..LastRead(m)
    BY DEF ReadPlaces
  <2>2. LastRead(m) \in Int /\ LastRead(m) < m
    BY <1>1, <2>1, LastWindowInside DEF ResamplerInv
  <2>3. m \in Nat
    BY ResamplerAssumption
  <2>4. FirstRead \in Int
    <3>1. rate \in Rates /\ pos \in Int /\ Half \in Nat /\ One \in Nat \ {0}
          /\ rate.in \in Nat \ {0} /\ rate.out \in Nat \ {0}
      BY <1>1, ResamplerAssumption DEF ResamplerInv, TypeOK, Rate
    <3>2. Floor(pos, One) \in Int
      BY <3>1, Quotient
    <3> PICK x : x = pos * rate.out - rate.in * (Half - 1) * One
      OBVIOUS
    <3> PICK c : c = One * rate.out
      OBVIOUS
    <3>3. -x \in Int /\ c \in Nat \ {0}
      BY <3>1
    <3>4. Floor(-x, c) \in Int
      BY <3>3, Quotient
    <3> QED
      BY <3>1, <3>2, <3>4 DEF FirstRead, Ceil
  <2> QED
    BY <2>1, <2>2, <2>3, <2>4
<1> QED
  BY <1>1, InvHolds, PTL

-------------------------------------------------------------------------------
(***************************************************************************)
(* The windows of packets whose outputs came out even.                     *)
(***************************************************************************)

\* How far before its packet the window of a session's first output begins.
Reach(r) == IF r.in < r.out THEN 2 * Half - 1
            ELSE Delay(r) + Ceil(r.in * (Half - 1), r.out)

\* The outputs after which the units of the scale lost to the step, one for an
\* output at most, could move a window out of the history.
LastingOuts(r) == (History - Reach(r)) * One

LEMMA RoundedUp ==
    ASSUME NEW x \in Int, NEW d \in Nat \ {0}
    PROVE  Ceil(x, d) \in Int /\ x <= Ceil(x, d) * d
<1> PICK c : c = Floor(-x, d)
  OBVIOUS
<1>1. c \in Int /\ c * d <= -x
  BY Quotient
<1>2. (-c) * d = -(c * d) /\ c * d \in Int
  BY <1>1
<1>3. Ceil(x, d) = -c
  BY DEF Ceil
<1> QED
  BY <1>1, <1>2, <1>3

LEMMA DelayNatural == ASSUME NEW r \in Rates PROVE Delay(r) \in Nat
<1>1. /\ r.in \in Nat \ {0} /\ r.out \in Nat \ {0} /\ Half \in Nat /\ r.in # r.out
      /\ Delay(r) \in Int
  BY ResamplerAssumption, DelayCovers DEF Rate
<1>2. CASE r.in < r.out
  BY <1>1, <1>2, DelayCovers
<1>3. CASE r.in > r.out
  <2>1. r.in * Half <= Delay(r) * r.out /\ r.in * Half \in Nat
    BY <1>1, <1>3, DelayCovers
  <2>2. 0 * r.out <= Delay(r) * r.out
    BY <1>1, <2>1
  <2> QED
    BY <1>1, <2>2, Cancel
<1> QED
  BY <1>1, <1>2, <1>3

\* No window begins before the history: the read position lags by less than what
\* the history holds beyond the first window.
LEMMA FirstWindowInside ==
    ASSUME TypeOK, LagBounded, odd = 0, outs <= LastingOuts(rate)
    PROVE  FirstRead \in Int /\ FirstRead >= -History
<1> PICK d : d = Delay(rate)
  OBVIOUS
<1> PICK i : i = rate.in
  OBVIOUS
<1> PICK o : o = rate.out
  OBVIOUS
<1>1. /\ rate \in Rates /\ pos \in Int /\ outs \in Nat /\ One \in Nat \ {0}
      /\ History \in Nat /\ Half \in Nat \ {0} /\ i \in Nat \ {0} /\ o \in Nat \ {0} /\ i # o
      /\ d \in Nat
  BY ResamplerAssumption, DelayNatural DEF TypeOK, Rate
<1>2. pos >= -(d * One) - outs
  <2>1. pos >= FirstPos(rate) - 0 * Step(rate) - outs
    BY DEF LagBounded
  <2>2. Step(rate) \in Nat
    BY <1>1, Quotients
  <2>3. 0 * Step(rate) = 0
    BY <2>2
  <2>4. d * One \in Nat
    BY <1>1
  <2>5. FirstPos(rate) >= -(d * One) /\ FirstPos(rate) \in Int
    BY <1>1, <2>4 DEF FirstPos
  <2> QED
    BY <1>1, <2>1, <2>3, <2>4, <2>5
<1>3. CASE i < o
  <2>1. d = Half /\ Reach(rate) = 2 * Half - 1
    BY <1>1, <1>3, DelayCovers DEF Reach
  <2> PICK t : t = Floor(pos, One)
    OBVIOUS
  <2>2. t \in Int /\ pos < t * One + One
    BY <1>1, Quotient
  <2>3. (Half - 1 - History) * One <= pos
    <3>1. outs <= (History - (2 * Half - 1)) * One
      BY <2>1 DEF LastingOuts
    <3>2. (History - (2 * Half - 1)) * One = History * One - 2 * (Half * One) + One
      BY <1>1
    <3>3. (Half - 1 - History) * One = Half * One - One - History * One
      BY <1>1
    <3>4. PICK x, y : /\ x = Half * One /\ y = History * One
                      /\ x \in Nat /\ y \in Nat
      <4>1. Half * One \in Nat /\ History * One \in Nat
        BY <1>1
      <4> QED
        BY <4>1
    <3>5. outs <= y - 2 * x + One /\ pos >= -x - outs
      BY <1>2, <2>1, <3>1, <3>2, <3>4
    <3>6. x - One - y <= pos
      BY <1>1, <3>4, <3>5
    <3> QED
      BY <3>3, <3>4, <3>6
  <2>4. Half - 1 - History < t + 1
    <3>1. t * One + One = (t + 1) * One
      BY <1>1, <2>2
    <3>2. /\ Half - 1 - History \in Int /\ t + 1 \in Int
          /\ (Half - 1 - History) * One \in Int /\ (t + 1) * One \in Int
      BY <1>1, <2>2
    <3>3. (Half - 1 - History) * One < (t + 1) * One
      BY <1>1, <2>2, <2>3, <3>1, <3>2
    <3> QED
      BY <1>1, <3>2, <3>3, Cancel
  <2>5. FirstRead = t - (Half - 1)
    BY <1>3 DEF FirstRead
  <2> QED
    BY <1>1, <2>2, <2>4, <2>5
<1>4. CASE i > o
  <2> PICK e : e = Ceil(i * (Half - 1), o)
    OBVIOUS
  <2>1. e \in Int /\ i * (Half - 1) <= e * o
    <3>1. i * (Half - 1) \in Int
      BY <1>1
    <3> QED
      BY <1>1, <3>1, RoundedUp
  <2>2. outs <= (History - (d + e)) * One
    BY <1>1, <1>4 DEF LastingOuts, Reach
  <2> PICK x : x = pos * o - i * (Half - 1) * One
    OBVIOUS
  <2> PICK c : c = One * o
    OBVIOUS
  <2> PICK f : f = Ceil(x, c)
    OBVIOUS
  <2>3. x \in Int /\ c \in Nat \ {0}
    BY <1>1
  <2>4. f \in Int /\ x <= f * c
    BY <2>3, RoundedUp
  <2>5. (-History) * c <= x
    <3>1. (e - History) * One <= pos
      <4>1. PICK u, v, z : /\ u = d * One /\ v = e * One /\ z = History * One
                           /\ u \in Int /\ v \in Int /\ z \in Int
        <5>1. d * One \in Int /\ e * One \in Int /\ History * One \in Int
          BY <1>1, <2>1
        <5> QED
          BY <5>1
      <4>2. (History - (d + e)) * One = z - u - v /\ (e - History) * One = v - z
        BY <1>1, <2>1, <4>1
      <4>3. outs <= z - u - v /\ pos >= -u - outs
        BY <1>2, <2>2, <4>1, <4>2
      <4> QED
        BY <1>1, <4>1, <4>2, <4>3
    <3>2. \A a, b \in Int, k \in Nat : a <= b => a * k <= b * k
      OBVIOUS
    <3>3. ((e - History) * One) * o <= pos * o
      <4>1. (e - History) * One \in Int
        BY <1>1, <2>1
      <4> QED
        BY <1>1, <3>1, <3>2, <4>1
    <3>4. (i * (Half - 1)) * One <= (e * o) * One
      <4>1. i * (Half - 1) \in Int /\ e * o \in Int
        BY <1>1, <2>1
      <4> QED
        BY <1>1, <2>1, <3>2, <4>1
    <3>5. PICK u, v, w, y : /\ u = (e * o) * One /\ v = (i * (Half - 1)) * One
                            /\ w = History * c /\ y = pos * o
                            /\ u \in Int /\ v \in Int /\ w \in Int /\ y \in Int
      <4>1. /\ (e * o) * One \in Int /\ (i * (Half - 1)) * One \in Int
            /\ History * c \in Int /\ pos * o \in Int
        BY <1>1, <2>1, <2>3
      <4> QED
        BY <4>1
    <3>6. ((e - History) * One) * o = u - w
      BY <1>1, <2>1, <3>5
    <3>7. (-History) * c = -w
      BY <1>1, <2>3, <3>5
    <3>8. x = y - v
      BY <3>5
    <3> QED
      BY <3>3, <3>4, <3>5, <3>6, <3>7, <3>8
  <2>6. (-History) * c <= f * c /\ -History \in Int
    <3>1. (-History) * c \in Int /\ f * c \in Int
      BY <1>1, <2>3, <2>4
    <3> QED
      BY <1>1, <2>3, <2>4, <2>5, <3>1
  <2>7. -History <= f
    BY <2>3, <2>4, <2>6, Cancel
  <2>8. FirstRead = f
    BY <1>1, <1>4 DEF FirstRead
  <2> QED
    BY <1>1, <2>4, <2>7, <2>8
<1> QED
  BY <1>1, <1>3, <1>4

\* As long as every packet's outputs came out even, an output is computed from
\* the stream's own samples, across packets of any sizes (resample_adv.c:158-290,
\* tests/unit/test_resample_adv.c:133), for the first LastingOuts outputs: at
\* 2^32 units a sample and 1024 samples of history, those of years.
THEOREM ReadsOwnStream == Spec => [](outs <= LastingOuts(rate) => ReadsTheStream)
<1>1. ASSUME ResamplerInv, outs <= LastingOuts(rate) PROVE ReadsTheStream
  <2> SUFFICES ASSUME odd = 0, NEW m \in Packets, NEW k \in ReadPlaces(m), k < m
               PROVE  Sample(k, m) = StreamAt(n + k + 1)
    BY DEF ReadsTheStream
  <2>1. FirstRead \in Int /\ FirstRead >= -History
    BY <1>1, FirstWindowInside DEF ResamplerInv
  <2>2. k \in FirstRead..LastRead(m)
    BY DEF ReadPlaces
  <2>3. /\ n \in Nat /\ m \in Nat /\ History \in Nat
        /\ \A j \in 1..History : hist[j] = StreamAt(n - History + j)
    BY <1>1, ResamplerAssumption DEF ResamplerInv, TypeOK, HistoryIsStream
  <2>4. k \in Int /\ k >= -History
    BY <2>1, <2>2, <2>3
  <2>5. CASE k >= 0
    <3>1. Sample(k, m) = n + k + 1 /\ n + k + 1 > 0
      BY <2>3, <2>4, <2>5 DEF Sample
    <3> QED
      BY <2>3, <2>4, <3>1 DEF StreamAt
  <2>6. CASE k < 0
    <3>1. Sample(k, m) = hist[History + k + 1]
      BY <2>3, <2>4, <2>6 DEF Sample
    <3>2. History + k + 1 \in 1..History /\ n - History + (History + k + 1) = n + k + 1
      BY <2>3, <2>4, <2>6
    <3>3. hist[History + k + 1] = StreamAt(n - History + (History + k + 1))
      BY <2>3, <3>2
    <3> QED
      BY <3>1, <3>2, <3>3
  <2> QED
    BY <2>4, <2>5, <2>6
<1> QED
  BY <1>1, InvHolds, PTL
===============================================================================
