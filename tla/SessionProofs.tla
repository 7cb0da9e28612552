----------------------------- MODULE SessionProofs -----------------------------
(***************************************************************************)
(* Proofs about Session, for every set of START and INPUT payloads and     *)
(* every size of the arena that leaves the room the code relies on.        *)
(*                                                                         *)
(* SessionInv says, for each stage of audio_process_transcode, where its   *)
(* buffers are and how far the arena and the payload are used up.  All     *)
(* other invariants are proved on top of it.                               *)
(***************************************************************************)
EXTENDS Session, TLAPS

TranscodeSession ==
    [in : Codecs, out : Codecs, ic : 0..255, oc : 0..255, inRate : Nat, outRate : Nat,
     vad : BOOLEAN, state : BOOLEAN, prob : {"zero", "off", "val"},
     resample : BOOLEAN]
Buffer == [at : Nat, n : Nat]

SettingsOK ==
    ts \in TranscodeSession /\ (ts.state => ts.vad)

ArenaOK ==
    /\ mem \in [Cells -> {"now", "vad", "old"}]
    /\ curr \in Nat /\ start \in Nat
    /\ start <= curr /\ curr <= ArenaSize /\ start <= VadEnd
    /\ Workable => defined

\* Where the parser is, and how much the decoded buffers take.
ParserOK ==
    /\ pc = "idle" => msg = NoMsg
    /\ pc # "idle" =>
          /\ msg \in Inputs /\ msg.n > 0 /\ reply = NoReply
          /\ b \in 0..msg.n /\ offset = HeaderAt[msg][b]
          /\ offset \in Nat /\ HdrIn <= offset /\ offset <= msg.plen + PadTo
    /\ pc \in {"decode", "resample"} => curr + 2 * HdrIn <= start + 2 * offset
    /\ pc \in {"resample", "vad", "encode"} =>
          b = msg.n \/ HeaderAt[msg][b] + HdrBuf + msg.lens[b + 1] > msg.plen

\* Where the buffers are.
FirstPlaced ==
    start <= first.at /\ first.at < start + Align /\ first.n <= msg.plen
WorkPlaced ==
    /\ start <= work.at
    /\ Workable => /\ work.at + 2 * work.n <= ArenaSize
                   /\ work.at + 2 * work.n * ts.oc <= ArenaSize
BuffersOK ==
    /\ first \in Buffer /\ work \in Buffer
    /\ pc = "decode" /\ b = 0 => first = NoBuf
    /\ pc = "decode" /\ b > 0 => FirstPlaced
    /\ pc \in {"resample", "vad", "encode"} => b > 0 /\ first.n > 0 /\ FirstPlaced
    /\ pc \in {"vad", "encode"} => WorkPlaced

Stages == {"idle", "decode", "resample", "vad", "encode"}
SessionInv == pc \in Stages /\ SettingsOK /\ ArenaOK /\ ParserOK /\ BuffersOK

-------------------------------------------------------------------------------
(***************************************************************************)
(* Arithmetic.                                                             *)
(***************************************************************************)
LEMMA Quotient ==
    ASSUME NEW x \in Nat, NEW d \in Nat \ {0}
    PROVE  /\ x \div d \in Nat
           /\ (x \div d) * d <= x /\ x < (x \div d) * d + d
  OBVIOUS

LEMMA RoundedUp ==
    ASSUME NEW x \in Nat, NEW to \in Nat \ {0}
    PROVE  RoundUp(x, to) \in Nat /\ x <= RoundUp(x, to) /\ RoundUp(x, to) < x + to
<1>1. PICK y \in Nat : y = x + to - 1
  OBVIOUS
<1>2. PICK q \in Nat : q = y \div to /\ q * to <= y /\ y < q * to + to
  BY Quotient
<1>3. q * to \in Nat
  OBVIOUS
<1>4. RoundUp(x, to) = q * to
  BY <1>1, <1>2 DEF RoundUp
<1> QED
  BY <1>1, <1>2, <1>3, <1>4

LEMMA SmallModulo ==
    ASSUME NEW x \in Nat, NEW w \in Nat, x < w
    PROVE  x % w = x
  OBVIOUS

LEMMA LesserIsLess ==
    ASSUME NEW x \in Nat, NEW y \in Nat
    PROVE  Lesser(x, y) \in Nat /\ Lesser(x, y) <= x /\ Lesser(x, y) <= y
  BY DEF Lesser

LEMMA Constants ==
    /\ Align \in Nat \ {0} /\ PadTo \in Nat \ {0} /\ Block \in Nat \ {0}
    /\ VadSize \in Nat \ {0} /\ VadFrame \in Nat \ {0}
    /\ ArenaSize \in Nat /\ VadPad \in Nat /\ HdrIn \in Nat /\ HdrBuf \in Nat
    /\ Word \in Nat /\ Slack \in Nat /\ MaxData \in Nat /\ VadRate \in Nat
    /\ VadAt \in Nat /\ VadEnd \in Nat /\ VadEnd = VadAt + VadSize /\ VadEnd <= ArenaSize
    /\ PadTo <= ArenaSize
<1>1. /\ Align \in Nat \ {0} /\ PadTo \in Nat \ {0} /\ Block \in Nat \ {0}
      /\ VadSize \in Nat \ {0} /\ VadFrame \in Nat \ {0}
      /\ ArenaSize \in Nat /\ VadPad \in Nat /\ HdrIn \in Nat /\ HdrBuf \in Nat
      /\ Word \in Nat /\ Slack \in Nat /\ MaxData \in Nat /\ VadRate \in Nat
  BY SessionAssumption
<1>2. VadAt \in Nat
  BY <1>1, RoundedUp DEF VadAt, AllocAt
<1> QED
  BY <1>1, <1>2, SessionAssumption DEF VadEnd

LEMMA Allocated ==
    ASSUME NEW c \in Nat
    PROVE  AllocAt(c) \in Nat /\ c <= AllocAt(c) /\ AllocAt(c) < c + Align
  BY Constants, RoundedUp DEF AllocAt

LEMMA InputParts ==
    ASSUME NEW m \in Inputs
    PROVE  /\ m.n \in Nat /\ m.plen \in Nat /\ m.plen + ArenaSize < Word
           /\ HeaderAt[m] \in [0..m.n -> Nat] /\ HeaderAt[m][0] = HdrIn
           /\ \A k \in 1..m.n : /\ m.lens[k] \in Nat /\ m.lens[k] < Word
                                /\ k \in DOMAIN m.lens
                                /\ HeaderAt[m][k] = HeaderAt[m][k - 1] + HdrBuf
                                                      + RoundUp(m.lens[k], PadTo)
<1>1. m \in Input /\ m.n \in Nat /\ m.plen \in Nat /\ m.lens \in Seq(Nat)
  BY SessionAssumption DEF Input
<1>2. m.n <= Len(m.lens) /\ m.plen + ArenaSize < Word
      /\ \A i \in DOMAIN m.lens : m.lens[i] < Word
  BY SessionAssumption
<1>3. \A k \in 1..m.n : k \in DOMAIN m.lens /\ m.lens[k] \in Nat
  BY <1>1, <1>2
<1> QED
  BY <1>1, <1>2, <1>3, LayoutAssumption

\* Frames of some channels: what is left of a length when it is divided into them.
LEMMA Frames ==
    ASSUME NEW l \in Nat, NEW ch \in Nat \ {0}, NEW s, s = l \div (2 * ch)
    PROVE  s \in Nat /\ s <= s * ch /\ 2 * (s * ch) <= l /\ 2 * s <= l /\ s <= l
<1> PICK d \in Nat \ {0} : d = 2 * ch
  OBVIOUS
<1>1. s \in Nat /\ s * d <= l
  BY Quotient
<1> PICK e \in Nat : ch = e + 1
  <2>1. ch - 1 \in Nat /\ ch = (ch - 1) + 1
    OBVIOUS
  <2> QED
    BY <2>1
<1>2. s * e \in Nat /\ s * ch = s * e + s
  BY <1>1
<1>3. s * d = 2 * (s * ch)
  BY <1>1
<1> QED
  BY <1>1, <1>2, <1>3

\* A product with one of at most two channels.
LEMMA Stereo ==
    ASSUME NEW n \in Nat, NEW ch \in 0..255, ch <= 2
    PROVE  n * ch \in Nat /\ n * ch <= 2 * n
<1>1. ch \in {0, 1, 2}
  OBVIOUS
<1> QED
  BY <1>1

\* What decoding a buffer of a length needs and yields.
LEMMA Decoded ==
    ASSUME SettingsOK, ts.in # "other", ~NoFrames, b \in Nat, Length \in Nat
    PROVE  /\ DecodedSize \in Nat /\ Length <= DecodedSize /\ DecodedSize <= 2 * Length
           /\ Samples \in Nat /\ Samples <= Length /\ 2 * Samples <= DecodedSize
           /\ ts.in = "l16" => 2 * (Samples * ts.ic) <= DecodedSize
<1> PICK l \in Nat : l = Length
  OBVIOUS
<1>1. ts.in \in {"g711", "l16"} /\ (ts.in = "l16" => ts.ic \in Nat \ {0})
  BY DEF SettingsOK, TranscodeSession, Codecs, NoFrames
<1>2. CASE ts.in = "g711"
  BY <1>2 DEF DecodedSize, Samples
<1>3. CASE ts.in = "l16"
  <2>1. DecodedSize = l /\ Samples = l \div (2 * ts.ic)
    BY <1>3 DEF DecodedSize, Samples
  <2> PICK ch \in Nat \ {0} : ch = ts.ic
    BY <1>1, <1>3
  <2> PICK s : s = Samples
    OBVIOUS
  <2>2. s \in Nat /\ 2 * (s * ch) <= l /\ 2 * s <= l /\ s <= l
    BY <2>1, Frames
  <2> QED
    BY <1>3, <2>1, <2>2
<1> QED
  BY <1>1, <1>2, <1>3

-------------------------------------------------------------------------------
(***************************************************************************)
(* The parser and the first buffer.                                        *)
(***************************************************************************)

\* A buffer that is decoded lies inside the payload: a length that wraps the
\* parser's check does not fit the arena.
LEMMA BufferInside ==
    ASSUME SessionInv, pc = "decode", HasBuffer, ~NoFrames, ts.in # "other",
           DecodeFits(DecodedSize)
    PROVE  /\ msg \in Inputs /\ b + 1 \in 1..msg.n /\ Length \in Nat
           /\ DataAt + Length <= msg.plen
           /\ NextOffset \in Nat /\ NextOffset = HeaderAt[msg][b + 1]
           /\ offset + HdrBuf + Length <= NextOffset /\ NextOffset <= msg.plen + PadTo
<1>1. /\ msg \in Inputs /\ b \in Nat /\ b < msg.n /\ msg.n \in Nat /\ msg.plen \in Nat
      /\ offset \in Nat /\ offset = HeaderAt[msg][b]
      /\ DataAt <= msg.plen /\ (DataAt + Length) % Word <= msg.plen
  BY InputParts DEF SessionInv, ParserOK, HasBuffer
<1>2. b + 1 \in 1..msg.n /\ b + 1 - 1 = b
  BY <1>1
<1> PICK l : l = Length
  OBVIOUS
<1>3. /\ l \in Nat /\ HeaderAt[msg][b + 1] = HeaderAt[msg][b] + HdrBuf + RoundUp(l, PadTo)
      /\ msg.plen + ArenaSize < Word
  BY <1>1, <1>2, InputParts DEF Length
<1>4. l <= ArenaSize
  <2>1. AllocAt(curr) \in Nat /\ AllocAt(curr) + DecodedSize <= ArenaSize
    BY Allocated DEF SessionInv, ArenaOK, DecodeFits, Fits
  <2>2. DecodedSize \in Nat /\ l <= DecodedSize
    BY <1>1, <1>3, Decoded DEF SessionInv
  <2> QED
    BY <2>1, <2>2, <1>3, Constants
<1>5. DataAt \in Nat /\ DataAt + l \in Nat /\ DataAt + l < Word
  BY <1>1, <1>3, <1>4, Constants DEF DataAt
<1>6. DataAt + l <= msg.plen
  BY <1>1, <1>5, Constants, SmallModulo
<1> PICK r \in Nat : r = RoundUp(l, PadTo) /\ l <= r /\ r < l + PadTo
  BY <1>3, Constants, RoundedUp
<1>7. DataAt + r \in Nat /\ DataAt + r < Word
  BY <1>1, <1>3, <1>5, <1>6, Constants
<1>8. NextOffset = DataAt + r
  BY <1>7, Constants, SmallModulo DEF NextOffset
<1> QED
  BY <1>1, <1>2, <1>3, <1>5, <1>6, <1>7, <1>8, Constants DEF DataAt

-------------------------------------------------------------------------------
(***************************************************************************)
(* SessionInv is inductive.                                                *)
(***************************************************************************)
LEMMA SessionInit == Init => SessionInv
<1> SUFFICES ASSUME Init PROVE SessionInv
  OBVIOUS
<1>1. pc \in Stages /\ SettingsOK
  BY DEF Init, Stages, SettingsOK, TranscodeSession, Codecs, Zeroed
<1>2. ArenaOK
  BY Constants DEF Init, ArenaOK
<1>3. ParserOK
  BY DEF Init, ParserOK
<1>4. BuffersOK
  BY DEF Init, BuffersOK, Buffer, NoBuf
<1> QED
  BY <1>1, <1>2, <1>3, <1>4 DEF SessionInv

LEMMA SettingsKept == SettingsOK /\ ts' = ts => SettingsOK'
  BY DEF SettingsOK

LEMMA StartKeeps == ASSUME SessionInv, NEW c \in Configs, Start(c) PROVE SessionInv'
<1>1. /\ pc = "idle" /\ defined /\ UNCHANGED <<pipeline, defined>>
      /\ ts' = [Configured(c) EXCEPT !.state = c.vad]
  BY DEF Reached, Start
<1>2. c \in Config
  BY SessionAssumption
<1>3. SettingsOK'
  <2>1. /\ c.in \in Codecs /\ c.out \in Codecs /\ c.ic \in 0..255 /\ c.oc \in 0..255
        /\ c.inRate \in Nat /\ c.outRate \in Nat /\ c.vad \in BOOLEAN
    BY <1>2 DEF Config
  <2> DEFINE p == IF c.vad THEN "zero" ELSE "off"
             r == c.inRate # c.outRate
  <2>2. ts' = [in |-> c.in, out |-> c.out, ic |-> c.ic, oc |-> c.oc,
               inRate |-> c.inRate, outRate |-> c.outRate, vad |-> c.vad,
               state |-> c.vad, prob |-> p, resample |-> r]
    BY <1>1 DEF Configured
  <2>3. p \in {"zero", "off", "val"} /\ r \in BOOLEAN
    OBVIOUS
  <2> HIDE DEF p, r
  <2>4. ts' \in TranscodeSession
    BY <2>1, <2>2, <2>3 DEF TranscodeSession
  <2> QED
    BY <2>1, <2>2, <2>4 DEF SettingsOK
<1>4. ArenaOK'
  <2>1. CASE c.vad
    <3>1. /\ mem' = [a \in Cells |-> IF a \in VadRegion THEN "vad" ELSE mem[a]]
          /\ curr' = VadEnd /\ start' = VadEnd
      BY <2>1 DEF Reached, Start, ProtectedStart
    <3>2. mem \in [Cells -> {"now", "vad", "old"}] /\ defined'
      BY <1>1 DEF SessionInv, ArenaOK
    <3>3. mem' \in [Cells -> {"now", "vad", "old"}]
      BY <3>1, <3>2
    <3> QED
      BY <3>1, <3>2, <3>3, Constants DEF ArenaOK
  <2>2. CASE ~c.vad
    BY <1>1, <2>2, Constants DEF Reached, Start, SessionInv, ArenaOK
  <2> QED
    BY <2>1, <2>2
<1>5. ParserOK' /\ BuffersOK' /\ pc' \in Stages
  BY <1>1 DEF pipeline, SessionInv, ParserOK, BuffersOK, Stages
<1> QED
  BY <1>3, <1>4, <1>5 DEF SessionInv

LEMMA StopKeeps ==
    ASSUME SessionInv, Stop \/ RejectShort PROVE SessionInv'
<1>1. /\ pc = "idle" /\ defined /\ UNCHANGED <<mem, curr, start, pipeline, defined>>
      /\ ts' = ts \/ ts' = Zeroed
  BY DEF Reached, Stop, RejectShort
<1>2. SettingsOK'
  <2>1. CASE ts' = ts
    BY <2>1, SettingsKept DEF SessionInv
  <2>2. CASE ts' = Zeroed
    BY <2>2 DEF SettingsOK, TranscodeSession, Codecs, Zeroed
  <2> QED
    BY <1>1, <2>1, <2>2
<1>3. ArenaOK' /\ ParserOK' /\ BuffersOK' /\ pc' \in Stages
  BY <1>1 DEF pipeline, SessionInv, ArenaOK, ParserOK, BuffersOK, Stages
<1> QED
  BY <1>2, <1>3 DEF SessionInv

\* Whether settings are workable does not depend on the VAD.
LEMMA WorkableKept ==
    ASSUME ts'.in = ts.in, ts'.ic = ts.ic, ts'.oc = ts.oc, ts'.inRate = ts.inRate,
           ts'.resample = ts.resample
    PROVE  Workable' <=> Workable
  BY DEF Workable

\* An INPUT ends: what it has used of the arena is given up now, or with the next.
LEMMA EndKeeps ==
    ASSUME SessionInv, pc' = "idle", msg' = NoMsg, first' = NoBuf, work' = NoBuf,
           ts' = ts, start' = start, (Workable => defined'), mem' \in [Cells -> {"now", "vad", "old"}],
           curr' \in {curr, start}
    PROVE  SessionInv'
<1>1. SettingsOK'
  BY SettingsKept DEF SessionInv
<1>4. ArenaOK'
  <2>1. curr \in Nat /\ start \in Nat /\ start <= curr /\ curr <= ArenaSize /\ start <= VadEnd
    BY DEF SessionInv, ArenaOK
  <2>2. curr' \in Nat /\ start <= curr' /\ curr' <= ArenaSize
    BY <2>1, Constants
  <2> QED
    BY <2>1, <2>2, WorkableKept DEF ArenaOK
<1>2. ParserOK' /\ pc' \in Stages
  BY DEF ParserOK, Stages
<1>3. BuffersOK'
  BY DEF BuffersOK, Buffer, NoBuf
<1> QED
  BY <1>1, <1>2, <1>3, <1>4 DEF SessionInv

LEMMA FailKeeps ==
    ASSUME SessionInv, DecodeFails \/ NothingDecoded \/ ResampleFails \/ EncodeFails
    PROVE  SessionInv'
<1>1. /\ pc' = "idle" /\ msg' = NoMsg /\ first' = NoBuf /\ work' = NoBuf
      /\ UNCHANGED <<ts, mem, curr, start, defined>>
  BY DEF Reached, DecodeFails, NothingDecoded, ResampleFails, EncodeFails, Fail
<1> QED
  BY <1>1, EndKeeps DEF SessionInv, ArenaOK

LEMMA MovedTyped ==
    ASSUME NEW len, NEW width, ArenaOK
    PROVE  Moved(len, width) \in [Cells -> {"now", "vad", "old"}]
  BY DEF Moved, ArenaOK

LEMMA AnswerKeeps ==
    ASSUME SessionInv, EmptyInput \/ EncodeG711 \/ EncodeL16 \/ EncodeOther
    PROVE  SessionInv'
<1>1. /\ pc' = "idle" /\ msg' = NoMsg /\ first' = NoBuf /\ work' = NoBuf
      /\ ts' = ts /\ start' = start /\ curr' = start
  BY DEF Reached, EmptyInput, EncodeG711, EncodeL16, EncodeOther, Answer
<1>2. mem' \in [Cells -> {"now", "vad", "old"}]
  <2>1. ArenaOK /\ mem \in [Cells -> {"now", "vad", "old"}]
    BY DEF SessionInv, ArenaOK
  <2>2. CASE EmptyInput \/ EncodeOther
    BY <2>1, <2>2 DEF Reached, EmptyInput, EncodeOther
  <2>3. CASE EncodeG711
    BY <2>1, <2>3, MovedTyped DEF Reached, EncodeG711
  <2>4. CASE EncodeL16
    BY <2>1, <2>4, MovedTyped DEF Reached, EncodeL16
  <2> QED
    BY <2>2, <2>3, <2>4
<1>3. Workable => defined'
  BY DEF Reached, SessionInv, ArenaOK, BuffersOK, WorkPlaced, L16Bytes,
     EmptyInput, EncodeG711, EncodeL16, EncodeOther
<1> QED
  BY <1>1, <1>2, <1>3, EndKeeps

LEMMA BeginKeeps == ASSUME SessionInv, NEW m \in Inputs, BeginInput(m) PROVE SessionInv'
<1>1. /\ pc = "idle" /\ m.plen >= HdrIn /\ m.n > 0
      /\ mem' = [a \in Cells |-> IF mem[a] = "now" THEN "old" ELSE mem[a]]
      /\ curr' = start /\ start' = start /\ ts' = ts /\ defined' = defined
      /\ pc' = "decode" /\ msg' = m /\ b' = 0 /\ offset' = HdrIn
      /\ first' = NoBuf /\ work' = NoBuf /\ reply' = NoReply
  BY DEF Reached, BeginInput, WorkFrom
<1>2. m.n \in Nat /\ m.plen \in Nat /\ HeaderAt[m][0] = HdrIn
  BY InputParts
<1>3. SettingsOK'
  BY <1>1, SettingsKept DEF SessionInv
<1>6. ArenaOK'
  <2>1. /\ mem \in [Cells -> {"now", "vad", "old"}] /\ start \in Nat /\ start <= VadEnd
        /\ Workable' => defined'
    BY <1>1, WorkableKept DEF SessionInv, ArenaOK
  <2>2. mem' \in [Cells -> {"now", "vad", "old"}]
    BY <1>1, <2>1
  <2> QED
    BY <1>1, <2>1, <2>2, Constants DEF ArenaOK
<1>4. ParserOK'
  BY <1>1, <1>2, Constants DEF SessionInv, ArenaOK, ParserOK
<1>5. BuffersOK' /\ pc' \in Stages
  BY <1>1 DEF BuffersOK, Buffer, NoBuf, Stages
<1> QED
  BY <1>3, <1>4, <1>5, <1>6 DEF SessionInv

LEMMA DecodeKeeps == ASSUME SessionInv, Decode PROVE SessionInv'
<1> PICK at : at = AllocAt(curr)
  OBVIOUS
<1> PICK l : l = Length
  OBVIOUS
<1> PICK d : d = DecodedSize
  OBVIOUS
<1> PICK s : s = Samples
  OBVIOUS
<1>1. /\ pc = "decode" /\ HasBuffer /\ ~NoFrames
      /\ ts.in # "other" /\ DecodeFits(DecodedSize)
      /\ mem' = IF b = 0 THEN DecodedInto(mem, at) ELSE MixedInto(DecodedInto(mem, at), at)
      /\ first' = IF b = 0 THEN [at |-> at, n |-> s] ELSE first
      /\ curr' = at + d /\ offset' = NextOffset /\ b' = b + 1
      /\ UNCHANGED <<ts, start, pc, msg, work, ran, reply>>
      /\ defined' = (/\ defined
                    /\ DataAt + l <= msg.plen
                    /\ at + d <= ArenaSize
                    /\ \/ b = 0
                       \/ /\ first.at + MixedBytes <= ArenaSize
                          /\ at + MixedBytes <= ArenaSize)
  BY DEF Reached, Decode
<1>2. /\ msg \in Inputs /\ b + 1 \in 1..msg.n /\ l \in Nat
      /\ DataAt + l <= msg.plen
      /\ offset' \in Nat /\ offset' = HeaderAt[msg][b + 1]
      /\ offset + HdrBuf + l <= offset' /\ offset' <= msg.plen + PadTo
  BY <1>1, BufferInside
<1>3. /\ b \in Nat /\ offset \in Nat /\ HdrIn <= offset /\ curr \in Nat /\ start \in Nat
      /\ start <= curr /\ start <= VadEnd /\ curr + 2 * HdrIn <= start + 2 * offset
      /\ msg.plen \in Nat /\ msg.n \in Nat /\ reply = NoReply /\ msg.n > 0
      /\ first \in Buffer
  BY <1>1, InputParts DEF SessionInv, ArenaOK, ParserOK, BuffersOK
<1>4. /\ d \in Nat /\ l <= d /\ d <= 2 * l /\ s \in Nat /\ s <= l
  BY <1>1, <1>2, <1>3, Decoded DEF SessionInv
<1>5. at \in Nat /\ curr <= at /\ at < curr + Align
  BY <1>3, Allocated
<1>6. at + d <= ArenaSize
  BY <1>1 DEF DecodeFits, Fits
<1>7. SettingsOK'
  BY <1>1 DEF SessionInv, SettingsOK
<1>8. ParserOK'
  <2>1. curr' + 2 * HdrIn <= start' + 2 * offset'
    <3>1. Align <= 2 * HdrBuf + 1
      BY RoomAssumption
    <3> QED
      BY <1>1, <1>2, <1>3, <1>4, <1>5, <3>1, Constants
  <2>2. b' \in 0..msg.n /\ HdrIn <= offset'
    BY <1>1, <1>2, <1>3, Constants
  <2> QED
    BY <1>1, <1>2, <1>3, <2>1, <2>2 DEF ParserOK
<1>9. BuffersOK'
  <2>1. CASE b = 0
    <3>1. offset = HdrIn
      BY <1>1, <1>2, <2>1, InputParts DEF SessionInv, ParserOK
    <3>2. at < start + Align /\ s <= msg.plen
      BY <1>2, <1>3, <1>4, <1>5, <3>1, Constants DEF DataAt
    <3>3. first' = [at |-> at, n |-> s] /\ first'.at = at /\ first'.n = s /\ first' \in Buffer
      BY <1>1, <1>4, <1>5, <2>1 DEF Buffer
    <3> QED
      BY <1>1, <1>3, <1>5, <2>1, <3>2, <3>3 DEF SessionInv, BuffersOK, FirstPlaced
  <2>2. CASE b # 0
    BY <1>1, <1>3, <2>2 DEF SessionInv, BuffersOK, FirstPlaced
  <2> QED
    BY <2>1, <2>2
<1>10. ArenaOK'
  <2>1. mem' \in [Cells -> {"now", "vad", "old"}]
    <3>1. DecodedInto(mem, at) \in [Cells -> {"now", "vad", "old"}]
      BY DEF SessionInv, ArenaOK, DecodedInto
    <3>2. MixedInto(DecodedInto(mem, at), at) \in [Cells -> {"now", "vad", "old"}]
      BY <3>1 DEF MixedInto
    <3> QED
      BY <1>1, <3>1, <3>2
  <2>2. ASSUME b # 0, Workable
        PROVE  first.at + MixedBytes <= ArenaSize /\ at + MixedBytes <= ArenaSize
    <3> PICK x : x = Lesser(s, first.n)
      OBVIOUS
    <3>0. first.n \in Nat /\ first.at \in Nat
      BY <1>3 DEF Buffer
    <3>1. x \in Nat /\ x <= l /\ x <= first.n /\ first.n \in Nat /\ first.at \in Nat
      <4>1. Lesser(s, first.n) \in Nat /\ Lesser(s, first.n) <= s
            /\ Lesser(s, first.n) <= first.n
        BY <1>4, <3>0, LesserIsLess
      <4> QED
        BY <1>2, <1>4, <3>0, <4>1
    <3>2. first.at < start + Align /\ first.n <= msg.plen
      BY <1>1, <1>3, <2>2 DEF SessionInv, BuffersOK, FirstPlaced
    <3>3. MixedBytes \in Nat /\ MixedBytes <= 4 * x
      <4>1. ts.ic \in 0..255 /\ ts.ic <= 2
        BY <2>2 DEF SessionInv, SettingsOK, TranscodeSession, Workable
      <4>2. x * ts.ic \in Nat /\ x * ts.ic <= 2 * x
        BY <3>1, <4>1, Stereo
      <4>3. MixedBytes = 2 * (x * ts.ic)
        BY <3>1, <4>1 DEF MixedBytes
      <4> QED
        BY <3>1, <4>2, <4>3
    <3>4. VadEnd + Align + 4 * msg.plen <= ArenaSize
      BY <1>2, RoomAssumption
    <3>5. first.at + MixedBytes <= ArenaSize
      BY <1>3, <3>1, <3>2, <3>3, <3>4, Constants
    <3>6. at + MixedBytes <= ArenaSize
      <4>1. offset + HdrBuf + l <= msg.plen
        BY <1>2 DEF DataAt
      <4>2. at < start + 2 * offset + Align
        BY <1>3, <1>5, Constants
      <4> QED
        BY <1>2, <1>3, <1>5, <3>1, <3>3, <3>4, <4>1, <4>2, Constants
    <3> QED
      BY <3>5, <3>6
  <2>3. Workable' => defined'
    <3>1. Workable' <=> Workable
      BY <1>1, WorkableKept
    <3> QED
      BY <1>1, <1>2, <1>6, <2>2, <3>1 DEF SessionInv, ArenaOK
  <2>4. curr' \in Nat /\ start <= curr' /\ curr' <= ArenaSize
    BY <1>1, <1>3, <1>4, <1>5, <1>6, Constants
  <2> QED
    BY <1>1, <1>3, <2>1, <2>3, <2>4 DEF ArenaOK
<1> QED
  BY <1>1, <1>7, <1>8, <1>9, <1>10 DEF SessionInv

\* A session whose transcode session has another probability at most.
LEMMA ProbabilityKeeps ==
    ASSUME SettingsOK, NEW p \in {"zero", "off", "val"}, ts' = [ts EXCEPT !.prob = p]
    PROVE  SettingsOK' /\ ts'.oc = ts.oc /\ (Workable' <=> Workable)
<1>1. ts \in TranscodeSession
  BY DEF SettingsOK
<1>2. ts' \in TranscodeSession
  BY <1>1 DEF TranscodeSession
<1>3. /\ ts'.in = ts.in /\ ts'.ic = ts.ic /\ ts'.oc = ts.oc /\ ts'.inRate = ts.inRate
      /\ ts'.vad = ts.vad /\ ts'.state = ts.state /\ ts'.resample = ts.resample
  BY <1>1 DEF TranscodeSession
<1> QED
  BY <1>2, <1>3, WorkableKept DEF SettingsOK

LEMMA VadProbTyped ==
    ASSUME NEW n, NEW ch PROVE VadProb(n, ch) \in {"zero", "off", "val"}
  BY DEF VadProb

\* The VAD reads no further than the samples it is given.
LEMMA VadReadsLess ==
    ASSUME NEW n \in Nat, NEW ch \in 0..255, ch <= 2
    PROVE  /\ VadReads(n, ch) \in Nat
           /\ VadReads(n, ch) <= 2 * n * ch /\ VadReads(n, ch) <= 4 * n
<1> PICK k : k = (n \div VadFrame) * VadFrame
  OBVIOUS
<1>1. k \in Nat /\ k <= n
  <2>1. n \div VadFrame \in Nat /\ VadFrame \in Nat /\ k <= n
    BY Constants, Quotient
  <2> QED
    BY <2>1
<1>2. ch \in {0, 1, 2}
  OBVIOUS
<1>3. VadReads(n, ch) = 2 * k * ch
  <2>1. n \div VadFrame \in Nat /\ VadFrame \in Nat
    BY Constants, Quotient
  <2> PICK q \in Nat : q = n \div VadFrame
    BY <2>1
  <2>2. 2 * q * VadFrame = 2 * k
    BY <2>1
  <2> QED
    BY <2>2 DEF VadReads
<1> QED
  BY <1>1, <1>2, <1>3

\* When the parser stops, the next buffer, if there is one, leaves the payload.
LEMMA NoBufferLeft ==
    ASSUME SessionInv, pc = "decode", ~HasBuffer
    PROVE  b = msg.n \/ HeaderAt[msg][b] + HdrBuf + msg.lens[b + 1] > msg.plen
<1>1. /\ msg \in Inputs /\ b \in 0..msg.n /\ offset \in Nat /\ offset = HeaderAt[msg][b]
      /\ msg.n \in Nat /\ msg.plen \in Nat /\ msg.plen + ArenaSize < Word
  BY InputParts DEF SessionInv, ParserOK
<1> SUFFICES ASSUME b # msg.n
             PROVE  HeaderAt[msg][b] + HdrBuf + msg.lens[b + 1] > msg.plen
  OBVIOUS
<1>2. b + 1 \in 1..msg.n /\ b < msg.n
  BY <1>1
<1> PICK l : l = msg.lens[b + 1]
  OBVIOUS
<1>3. l \in Nat
  BY <1>1, <1>2, InputParts
<1>4. ~(DataAt <= msg.plen) \/ ~((DataAt + l) % Word <= msg.plen)
  BY <1>2 DEF HasBuffer, Length
<1>5. DataAt \in Nat /\ DataAt = offset + HdrBuf
  BY <1>1, Constants DEF DataAt
<1>6. DataAt + l > msg.plen
  <2>1. CASE DataAt + l < Word
    <3>1. (DataAt + l) % Word = DataAt + l
      BY <1>3, <1>5, <2>1, Constants, SmallModulo
    <3> QED
      BY <1>1, <1>3, <1>4, <1>5, <3>1
  <2>2. CASE DataAt + l >= Word
    BY <1>1, <1>3, <1>5, <2>2, Constants
  <2> QED
    BY <1>3, <1>5, <2>1, <2>2, Constants
<1> QED
  BY <1>1, <1>5, <1>6

\* Once there is audio, its first buffer has room for two channels.
LEMMA FirstInside ==
    ASSUME SessionInv, pc # "idle", FirstPlaced
    PROVE  /\ first.at \in Nat /\ first.n \in Nat /\ start <= first.at
           /\ first.at + 2 * first.n <= ArenaSize
           /\ first.at + 4 * first.n <= ArenaSize
           /\ Workable => first.at + 2 * first.n * ts.oc <= ArenaSize
<1>1. /\ start <= first.at /\ first.at < start + Align /\ first.n <= msg.plen
      /\ start \in Nat /\ start <= VadEnd /\ msg \in Inputs /\ msg.plen \in Nat
      /\ first.n \in Nat /\ first.at \in Nat
  BY InputParts DEF SessionInv, ArenaOK, ParserOK, BuffersOK, Buffer, FirstPlaced
<1>2. first.at + 4 * first.n <= ArenaSize
  <2>1. VadEnd + Align + 4 * msg.plen <= ArenaSize
    BY <1>1, RoomAssumption
  <2> QED
    BY <1>1, <2>1, Constants
<1>3. Workable => ts.oc \in {0, 1, 2}
  BY DEF SessionInv, SettingsOK, TranscodeSession, Workable
<1> QED
  BY <1>1, <1>2, <1>3, Constants

LEMMA VadOnInputKeeps == ASSUME SessionInv, VadOnInput PROVE SessionInv'
<1> DEFINE p == IF VadWanted(ts.inRate) THEN VadProb(first.n, ts.ic) ELSE "off"
<1>1. /\ pc = "decode" /\ ~HasBuffer /\ first.n > 0 /\ pc' = "resample"
      /\ ts' = [ts EXCEPT !.prob = p]
      /\ defined' = (defined /\ (p # "off" =>
                       first.at + VadReads(first.n, ts.ic) <= ArenaSize))
      /\ UNCHANGED <<mem, curr, start, msg, b, offset, first, work, reply>>
  BY DEF Reached, VadOnInput
<1>2. p \in {"zero", "off", "val"}
  BY VadProbTyped
<1> HIDE DEF p
<1>3. SettingsOK' /\ (Workable' <=> Workable)
  BY <1>1, <1>2, ProbabilityKeeps DEF SessionInv
<1>4. b \in Nat /\ b > 0 /\ FirstPlaced
  <2>1. msg.n \in Nat /\ b \in 0..msg.n
    BY <1>1, InputParts DEF SessionInv, ParserOK
  <2>2. b # 0
    BY <1>1 DEF SessionInv, BuffersOK, NoBuf
  <2> QED
    BY <1>1, <2>1, <2>2 DEF SessionInv, BuffersOK
<1>5. Workable => defined'
  <2> SUFFICES ASSUME Workable PROVE defined'
    OBVIOUS
  <2>1. /\ first.at \in Nat /\ first.n \in Nat /\ first.at + 4 * first.n <= ArenaSize
        /\ ts.ic \in 0..255 /\ ts.ic <= 2
    BY <1>1, <1>4, FirstInside DEF SessionInv, SettingsOK, TranscodeSession, Workable
  <2>2. VadReads(first.n, ts.ic) \in Nat /\ VadReads(first.n, ts.ic) <= 4 * first.n
    BY <2>1, VadReadsLess
  <2>3. first.at + VadReads(first.n, ts.ic) <= ArenaSize
    BY <2>1, <2>2, Constants
  <2> QED
    BY <1>1, <2>3 DEF SessionInv, ArenaOK
<1>6. ArenaOK'
  BY <1>1, <1>3, <1>5 DEF SessionInv, ArenaOK
<1>7. ParserOK'
  BY <1>1, NoBufferLeft DEF SessionInv, ParserOK
<1>8. BuffersOK' /\ pc' \in Stages
  BY <1>1, <1>4 DEF SessionInv, BuffersOK, FirstPlaced, Stages
<1> QED
  BY <1>3, <1>6, <1>7, <1>8 DEF SessionInv

\* How many samples resampling yields.
LEMMA ScaledTyped ==
    ASSUME SettingsOK, ts.inRate # 0, NEW n \in Nat
    PROVE  Scaled(n) \in Nat
<1>1. ts.inRate \in Nat \ {0} /\ ts.outRate \in Nat
  BY DEF SettingsOK, TranscodeSession
<1>2. n * ts.outRate \in Nat
  BY <1>1
<1> QED
  BY <1>1, <1>2, Quotient DEF Scaled

LEMMA ResampleKeeps == ASSUME SessionInv, Resample PROVE SessionInv'
<1> PICK at : at = AllocAt(curr)
  OBVIOUS
<1> PICK n : n = Scaled(first.n)
  OBVIOUS
<1> PICK tag : tag = IF Own(mem, first.at, 2 * first.n) THEN "now" ELSE "old"
  OBVIOUS
<1>1. /\ pc = "resample" /\ ts.resample /\ ts.inRate # 0 /\ pc' = "vad"
      /\ at + 2 * (n + Slack) * ts.oc <= ArenaSize
      /\ work' = [at |-> at, n |-> n]
      /\ mem' = [a \in Cells |-> IF a \in at..(at + 2 * n - 1) THEN tag ELSE mem[a]]
      /\ curr' = at + 2 * (n + Slack) * ts.oc
      /\ defined' = (/\ defined
                    /\ first.at + 2 * first.n <= ArenaSize
                    /\ at + 2 * n <= ArenaSize)
      /\ UNCHANGED <<ts, start, msg, b, offset, first, ran, reply>>
  BY DEF Reached, Resample, OutCap, Fits
<1>2. /\ FirstPlaced /\ b > 0 /\ first.n > 0 /\ first \in Buffer /\ first.n \in Nat
  BY <1>1 DEF SessionInv, BuffersOK, Buffer
<1>3. first.at + 2 * first.n <= ArenaSize
  BY <1>1, <1>2, FirstInside
<1>4. curr \in Nat /\ start \in Nat /\ start <= curr
  BY DEF SessionInv, ArenaOK
<1>5. at \in Nat /\ curr <= at
  BY <1>4, Allocated
<1>6. n \in Nat
  BY <1>1, <1>2, ScaledTyped DEF SessionInv
<1>7. Workable => ts.oc \in {1, 2}
  BY <1>1 DEF SessionInv, SettingsOK, TranscodeSession, Workable
<1>13. curr' \in Nat /\ at <= curr' /\ curr' <= ArenaSize
  <2>1. 2 * (n + Slack) * ts.oc \in Nat
    <3>1. ts.oc \in Nat /\ 2 * (n + Slack) \in Nat
      BY <1>6, Constants DEF SessionInv, SettingsOK, TranscodeSession
    <3> QED
      BY <3>1
  <2> PICK x \in Nat : x = 2 * (n + Slack) * ts.oc
    BY <2>1
  <2> QED
    BY <1>1, <1>5
<1>8. Workable => at + 2 * n <= ArenaSize /\ at + 2 * n * ts.oc <= ArenaSize
  BY <1>1, <1>5, <1>6, <1>7, Constants
<1>14. Workable' <=> Workable
  BY <1>1, WorkableKept
<1>9. SettingsOK'
  BY <1>1, SettingsKept DEF SessionInv
<1>10. ArenaOK'
  <2>1. mem' \in [Cells -> {"now", "vad", "old"}]
    BY <1>1 DEF SessionInv, ArenaOK
  <2>2. (Workable => defined') /\ start <= VadEnd
    BY <1>1, <1>3, <1>8 DEF SessionInv, ArenaOK
  <2> QED
    BY <1>1, <1>4, <1>5, <1>13, <1>14, <2>1, <2>2 DEF ArenaOK
<1>11. ParserOK'
  BY <1>1 DEF SessionInv, ParserOK
<1>12. BuffersOK' /\ pc' \in Stages
  <2>1. work' \in Buffer /\ work'.at = at /\ work'.n = n
    BY <1>1, <1>5, <1>6 DEF Buffer
  <2>2. WorkPlaced'
    BY <1>1, <1>4, <1>5, <1>8, <1>14, <2>1 DEF WorkPlaced
  <2>3. FirstPlaced'
    BY <1>1, <1>2 DEF FirstPlaced
  <2> QED
    BY <1>1, <1>2, <2>1, <2>2, <2>3 DEF BuffersOK, Stages
<1> QED
  BY <1>9, <1>10, <1>11, <1>12 DEF SessionInv

LEMMA SameRateKeeps == ASSUME SessionInv, SameRate PROVE SessionInv'
<1>1. /\ pc = "resample" /\ work' = first /\ pc' = "vad"
      /\ UNCHANGED <<ts, mem, curr, start, msg, b, offset, first, ran, reply, defined>>
  BY DEF Reached, SameRate
<1>2. FirstPlaced /\ b > 0 /\ first.n > 0 /\ first \in Buffer
  BY <1>1 DEF SessionInv, BuffersOK
<1>3. WorkPlaced' /\ FirstPlaced'
  <2>1. /\ start <= first.at /\ first.at + 2 * first.n <= ArenaSize
        /\ Workable => first.at + 2 * first.n * ts.oc <= ArenaSize
    BY <1>1, <1>2, FirstInside
  <2> QED
    BY <1>1, <1>2, <2>1, WorkableKept DEF WorkPlaced, FirstPlaced
<1>4. SettingsOK'
  BY <1>1, SettingsKept DEF SessionInv
<1>5. ArenaOK' /\ ParserOK'
  BY <1>1, WorkableKept DEF SessionInv, ArenaOK, ParserOK
<1>6. BuffersOK' /\ pc' \in Stages
  BY <1>1, <1>2, <1>3 DEF BuffersOK, Stages
<1> QED
  BY <1>4, <1>5, <1>6 DEF SessionInv

LEMMA VadOnOutputKeeps == ASSUME SessionInv, VadOnOutput PROVE SessionInv'
<1> PICK again : again = (VadWanted(ts.outRate) /\ NotYet)
  OBVIOUS
<1>1. /\ pc = "vad" /\ pc' = "encode"
      /\ ts' = IF again THEN [ts EXCEPT !.prob = VadProb(work.n, ts.oc)] ELSE ts
      /\ defined \/ ~defined'
      /\ defined /\ work.at + VadReads(work.n, ts.oc) <= ArenaSize => defined'
      /\ UNCHANGED <<mem, curr, start, msg, b, offset, first, work, reply>>
  BY DEF Reached, VadOnOutput
<1>2. /\ FirstPlaced /\ b > 0 /\ first.n > 0 /\ first \in Buffer
      /\ WorkPlaced /\ work \in Buffer
  BY <1>1 DEF SessionInv, BuffersOK
<1>3. SettingsOK' /\ ts'.oc = ts.oc /\ (Workable' <=> Workable)
  <2>1. CASE again
    BY <1>1, <2>1, VadProbTyped, ProbabilityKeeps DEF SessionInv
  <2>2. CASE ~again
    BY <1>1, <2>2, SettingsKept, WorkableKept DEF SessionInv
  <2> QED
    BY <2>1, <2>2
<1>4. Workable => defined'
  <2> SUFFICES ASSUME Workable PROVE defined'
    OBVIOUS
  <2>1. /\ work.at \in Nat /\ work.n \in Nat /\ ts.oc \in {0, 1, 2}
        /\ work.at + 2 * work.n * ts.oc <= ArenaSize
    BY <1>2 DEF SessionInv, SettingsOK, TranscodeSession, Workable, WorkPlaced, Buffer
  <2>2. VadReads(work.n, ts.oc) \in Nat /\ VadReads(work.n, ts.oc) <= 2 * work.n * ts.oc
    <3> PICK n \in Nat : n = work.n
      BY <2>1
    <3> PICK ch \in 0..255 : ch = ts.oc /\ ch <= 2
      BY <2>1
    <3> QED
      BY VadReadsLess
  <2>3. work.at + VadReads(work.n, ts.oc) <= ArenaSize
    BY <2>1, <2>2, Constants
  <2> QED
    BY <1>1, <2>3 DEF SessionInv, ArenaOK
<1>5. ArenaOK' /\ ParserOK'
  BY <1>1, <1>3, <1>4 DEF SessionInv, ArenaOK, ParserOK
<1>6. FirstPlaced' /\ WorkPlaced'
  BY <1>1, <1>2, <1>3 DEF FirstPlaced, WorkPlaced
<1>7. BuffersOK' /\ pc' \in Stages
  BY <1>1, <1>2, <1>6 DEF BuffersOK, Stages
<1> QED
  BY <1>3, <1>5, <1>7 DEF SessionInv

\* Only with settings that are not workable is anything divided by zero.
LEMMA DivisionKeeps == ASSUME SessionInv, DividesByZero PROVE SessionInv'
<1>1. UNCHANGED <<ts, mem, curr, start, pc, msg, b, offset, first, work, reply>>
  BY DEF Reached, DividesByZero, pipeline
<1>2. ~Workable
  BY DEF Reached, DividesByZero, NoFrames, Workable
<1>3. SettingsOK'
  BY <1>1, SettingsKept DEF SessionInv
<1>4. ArenaOK' /\ ParserOK'
  BY <1>1, <1>2, WorkableKept DEF SessionInv, ArenaOK, ParserOK
<1>5. BuffersOK' /\ pc' \in Stages
  BY <1>1, WorkableKept DEF SessionInv, BuffersOK, FirstPlaced, WorkPlaced, Stages
<1> QED
  BY <1>3, <1>4, <1>5 DEF SessionInv

LEMMA SessionStep == SessionInv /\ [Next]_vars => SessionInv'
<1> SUFFICES ASSUME SessionInv, [Next]_vars PROVE SessionInv'
  OBVIOUS
<1>1. ASSUME NEW c \in Configs, Start(c) PROVE SessionInv'
  BY <1>1, StartKeeps
<1>2. CASE Stop \/ RejectShort
  BY <1>2, StopKeeps
<1>3. CASE EmptyInput \/ EncodeG711 \/ EncodeL16 \/ EncodeOther
  BY <1>3, AnswerKeeps
<1>4. ASSUME NEW m \in Inputs, BeginInput(m) PROVE SessionInv'
  BY <1>4, BeginKeeps
<1>5. CASE Decode
  BY <1>5, DecodeKeeps
<1>6. CASE DecodeFails \/ NothingDecoded \/ ResampleFails \/ EncodeFails
  BY <1>6, FailKeeps
<1>7. CASE VadOnInput
  BY <1>7, VadOnInputKeeps
<1>8. CASE Resample
  BY <1>8, ResampleKeeps
<1>9. CASE SameRate
  BY <1>9, SameRateKeeps
<1>10. CASE VadOnOutput
  BY <1>10, VadOnOutputKeeps
<1>11. CASE UNCHANGED vars
  <2>1. UNCHANGED <<ts, mem, curr, start, pc, msg, b, offset, first, work, reply, defined>>
    BY <1>11 DEF vars, pipeline
  <2>2. SettingsOK'
    BY <2>1, SettingsKept DEF SessionInv
  <2>3. ArenaOK' /\ ParserOK'
    BY <2>1, WorkableKept DEF SessionInv, ArenaOK, ParserOK
  <2>4. BuffersOK' /\ pc' \in Stages
    BY <2>1, WorkableKept DEF SessionInv, BuffersOK, FirstPlaced, WorkPlaced, Stages
  <2> QED
    BY <2>2, <2>3, <2>4 DEF SessionInv
<1>12. CASE DividesByZero
  BY <1>12, DivisionKeeps
<1> QED
  BY <1>1, <1>2, <1>3, <1>4, <1>5, <1>6, <1>7, <1>8, <1>9, <1>10, <1>11, <1>12
  DEF Next, Undefined

LEMMA SessionInvariant == Spec => []SessionInv
  BY SessionInit, SessionStep, PTL DEF Spec

-------------------------------------------------------------------------------
(***************************************************************************)
(* The parser and the accesses.                                            *)
(***************************************************************************)
\* THEOREM: whenever protocol_parse_next_buffer looks at a header it is where the
\* protocol puts the next one, and no buffer inside the payload is left out
\* (parser.c:38-79, transcode.c:105-157).
THEOREM BuffersAreParsed == Spec => []ParsesEveryBuffer
<1>1. SessionInv => ParsesEveryBuffer
  BY DEF SessionInv, ParserOK, ParsesEveryBuffer
<1> QED
  BY <1>1, SessionInvariant, PTL

\* THEOREM: with at most two channels, and rates and channels that are not zero where
\* they are divided by, no stage of audio_process_transcode reads or writes outside
\* the arena and no buffer is read outside the payload, although the mixer, the VAD
\* and the encoder check no bounds; and no settings use the arena up beyond its end
\* (transcode.c:105-229).
THEOREM NoAccessOutside == Spec => []AccessesInside
<1>1. SessionInv => AccessesInside
  BY DEF SessionInv, ArenaOK, AccessesInside
<1> QED
  BY <1>1, SessionInvariant, PTL

-------------------------------------------------------------------------------
(***************************************************************************)
(* The VAD state.                                                          *)
(***************************************************************************)

\* What an INPUT computes is written behind the start of the work area.
LEMMA WritesBehind ==
    ASSUME SessionInv, Decode \/ Resample \/ EncodeG711 \/ EncodeL16
    PROVE  \A x \in Cells : x < start => mem'[x] = mem[x]
<1>1. start \in Nat /\ curr \in Nat /\ start <= curr /\ AllocAt(curr) \in Nat
      /\ curr <= AllocAt(curr) /\ Cells \subseteq Nat
  BY Allocated DEF SessionInv, ArenaOK, Cells
<1> SUFFICES ASSUME NEW x \in Cells, x < start PROVE mem'[x] = mem[x]
  OBVIOUS
<1>2. x \in Nat
  BY <1>1
<1>3. CASE Decode
  <2> PICK at : at = AllocAt(curr)
    OBVIOUS
  <2>1. ~(x \in at..(at + DecodedSize - 1))
    BY <1>1, <1>2
  <2>2. DecodedInto(mem, at)[x] = mem[x]
    BY <2>1 DEF DecodedInto
  <2>3. CASE b = 0
    BY <1>3, <2>2, <2>3 DEF Reached, Decode
  <2>4. CASE b # 0
    <3>1. first.at \in Nat /\ start <= first.at
      <4>1. b \in Nat /\ pc = "decode"
        BY <1>3, InputParts DEF Reached, Decode, SessionInv, ParserOK
      <4> QED
        BY <2>4, <4>1 DEF SessionInv, BuffersOK, Buffer, FirstPlaced
    <3>2. ~(x \in first.at..(first.at + MixedBytes - 1))
      BY <1>1, <1>2, <3>1
    <3>3. MixedInto(DecodedInto(mem, at), at)[x] = DecodedInto(mem, at)[x]
      BY <3>2 DEF MixedInto
    <3> QED
      BY <1>3, <2>2, <2>4, <3>3 DEF Reached, Decode
  <2> QED
    BY <2>3, <2>4
<1>4. CASE Resample
  <2> PICK at : at = AllocAt(curr)
    OBVIOUS
  <2>1. ~(x \in at..(at + 2 * Scaled(first.n) - 1))
    BY <1>1, <1>2
  <2> QED
    BY <1>4, <2>1 DEF Reached, Resample
<1>5. ASSUME NEW len, NEW width PROVE Moved(len, width)[x] = mem[x]
  <2>1. ~(x \in start..(start + len - 1))
    BY <1>1, <1>2
  <2> QED
    BY <2>1 DEF Moved
<1>6. CASE EncodeG711
  BY <1>5, <1>6 DEF Reached, EncodeG711
<1>7. CASE EncodeL16
  BY <1>5, <1>7 DEF Reached, EncodeL16
<1> QED
  BY <1>3, <1>4, <1>6, <1>7

\* THEOREM: as long as a session has a VAD state, no message of it writes there:
\* CMD_START puts the start of the work area behind it, and work buffers, mixing and
\* the output moved to the front all stay behind that start (server.c:216-223, 233).
THEOREM VadStateIsKept == Spec => []VadStateIntact
<1>1. VadRegion \subseteq Cells /\ \A x \in VadRegion : x \in Nat /\ x < VadEnd
  BY Constants DEF VadRegion, Cells
<1>2. Init => VadStateIntact
  BY DEF Init, Zeroed, VadStateIntact
<1>3. SessionInv /\ VadStateIntact /\ [Next]_vars => VadStateIntact'
  <2> SUFFICES ASSUME SessionInv, VadStateIntact, [Next]_vars PROVE VadStateIntact'
    OBVIOUS
  <2>0. start \in Nat /\ ts \in TranscodeSession /\ mem \in [Cells -> {"now", "vad", "old"}]
    BY DEF SessionInv, ArenaOK, SettingsOK
  <2>1. ASSUME NEW c \in Configs, Start(c) PROVE VadStateIntact'
    <3>1. ts' = [Configured(c) EXCEPT !.state = c.vad] /\ ts'.state = c.vad
      BY <2>1 DEF Reached, Start, Configured
    <3>2. CASE c.vad
      <4>1. start' = VadEnd
            /\ mem' = [a \in Cells |-> IF a \in VadRegion THEN "vad" ELSE mem[a]]
        BY <2>1, <3>2 DEF Reached, Start, ProtectedStart
      <4> QED
        BY <1>1, <4>1, Constants DEF VadStateIntact
    <3>3. CASE ~c.vad
      BY <3>1, <3>3 DEF VadStateIntact
    <3> QED
      BY <3>2, <3>3
  <2>2. CASE Stop
    BY <2>2 DEF Reached, Stop, Zeroed, VadStateIntact
  <2>3. ASSUME ts'.state = ts.state, start' = start,
               \A x \in VadRegion : mem[x] = "vad" => mem'[x] = "vad"
        PROVE  VadStateIntact'
    BY <2>3 DEF VadStateIntact
  <2>4. CASE RejectShort \/ EmptyInput \/ EncodeOther \/ SameRate \/ UNCHANGED vars
             \/ DecodeFails \/ NothingDecoded \/ ResampleFails \/ EncodeFails
             \/ DividesByZero
    <3>1. ts' = ts /\ start' = start /\ mem' = mem
      BY <2>4 DEF Reached, RejectShort, EmptyInput, EncodeOther, SameRate, DecodeFails,
         NothingDecoded, ResampleFails, EncodeFails, DividesByZero, vars
    <3> QED
      BY <2>3, <3>1
  <2>5. ASSUME NEW m \in Inputs, BeginInput(m) PROVE VadStateIntact'
    BY <1>1, <2>3, <2>5 DEF Reached, BeginInput
  <2>6. CASE VadOnInput \/ VadOnOutput
    <3>1. ts'.state = ts.state /\ start' = start /\ mem' = mem
      BY <2>0, <2>6 DEF Reached, VadOnInput, VadOnOutput, TranscodeSession
    <3> QED
      BY <2>3, <3>1
  <2>7. CASE Decode \/ Resample \/ EncodeG711 \/ EncodeL16
    <3>1. ts' = ts /\ start' = start
      BY <2>7 DEF Reached, Decode, Resample, EncodeG711, EncodeL16
    <3>2. CASE ts.state
      <4>1. VadEnd <= start
        BY <2>0, <3>2, Constants DEF VadStateIntact
      <4>2. \A x \in VadRegion : x \in Cells /\ x < start
        BY <1>1, <2>0, <4>1, Constants
      <4>3. \A x \in VadRegion : mem'[x] = mem[x]
        BY <2>7, <4>2, WritesBehind
      <4> QED
        BY <2>3, <3>1, <4>3
    <3>3. CASE ~ts.state
      BY <3>1, <3>3 DEF VadStateIntact
    <3> QED
      BY <3>2, <3>3
  <2> QED
    BY <2>1, <2>2, <2>4, <2>5, <2>6, <2>7 DEF Next, Undefined
<1> QED
  BY <1>2, <1>3, SessionInvariant, PTL DEF Spec

-------------------------------------------------------------------------------
(***************************************************************************)
(* How often the VAD runs.                                                 *)
(***************************************************************************)

\* What the history and the probability are from the first place on where the VAD
\* may run to the reply.
Channels == ts.ic > 0 /\ ts.oc > 0
VadSoFar ==
    /\ pc \in {"resample", "vad"} =>
          /\ ran \in {0, 1} /\ (ran = 0 <=> ts.prob = "off")
          /\ ran = 1 => VadWanted(ts.inRate)
          /\ VadWanted(ts.inRate) /\ Channels => ran = 1
    /\ pc = "encode" =>
          /\ ran \in {0, 1} /\ (ran = 0 <=> ts.prob = "off")
          /\ ran = 1 => VadDue
          /\ VadDue /\ Channels => ran = 1 \/ work.n = 0
VadInv == VadRunsOnce /\ VadSoFar

LEMMA NothingToRunOn ==
    ASSUME NEW n \in Nat, NEW ch \in Nat, ch > 0
    PROVE  VadProb(n, ch) = "off" => n = 0
  BY DEF VadProb

\* Where nothing is replied and no stage entered, there is nothing to show.
LEMMA NoReplyNoRun ==
    ASSUME reply'.kind # "output" \/ reply'.to.n = 0, pc' \in {"idle", "decode"}
    PROVE  VadInv'
<1>1. VadRunsOnce'
  <2>1. reply'.to.n = 0 => ~(reply'.to.n > 0)
    OBVIOUS
  <2> QED
    BY <2>1 DEF VadRunsOnce
<1>2. VadSoFar'
  BY DEF VadSoFar
<1> QED
  BY <1>1, <1>2 DEF VadInv

LEMMA VadOnInputRuns == ASSUME SessionInv, VadOnInput PROVE VadInv'
<1> PICK p : p = IF VadWanted(ts.inRate) THEN VadProb(first.n, ts.ic) ELSE "off"
  OBVIOUS
<1>1. /\ pc = "decode" /\ first.n > 0 /\ first.n \in Nat /\ reply = NoReply
      /\ ts \in TranscodeSession
  BY DEF Reached, VadOnInput, SessionInv, SettingsOK, ParserOK, BuffersOK, Buffer
<1>2. /\ ts' = [ts EXCEPT !.prob = p] /\ ran' = (IF p = "off" THEN 0 ELSE 1)
      /\ pc' = "resample" /\ reply' = reply
  BY DEF Reached, VadOnInput
<1>3. /\ ts'.inRate = ts.inRate /\ ts'.vad = ts.vad /\ ts'.state = ts.state
      /\ ts'.ic = ts.ic /\ ts'.oc = ts.oc /\ ts'.prob = p
  BY <1>1, <1>2 DEF TranscodeSession
<1>4. VadWanted(ts.inRate) /\ Channels => p # "off"
  <2> SUFFICES ASSUME VadWanted(ts.inRate), Channels PROVE VadProb(first.n, ts.ic) # "off"
    OBVIOUS
  <2>1. ts.ic \in Nat /\ ts.ic > 0
    BY <1>1 DEF Channels, TranscodeSession
  <2> QED
    BY <1>1, <2>1, NothingToRunOn
<1>5. p # "off" => VadWanted(ts.inRate)
  OBVIOUS
<1>6. VadSoFar'
  BY <1>2, <1>3, <1>4, <1>5 DEF VadSoFar, VadWanted, Channels
<1>7. VadRunsOnce'
  BY <1>1, <1>2 DEF VadRunsOnce, NoReply, Without
<1> QED
  BY <1>6, <1>7 DEF VadInv

LEMMA VadOnOutputRuns == ASSUME SessionInv, VadInv, VadOnOutput PROVE VadInv'
<1> PICK again \in BOOLEAN : again = (VadWanted(ts.outRate) /\ NotYet)
  OBVIOUS
<1> PICK p : p = VadProb(work.n, ts.oc)
  OBVIOUS
<1>1. /\ pc = "vad" /\ work.n \in Nat /\ reply = NoReply
      /\ ts \in TranscodeSession /\ (ts.state => ts.vad)
  BY DEF Reached, VadOnOutput, SessionInv, SettingsOK, ParserOK, BuffersOK, Buffer
<1>2. /\ ts' = (IF again THEN [ts EXCEPT !.prob = p] ELSE ts)
      /\ ran' = (IF again /\ p # "off" THEN ran + 1 ELSE ran)
      /\ pc' = "encode" /\ UNCHANGED <<work, reply>>
  BY DEF Reached, VadOnOutput
<1>3. /\ ts'.inRate = ts.inRate /\ ts'.outRate = ts.outRate /\ ts'.state = ts.state
      /\ ts'.ic = ts.ic /\ ts'.oc = ts.oc
      /\ again => ts'.prob = p
      /\ ~again => ts'.prob = ts.prob
  BY <1>1, <1>2 DEF TranscodeSession
<1>4. (VadDue' <=> VadDue) /\ (Channels' <=> Channels)
  BY <1>3 DEF VadDue, Channels
<1>5. /\ ran \in {0, 1} /\ (ran = 0 <=> ts.prob = "off")
      /\ ran = 1 => VadWanted(ts.inRate)
      /\ VadWanted(ts.inRate) /\ Channels => ran = 1
  BY <1>1 DEF VadInv, VadSoFar
<1>6. VadDue <=> VadWanted(ts.inRate) \/ VadWanted(ts.outRate)
  BY <1>1 DEF VadDue, VadWanted
<1>7. Channels /\ p = "off" => work.n = 0
  <2> SUFFICES ASSUME Channels PROVE p = "off" => work.n = 0
    OBVIOUS
  <2>1. ts.oc \in Nat /\ ts.oc > 0
    BY <1>1 DEF Channels, TranscodeSession
  <2> QED
    BY <1>1, <2>1, NothingToRunOn
<1>8. /\ ran' \in {0, 1} /\ (ran' = 0 <=> ts'.prob = "off")
      /\ ran' = 1 => VadDue
      /\ VadDue /\ Channels => ran' = 1 \/ work.n = 0
  <2>1. CASE again
    <3>1. ran = 0 /\ VadDue
      BY <1>5, <1>6, <2>1 DEF NotYet
    <3> QED
      BY <1>2, <1>3, <1>7, <2>1, <3>1
  <2>2. CASE ~again
    <3>1. ran' = ran /\ ts'.prob = ts.prob
      BY <1>2, <1>3, <2>2
    <3>2. VadDue /\ Channels => ran = 1
      BY <1>5, <1>6, <2>2 DEF NotYet
    <3> QED
      BY <1>5, <1>6, <3>1, <3>2
  <2> QED
    BY <2>1, <2>2
<1>9. VadSoFar'
  BY <1>2, <1>4, <1>8 DEF VadSoFar
<1>10. VadRunsOnce'
  BY <1>1, <1>2 DEF VadRunsOnce, NoReply, Without
<1> QED
  BY <1>9, <1>10 DEF VadInv

LEMMA EmptyAnswer ==
    ASSUME NEW m, NEW end, NEW prob, Answer(m, end, prob), end = start, start \in Nat
    PROVE  reply'.data = {}
<1>1. reply'.data = {m[a] : a \in start..(end - 1)} \/ reply'.data = {}
  BY DEF Answer
<1>2. start..(end - 1) = {}
  OBVIOUS
<1> QED
  BY <1>1, <1>2

\* An answer carries what the VAD did; nothing to run on is nothing to send.
LEMMA AnswerTellsVad ==
    ASSUME SessionInv, VadInv, EncodeG711 \/ EncodeL16 \/ EncodeOther
    PROVE  VadInv'
<1>1. /\ pc = "encode" /\ pc' = "idle" /\ ts' = ts
      /\ ran \in {0, 1} /\ (ran = 0 <=> ts.prob = "off")
      /\ ran = 1 => VadDue
      /\ VadDue /\ Channels => ran = 1 \/ work.n = 0
      /\ reply'.ran = ran /\ reply'.prob = ts.prob
  BY DEF Reached, EncodeG711, EncodeL16, EncodeOther, Answer, VadInv, VadSoFar
<1>2. work.n = 0 => reply'.data = {} \/ ts.out = "other"
  <2> SUFFICES ASSUME work.n = 0 PROVE reply'.data = {} \/ ts.out = "other"
    OBVIOUS
  <2>0. start \in Nat /\ ts.oc \in Nat
    BY DEF SessionInv, ArenaOK, SettingsOK, TranscodeSession
  <2>1. CASE EncodeOther
    BY <2>1 DEF Reached, EncodeOther
  <2> PICK m : m = mem'
    OBVIOUS
  <2>2. CASE EncodeG711
    <3>1. Answer(m, start + work.n, ts.prob)
      BY <2>2 DEF Reached, EncodeG711
    <3> QED
      BY <2>0, <3>1, EmptyAnswer
  <2>3. CASE EncodeL16
    <3>1. Answer(m, start + L16Bytes, ts.prob)
      BY <2>3 DEF Reached, EncodeL16
    <3>2. start + L16Bytes = start
      BY <2>0 DEF L16Bytes
    <3> QED
      BY <2>0, <3>1, <3>2, EmptyAnswer
  <2> QED
    BY <2>1, <2>2, <2>3
<1>3. (VadDue' <=> VadDue) /\ ts'.ic = ts.ic /\ ts'.oc = ts.oc /\ ts'.out = ts.out
  BY <1>1 DEF VadDue
<1>4. VadRunsOnce'
  BY <1>1, <1>2, <1>3 DEF VadRunsOnce, Channels
<1>5. VadSoFar'
  BY <1>1 DEF VadSoFar
<1> QED
  BY <1>4, <1>5 DEF VadInv

\* THEOREM: the VAD runs once for an INPUT that is answered, on the input or on the
\* output, if it is to run, and the reply's probability tells (transcode.c:163-201).
THEOREM VadIsRunOnce == Spec => []VadRunsOnce
<1>1. Init => VadInv
  BY DEF Init, VadInv, VadRunsOnce, VadSoFar, NoReply, Without
<1>2. SessionInv /\ VadInv /\ [Next]_vars => VadInv'
  <2> SUFFICES ASSUME SessionInv, VadInv, [Next]_vars PROVE VadInv'
    OBVIOUS
  <2>1. ASSUME NEW c \in Configs, Start(c) PROVE VadInv'
    <3>1. pc' = "idle" /\ reply' = NoReply
      BY <2>1 DEF Reached, Start, pipeline
    <3> QED
      BY <3>1, NoReplyNoRun DEF NoReply, Without
  <2>2. CASE Stop \/ RejectShort
    <3>1. pc' = "idle" /\ reply'.kind # "output"
      BY <2>2 DEF Reached, Stop, RejectShort, pipeline, NoReply, Without
    <3> QED
      BY <3>1, NoReplyNoRun
  <2>3. CASE EmptyInput
    <3>1. pc' = "idle" /\ reply'.to = NoMsg
      BY <2>3 DEF Reached, EmptyInput, Answer, SessionInv, ParserOK
    <3> QED
      BY <3>1, NoReplyNoRun DEF NoMsg
  <2>4. ASSUME NEW m \in Inputs, BeginInput(m) PROVE VadInv'
    BY <2>4, NoReplyNoRun DEF Reached, BeginInput, NoReply, Without
  <2>5. CASE Decode
    <3>1. pc' = "decode" /\ reply' = NoReply
      BY <2>5 DEF Reached, Decode, SessionInv, ParserOK
    <3> QED
      BY <3>1, NoReplyNoRun DEF NoReply, Without
  <2>6. CASE DecodeFails \/ NothingDecoded \/ ResampleFails \/ EncodeFails
    <3>1. pc' = "idle" /\ reply'.kind = "processing_failed"
      BY <2>6 DEF Reached, DecodeFails, NothingDecoded, ResampleFails, EncodeFails, Fail,
         Without
    <3> QED
      BY <3>1, NoReplyNoRun
  <2>7. CASE VadOnInput
    BY <2>7, VadOnInputRuns
  <2>8. CASE Resample \/ SameRate
    <3>1. pc = "resample" /\ pc' = "vad" /\ UNCHANGED <<ts, ran, reply>>
      BY <2>8 DEF Reached, Resample, SameRate
    <3> QED
      BY <3>1 DEF VadInv, VadRunsOnce, VadSoFar, VadWanted, VadDue, Channels
  <2>9. CASE VadOnOutput
    BY <2>9, VadOnOutputRuns
  <2>10. CASE EncodeG711 \/ EncodeL16 \/ EncodeOther
    BY <2>10, AnswerTellsVad
  <2>11. CASE UNCHANGED vars
    BY <2>11 DEF vars, pipeline, VadInv, VadRunsOnce, VadSoFar, VadWanted, VadDue, Channels
  <2>12. CASE DividesByZero
    BY <2>12 DEF Reached, DividesByZero, pipeline, VadInv, VadRunsOnce, VadSoFar,
       VadWanted, VadDue,
       Channels
  <2> QED
    BY <2>1, <2>2, <2>3, <2>4, <2>5, <2>6, <2>7, <2>8, <2>9, <2>10, <2>11, <2>12
    DEF Next, Undefined
<1>3. VadInv => VadRunsOnce
  BY DEF VadInv
<1> QED
  BY <1>1, <1>2, <1>3, SessionInvariant, PTL DEF Spec

-------------------------------------------------------------------------------
(***************************************************************************)
(* Whose audio a reply carries.                                            *)
(***************************************************************************)

\* The sessions and INPUTs OutputIsOwn is about, and how far their buffers hold
\* nothing but audio of the INPUT: the encoder reads no further.
OwnClaim(m) ==
    KnownCodecs /\ Workable /\ (PassedOn \/ (Mono /\ (ts.in = "g711" => WholeBlocks(m))))
FirstBytes == IF ts.in = "l16" THEN 2 * first.n * ts.ic ELSE 2 * first.n
WorkBytes == IF PassedOn THEN 2 * work.n * ts.oc ELSE 2 * work.n
AudioOwn ==
    OwnClaim(msg) =>
        /\ (pc = "decode" /\ b > 0) \/ pc = "resample" => Own(mem, first.at, FirstBytes)
        /\ pc \in {"vad", "encode"} => Own(mem, work.at, WorkBytes)
OwnInv == OutputIsOwn /\ AudioOwn

\* What lies inside an area of own audio is own audio.
LEMMA OwnPart ==
    ASSUME NEW m, NEW at \in Nat, NEW n \in Nat, Own(m, at, n),
           NEW c \in Nat, NEW k \in Nat, at <= c, c + k <= at + n
    PROVE  Own(m, c, k)
<1>1. \A a \in c..(c + k - 1) : a \in at..(at + n - 1)
  OBVIOUS
<1> QED
  BY <1>1 DEF Own

LEMMA NothingToOwn ==
    ASSUME reply'.kind # "output" \/ reply'.to.n = 0,
           pc' = "idle" \/ (pc' = "decode" /\ b' = 0)
    PROVE  OwnInv'
<1>1. OutputIsOwn'
  <2>1. reply'.to.n = 0 => ~(reply'.to.n > 0)
    OBVIOUS
  <2> QED
    BY <2>1 DEF OutputIsOwn
<1>2. AudioOwn'
  BY DEF AudioOwn
<1> QED
  BY <1>1, <1>2 DEF OwnInv

\* Every buffer of such an INPUT is decoded.
LEMMA OwnDecodes ==
    ASSUME OwnClaim(msg), msg \in Inputs, b \in Nat, b + 1 \in 1..msg.n
    PROVE  Decodes /\ ts.in # "other" /\ (ts.in = "g711" => ts.ic <= 1)
<1>1. ts.in \in {"g711", "l16"}
  BY DEF OwnClaim, KnownCodecs
<1>2. CASE ts.in = "l16"
  BY <1>2 DEF Decodes
<1>3. CASE ts.in = "g711"
  <2>1. Mono /\ WholeBlocks(msg)
    BY <1>3 DEF OwnClaim, PassedOn
  <2>2. b + 1 \in DOMAIN msg.lens
    BY InputParts
  <2> QED
    BY <1>3, <2>1, <2>2 DEF Decodes, WholeBlocks, Mono, Length
<1> QED
  BY <1>1, <1>2, <1>3

LEMMA DecodeOwns == ASSUME SessionInv, OwnInv, Decode PROVE OwnInv'
<1> PICK at : at = AllocAt(curr)
  OBVIOUS
<1> PICK d : d = DecodedSize
  OBVIOUS
<1> PICK s : s = Samples
  OBVIOUS
<1>1. /\ pc = "decode" /\ HasBuffer /\ ~NoFrames
      /\ ts.in # "other" /\ DecodeFits(DecodedSize)
      /\ mem' = IF b = 0 THEN DecodedInto(mem, at) ELSE MixedInto(DecodedInto(mem, at), at)
      /\ first' = IF b = 0 THEN [at |-> at, n |-> s] ELSE first
      /\ b' = b + 1 /\ UNCHANGED <<ts, pc, msg, reply>>
  BY DEF Reached, Decode
<1>2. /\ msg \in Inputs /\ b + 1 \in 1..msg.n /\ Length \in Nat
  BY <1>1, BufferInside
<1>3. /\ b \in Nat /\ curr \in Nat /\ reply = NoReply /\ first \in Buffer
      /\ ts \in TranscodeSession
  BY <1>1, InputParts DEF SessionInv, SettingsOK, ArenaOK, ParserOK, BuffersOK
<1>4. /\ d \in Nat /\ s \in Nat /\ 2 * s <= d /\ (ts.in = "l16" => 2 * (s * ts.ic) <= d)
  BY <1>1, <1>2, <1>3, Decoded DEF SessionInv
<1>5. at \in Nat /\ at + d <= ArenaSize
  BY <1>1, <1>3, Allocated DEF DecodeFits, Fits
<1>6. OutputIsOwn'
  BY <1>1, <1>3 DEF OutputIsOwn, NoReply, Without
<1>7. ASSUME OwnClaim(msg) PROVE Own(mem', first'.at, FirstBytes')
  <2>1. Decodes /\ (ts.in = "g711" => ts.ic <= 1) /\ ts.in \in {"g711", "l16"}
    BY <1>2, <1>3, <1>7, OwnDecodes DEF OwnClaim, KnownCodecs
  <2>2. \A a \in Cells : DecodedInto(mem, at)[a]
                           = IF a \in at..(at + d - 1) THEN "now" ELSE mem[a]
    BY <2>1 DEF DecodedInto
  <2>3. Own(DecodedInto(mem, at), at, d)
    <3>1. \A a \in at..(at + d - 1) : a \in Cells
      BY <1>4, <1>5, Constants DEF Cells
    <3> QED
      BY <2>2, <3>1 DEF Own
  <2>4. CASE b = 0
    <3>1. first'.at = at /\ first'.n = s /\ mem' = DecodedInto(mem, at)
      BY <1>1, <2>4
    <3>2. FirstBytes' = IF ts.in = "l16" THEN 2 * s * ts.ic ELSE 2 * s
      BY <1>1, <3>1 DEF FirstBytes
    <3>3. FirstBytes' \in Nat /\ FirstBytes' <= d
      <4>1. ts.ic \in {0, 1, 2}
        BY <1>3, <1>7 DEF TranscodeSession, OwnClaim, Workable
      <4> QED
        BY <1>4, <3>2, <4>1
    <3> PICK k \in Nat : k = FirstBytes' /\ k <= d
      BY <3>3
    <3>4. Own(DecodedInto(mem, at), at, k)
      BY <1>4, <1>5, <2>3, OwnPart
    <3> QED
      BY <3>1, <3>4
  <2>5. CASE b # 0
    <3>1. first' = first /\ FirstBytes' = FirstBytes
          /\ mem' = MixedInto(DecodedInto(mem, at), at)
      BY <1>1, <2>5 DEF FirstBytes
    <3>2. Own(mem, first.at, FirstBytes)
      BY <1>1, <1>3, <1>7, <2>5 DEF OwnInv, AudioOwn
    <3>3. MixedBytes \in Nat /\ MixedBytes <= d
      <4> PICK x : x = Lesser(s, first.n)
        OBVIOUS
      <4>0. first.n \in Nat
        BY <1>3 DEF Buffer
      <4>1. x \in Nat /\ x <= s
        BY <1>4, <4>0, LesserIsLess
      <4>2. MixedBytes = 2 * x * ts.ic
        BY DEF MixedBytes
      <4>3. ts.ic \in {0, 1, 2}
        BY <1>3, <1>7 DEF TranscodeSession, OwnClaim, Workable
      <4> QED
        BY <1>4, <2>1, <4>1, <4>2, <4>3
    <3>4. ASSUME NEW a \in first.at..(first.at + FirstBytes - 1)
          PROVE  a \in Cells /\ mem'[a] = "now"
      <4>1. a \in Cells /\ mem[a] = "now"
        BY <3>2, <3>4 DEF Own
      <4>2. DecodedInto(mem, at)[a] = "now"
        BY <2>2, <4>1
      <4>3. ASSUME a \in first.at..(first.at + MixedBytes - 1)
            PROVE  a - first.at + at \in Cells
                   /\ DecodedInto(mem, at)[a - first.at + at] = "now"
        <5>1. first.at \in Nat
          BY <1>3 DEF Buffer
        <5>2. a - first.at + at \in at..(at + d - 1)
          BY <1>4, <1>5, <3>3, <4>3, <5>1
        <5> QED
          BY <2>3, <5>2 DEF Own
      <4> QED
        BY <3>1, <4>1, <4>2, <4>3 DEF MixedInto
    <3> QED
      BY <3>1, <3>4 DEF Own
  <2> QED
    BY <2>4, <2>5
<1>8. AudioOwn'
  <2>1. OwnClaim(msg)' = OwnClaim(msg)
    BY <1>1 DEF OwnClaim, KnownCodecs, Workable, PassedOn, Mono, WholeBlocks
  <2>2. Own(mem, first.at, FirstBytes)' <=> Own(mem', first'.at, FirstBytes')
    BY DEF Own
  <2> QED
    BY <1>1, <1>7, <2>1, <2>2 DEF AudioOwn
<1> QED
  BY <1>6, <1>8 DEF OwnInv

\* The VAD reads: whether it runs changes the probability and nothing else.
LEMMA VadLeavesAudio == ASSUME SessionInv, OwnInv, VadOnInput \/ VadOnOutput PROVE OwnInv'
<1>1. /\ reply' = NoReply /\ UNCHANGED <<mem, msg, b, first, work>>
      /\ (pc = "decode" /\ pc' = "resample") \/ (pc = "vad" /\ pc' = "encode")
      /\ ts \in TranscodeSession
  BY DEF Reached, VadOnInput, VadOnOutput, SessionInv, SettingsOK, ParserOK
<1>2. /\ ts'.in = ts.in /\ ts'.out = ts.out /\ ts'.ic = ts.ic /\ ts'.oc = ts.oc
      /\ ts'.resample = ts.resample /\ ts'.inRate = ts.inRate
  BY <1>1 DEF Reached, VadOnInput, VadOnOutput, TranscodeSession
<1>3. OutputIsOwn'
  BY <1>1 DEF OutputIsOwn, NoReply, Without
<1>4. (OwnClaim(msg)' <=> OwnClaim(msg)) /\ (PassedOn' <=> PassedOn)
  BY <1>1, <1>2 DEF OwnClaim, KnownCodecs, Workable, PassedOn, Mono, WholeBlocks
<1>5. FirstBytes' = FirstBytes /\ WorkBytes' = WorkBytes
  BY <1>1, <1>2, <1>4 DEF FirstBytes, WorkBytes
<1>6. pc = "decode" => b > 0
  <2> SUFFICES ASSUME pc = "decode" PROVE b > 0
    OBVIOUS
  <2>1. first.n > 0 /\ b \in Nat
    BY <1>1, InputParts DEF Reached, VadOnInput, VadOnOutput, SessionInv, ParserOK
  <2> QED
    BY <2>1 DEF SessionInv, BuffersOK, NoBuf
<1>7. AudioOwn'
  <2> SUFFICES ASSUME OwnClaim(msg) 
               PROVE  /\ pc' = "resample" => Own(mem, first.at, FirstBytes)
                      /\ pc' = "encode" => Own(mem, work.at, WorkBytes)
    BY <1>1, <1>4, <1>5 DEF AudioOwn, Own
  <2> QED
    BY <1>1, <1>6 DEF OwnInv, AudioOwn
<1> QED
  BY <1>3, <1>7 DEF OwnInv

LEMMA ChannelsOwned ==
    ASSUME SessionInv, pc = "resample", OwnClaim(msg)
    PROVE  /\ first.at \in Nat /\ first.n \in Nat /\ FirstBytes \in Nat
           /\ 2 * first.n <= FirstBytes
           /\ PassedOn => FirstBytes = 2 * first.n * ts.oc
<1>1. /\ first.n \in Nat /\ first.at \in Nat /\ ts.ic \in {0, 1, 2} /\ ts.oc \in {0, 1, 2}
      /\ (ts.in = "l16" => ts.ic > 0)
  BY DEF SessionInv, SettingsOK, TranscodeSession, BuffersOK, Buffer, OwnClaim, Workable
<1>2. CASE ts.in = "l16"
  <2>1. FirstBytes = 2 * first.n * ts.ic
    BY <1>2 DEF FirstBytes
  <2>2. ts.ic \in {1, 2}
    BY <1>1, <1>2
  <2>3. PassedOn => ts.ic = ts.oc
    BY DEF PassedOn
  <2> QED
    BY <1>1, <2>1, <2>2, <2>3
<1>3. CASE ts.in # "l16"
  <2>1. FirstBytes = 2 * first.n /\ ~PassedOn
    BY <1>3 DEF FirstBytes, PassedOn
  <2> QED
    BY <1>1, <2>1
<1> QED
  BY <1>2, <1>3

LEMMA ResampleOwns == ASSUME SessionInv, OwnInv, Resample PROVE OwnInv'
<1> PICK at : at = AllocAt(curr)
  OBVIOUS
<1> PICK n : n = Scaled(first.n)
  OBVIOUS
<1>1. /\ pc = "resample" /\ pc' = "vad" /\ ts.resample /\ ts.inRate # 0
      /\ at + 2 * (n + Slack) * ts.oc <= ArenaSize
      /\ work' = [at |-> at, n |-> n]
      /\ mem' = [a \in Cells |-> IF a \in at..(at + 2 * n - 1)
                                 THEN IF Own(mem, first.at, 2 * first.n) THEN "now" ELSE "old"
                                 ELSE mem[a]]
      /\ UNCHANGED <<ts, msg, first, reply>>
  BY DEF Reached, Resample, OutCap, Fits
<1>2. /\ reply = NoReply /\ first.n \in Nat /\ curr \in Nat
      /\ Workable => ts.oc \in {1, 2}
  BY <1>1 DEF SessionInv, SettingsOK, TranscodeSession, ArenaOK, ParserOK, BuffersOK,
     Buffer,
     Workable
<1>3. at \in Nat /\ n \in Nat
  BY <1>1, <1>2, Allocated, ScaledTyped DEF SessionInv
<1>4. Workable => at + 2 * n <= ArenaSize
  BY <1>1, <1>2, <1>3, Constants
<1>5. OutputIsOwn'
  BY <1>1, <1>2 DEF OutputIsOwn, NoReply, Without
<1>6. ASSUME OwnClaim(msg) PROVE Own(mem', at, 2 * n)
  <2>1. Own(mem, first.at, FirstBytes)
    BY <1>1, <1>6 DEF OwnInv, AudioOwn
  <2>2. Own(mem, first.at, 2 * first.n)
    BY <1>1, <1>2, <1>6, <2>1, ChannelsOwned, OwnPart
  <2>3. \A a \in at..(at + 2 * n - 1) : a \in Cells
    BY <1>3, <1>4, <1>6, Constants DEF Cells, OwnClaim
  <2> QED
    BY <1>1, <2>2, <2>3 DEF Own
<1>7. AudioOwn'
  <2>1. OwnClaim(msg)' = OwnClaim(msg)
    BY <1>1 DEF OwnClaim, KnownCodecs, Workable, PassedOn, Mono, WholeBlocks
  <2>2. ~PassedOn'
    BY <1>1 DEF PassedOn
  <2>3. work'.at = at /\ WorkBytes' = 2 * n
    BY <1>1, <2>2 DEF WorkBytes
  <2>4. OwnClaim(msg) => Own(mem, work.at, WorkBytes)'
    BY <1>6, <2>3 DEF Own
  <2> QED
    BY <1>1, <2>1, <2>4 DEF AudioOwn
<1> QED
  BY <1>5, <1>7 DEF OwnInv

LEMMA SameRateOwns == ASSUME SessionInv, OwnInv, SameRate PROVE OwnInv'
<1>1. /\ pc = "resample" /\ pc' = "vad" /\ work' = first
      /\ UNCHANGED <<ts, mem, msg, first, reply>> /\ reply = NoReply
  BY DEF Reached, SameRate, SessionInv, ParserOK
<1>2. OutputIsOwn'
  BY <1>1 DEF OutputIsOwn, NoReply, Without
<1>3. AudioOwn'
  <2> SUFFICES ASSUME OwnClaim(msg) PROVE Own(mem, first.at, WorkBytes')
    BY <1>1 DEF AudioOwn, Own, OwnClaim, KnownCodecs, Workable, PassedOn, Mono, WholeBlocks
  <2>1. Own(mem, first.at, FirstBytes)
    BY <1>1 DEF OwnInv, AudioOwn
  <2>2. WorkBytes' = IF PassedOn THEN 2 * first.n * ts.oc ELSE 2 * first.n
    BY <1>1 DEF WorkBytes, PassedOn
  <2>3. WorkBytes' \in Nat /\ WorkBytes' <= FirstBytes
    BY <1>1, <2>2, ChannelsOwned
  <2> PICK k \in Nat : k = WorkBytes' /\ k <= FirstBytes
    BY <2>3
  <2>4. Own(mem, first.at, k)
    BY <1>1, <2>1, ChannelsOwned, OwnPart
  <2> QED
    BY <2>4
<1> QED
  BY <1>2, <1>3 DEF OwnInv

\* Moving own audio to the front yields own audio.
LEMMA MovedOwn ==
    ASSUME SessionInv, NEW len \in Nat, NEW width \in Nat, NEW n \in Nat,
           work.at \in Nat, start + len <= ArenaSize, width * len <= n,
           width \in {1, 2}, Own(mem, work.at, n)
    PROVE  Own(Moved(len, width), start, len)
<1>1. start \in Nat
  BY DEF SessionInv, ArenaOK
<1> SUFFICES ASSUME NEW a \in start..(start + len - 1)
             PROVE  a \in Cells /\ Moved(len, width)[a] = "now"
  BY DEF Own
<1>2. a \in Cells
  BY <1>1, Constants DEF Cells
<1> PICK i \in Nat : i = a - start /\ i < len
  BY <1>1
<1>3. Own(mem, work.at + width * i, width)
  <2>1. width * i \in Nat /\ work.at + width * i + width <= work.at + n
    OBVIOUS
  <2> PICK w \in Nat : w = width * i
    BY <2>1
  <2> QED
    BY <2>1, OwnPart
<1> QED
  BY <1>2, <1>3 DEF Moved

LEMMA OwnReply ==
    ASSUME NEW m, NEW len \in Nat, NEW prob, NEW end, start \in Nat, end = start + len,
           Own(m, start, len), Answer(m, end, prob)
    PROVE  reply'.data \subseteq {"now"}
<1>1. reply'.data = {m[a] : a \in start..(end - 1)} \/ reply'.data = {}
  BY DEF Answer
<1>2. \A a \in start..(start + len - 1) : m[a] = "now"
  BY DEF Own
<1>3. start..(end - 1) = start..(start + len - 1)
  OBVIOUS
<1> QED
  BY <1>1, <1>2, <1>3

LEMMA EncodeOwns ==
    ASSUME SessionInv, OwnInv, EncodeG711 \/ EncodeL16 \/ EncodeOther PROVE OwnInv'
<1>1. /\ pc = "encode" /\ pc' = "idle" /\ ts' = ts /\ reply'.to = msg
  BY DEF Reached, EncodeG711, EncodeL16, EncodeOther, Answer
<1>3. ASSUME OwnClaim(msg) PROVE reply'.data \subseteq {"now"}
  <2>0. Workable
    BY <1>3 DEF OwnClaim
  <2>9. /\ work.at \in Nat /\ work.n \in Nat /\ start \in Nat /\ ts.oc \in {0, 1, 2}
        /\ start <= work.at /\ work.at + 2 * work.n <= ArenaSize
        /\ work.at + 2 * work.n * ts.oc <= ArenaSize
    BY <1>1, <2>0 DEF SessionInv, SettingsOK, TranscodeSession, ArenaOK, BuffersOK, Buffer,
       WorkPlaced, Workable
  <2>1. Own(mem, work.at, WorkBytes)
    BY <1>1, <1>3 DEF OwnInv, AudioOwn
  <2> PICK m : m = mem'
    OBVIOUS
  <2>2. CASE EncodeG711
    <3>1. Answer(m, start + work.n, ts.prob) /\ m = Moved(work.n, 2) /\ ts.out = "g711"
      BY <2>2 DEF Reached, EncodeG711
    <3>2. WorkBytes = 2 * work.n
      BY <3>1 DEF WorkBytes, PassedOn
    <3>3. Own(Moved(work.n, 2), start, work.n)
      <4>1. 2 * work.n \in Nat /\ start + work.n <= ArenaSize
        BY <2>9, Constants
      <4> QED
        BY <2>9, <2>1, <3>2, <4>1, MovedOwn
    <3> QED
      BY <2>9, <3>1, <3>3, OwnReply
  <2>3. CASE EncodeL16
    <3>1. Answer(m, start + L16Bytes, ts.prob) /\ m = Moved(L16Bytes, 1)
      BY <2>3 DEF Reached, EncodeL16
    <3>2. L16Bytes \in Nat /\ WorkBytes \in Nat /\ L16Bytes <= WorkBytes
          /\ start + L16Bytes <= ArenaSize
      <4>1. CASE PassedOn
        BY <2>9, <4>1, Constants DEF L16Bytes, WorkBytes
      <4>2. CASE ~PassedOn
        <5>1. ts.oc \in {0, 1}
          BY <2>9, <1>3, <4>2 DEF OwnClaim, Mono
        <5> QED
          BY <2>9, <4>2, <5>1, Constants DEF L16Bytes, WorkBytes
      <4> QED
        BY <4>1, <4>2
    <3> PICK k \in Nat : k = L16Bytes
      BY <3>2
    <3> PICK n \in Nat : n = WorkBytes
      BY <3>2
    <3>3. Own(Moved(k, 1), start, k)
      BY <2>9, <2>1, <3>2, MovedOwn
    <3> QED
      BY <2>9, <3>1, <3>3, OwnReply
  <2>4. CASE EncodeOther
    BY <1>3, <2>4 DEF Reached, EncodeOther, OwnClaim, KnownCodecs
  <2> QED
    BY <2>2, <2>3, <2>4
<1>4. OutputIsOwn'
  BY <1>1, <1>3 DEF OutputIsOwn, OwnClaim, KnownCodecs, Workable, PassedOn, Mono,
     WholeBlocks
<1>5. AudioOwn'
  BY <1>1 DEF AudioOwn
<1> QED
  BY <1>4, <1>5 DEF OwnInv

\* THEOREM: a CMD_OUTPUT never carries audio of an earlier INPUT, although the work
\* buffers are at the same places and nothing clears them: for G.711 in whole blocks,
\* in mono, and for L16 passed on (transcode.c:105-229, server.c:233).
THEOREM RepliesCarryOwnAudio == Spec => []OutputIsOwn
<1>1. Init => OwnInv
  BY DEF Init, OwnInv, OutputIsOwn, AudioOwn, NoReply, Without
<1>2. SessionInv /\ OwnInv /\ [Next]_vars => OwnInv'
  <2> SUFFICES ASSUME SessionInv, OwnInv, [Next]_vars PROVE OwnInv'
    OBVIOUS
  <2>1. ASSUME NEW c \in Configs, Start(c) PROVE OwnInv'
    <3>1. pc' = "idle" /\ reply' = NoReply
      BY <2>1 DEF Reached, Start, pipeline
    <3> QED
      BY <3>1, NothingToOwn DEF NoReply, Without
  <2>2. CASE Stop \/ RejectShort
    <3>1. pc' = "idle" /\ reply'.kind # "output"
      BY <2>2 DEF Reached, Stop, RejectShort, pipeline, NoReply, Without
    <3> QED
      BY <3>1, NothingToOwn
  <2>3. CASE EmptyInput
    <3>1. pc' = "idle" /\ reply'.to = NoMsg
      BY <2>3 DEF Reached, EmptyInput, Answer, SessionInv, ParserOK
    <3> QED
      BY <3>1, NothingToOwn DEF NoMsg
  <2>4. ASSUME NEW m \in Inputs, BeginInput(m) PROVE OwnInv'
    BY <2>4, NothingToOwn DEF Reached, BeginInput, NoReply, Without
  <2>5. CASE Decode
    BY <2>5, DecodeOwns
  <2>6. CASE DecodeFails \/ NothingDecoded \/ ResampleFails \/ EncodeFails
    <3>1. pc' = "idle" /\ reply'.kind = "processing_failed"
      BY <2>6 DEF Reached, DecodeFails, NothingDecoded, ResampleFails, EncodeFails, Fail,
         Without
    <3> QED
      BY <3>1, NothingToOwn
  <2>7. CASE VadOnInput \/ VadOnOutput
    BY <2>7, VadLeavesAudio
  <2>8. CASE Resample
    BY <2>8, ResampleOwns
  <2>9. CASE SameRate
    BY <2>9, SameRateOwns
  <2>10. CASE EncodeG711 \/ EncodeL16 \/ EncodeOther
    BY <2>10, EncodeOwns
  <2>11. CASE UNCHANGED vars \/ DividesByZero
    <3>1. UNCHANGED <<ts, mem, pc, msg, b, first, work, reply>>
      BY <2>11 DEF Reached, vars, pipeline, DividesByZero
    <3>2. OutputIsOwn'
      BY <3>1 DEF OwnInv, OutputIsOwn, KnownCodecs, Workable, PassedOn, Mono, WholeBlocks
    <3>3. AudioOwn'
      BY <3>1 DEF OwnInv, AudioOwn, OwnClaim, KnownCodecs, Workable, PassedOn, Mono,
         WholeBlocks,
         Own, FirstBytes, WorkBytes
    <3> QED
      BY <3>2, <3>3 DEF OwnInv
  <2> QED
    BY <2>1, <2>2, <2>3, <2>4, <2>5, <2>6, <2>7, <2>8, <2>9, <2>10, <2>11 DEF Next,
       Undefined
<1>3. OwnInv => OutputIsOwn
  BY DEF OwnInv
<1> QED
  BY <1>1, <1>2, <1>3, SessionInvariant, PTL DEF Spec

-------------------------------------------------------------------------------
(***************************************************************************)
(* Which INPUTs are answered.                                              *)
(***************************************************************************)

\* The INPUTs FittingIsAnswered is about, how many samples they yield, and the room
\* the arena has left for the G.711 encoder.
Fitting(m) == KnownCodecs /\ Workable /\ WellFormed(m) /\ OutputBytes(m) <= MaxData
FirstSamples(m) == IF ts.in = "g711" THEN m.lens[1] ELSE m.lens[1] \div (2 * ts.ic)
OutSamples(m) == IF ts.resample THEN Scaled(FirstSamples(m)) ELSE FirstSamples(m)
FitSoFar ==
    Fitting(msg) =>
        /\ (pc = "decode" /\ b > 0) \/ pc = "resample" => first.n = FirstSamples(msg)
        /\ pc \in {"vad", "encode"} =>
              work.n = OutSamples(msg) /\ curr + Align + MaxData <= ArenaSize
FitInv == FittingIsAnswered /\ FitSoFar

LEMMA NothingToFit ==
    ASSUME reply'.kind = "none" \/ reply'.to = NoMsg,
           pc' = "idle" \/ (pc' = "decode" /\ b' = 0)
    PROVE  FitInv'
<1>1. FittingIsAnswered'
  BY DEF FittingIsAnswered, NoMsg
<1>2. FitSoFar'
  BY DEF FitSoFar
<1> QED
  BY <1>1, <1>2 DEF FitInv

LEMMA FittingSamples ==
    ASSUME SessionInv, pc # "idle", Fitting(msg)
    PROVE  /\ FirstSamples(msg) \in Nat \ {0} /\ OutSamples(msg) \in Nat
           /\ ts.out = "g711" => OutSamples(msg) <= MaxData
           /\ ts.out = "l16" => 2 * OutSamples(msg) * ts.oc <= MaxData
           /\ 2 * OutSamples(msg) * ts.oc <= 4 * MaxData
           /\ {ts.in, ts.out} \subseteq {"g711", "l16"}
<1>1. /\ msg \in Inputs /\ 1 \in 1..msg.n
      /\ {ts.in, ts.out} \subseteq {"g711", "l16"} /\ OutputBytes(msg) <= MaxData
      /\ Workable
  BY InputParts DEF SessionInv, ParserOK, Fitting, KnownCodecs
<1> PICK l : l = msg.lens[1]
  OBVIOUS
<1>2. l \in Nat
  BY <1>1, InputParts
<1> PICK n : n = FirstSamples(msg)
  OBVIOUS
<1> PICK k : k = OutSamples(msg)
  OBVIOUS
<1>3. n \in Nat
  <2>1. CASE ts.in = "g711"
    BY <1>2, <2>1 DEF FirstSamples
  <2>2. CASE ts.in # "g711"
    <3>1. n = l \div (2 * ts.ic)
      BY <2>2 DEF FirstSamples
    <3>2. ts.ic \in {1, 2}
      BY <1>1, <2>2 DEF SessionInv, SettingsOK, TranscodeSession, Workable
    <3>3. 2 * ts.ic \in Nat \ {0}
      BY <3>2
    <3> QED
      BY <1>2, <3>1, <3>3, Quotient
  <2> QED
    BY <2>1, <2>2
<1>4. k = IF ts.resample THEN Scaled(n) ELSE n
  BY DEF OutSamples
<1>5. k \in Nat
  <2>1. ts.resample => ts.inRate # 0
    BY <1>1 DEF Workable
  <2> QED
    BY <1>3, <1>4, <2>1, ScaledTyped DEF SessionInv
<1>6. OutputBytes(msg) = IF n = 0 THEN MaxData + 1
                         ELSE IF ts.out = "g711" THEN k ELSE 2 * k * ts.oc
  BY <1>4 DEF OutputBytes, FirstSamples
<1>7. n # 0
  BY <1>1, <1>6, Constants
<1>8. ts.oc \in {0, 1, 2}
  BY <1>1 DEF SessionInv, SettingsOK, TranscodeSession, Workable
<1>9. /\ ts.out = "g711" => k <= MaxData
      /\ ts.out = "l16" => 2 * k * ts.oc <= MaxData
  BY <1>1, <1>6, <1>7
<1>10. 2 * k * ts.oc <= 4 * MaxData
  <2>1. CASE ts.out = "g711"
    <3>1. k <= MaxData
      BY <1>9, <2>1
    <3> QED
      BY <1>5, <1>8, <3>1, Constants
  <2>2. CASE ts.out = "l16"
    BY <1>5, <1>8, <1>9, <2>2, Constants
  <2> QED
    BY <1>1, <2>1, <2>2
<1> QED
  BY <1>1, <1>3, <1>5, <1>7, <1>9, <1>10

LEMMA StillFitting ==
    ASSUME msg' = msg, ts'.in = ts.in, ts'.out = ts.out, ts'.ic = ts.ic, ts'.oc = ts.oc,
           ts'.inRate = ts.inRate, ts'.outRate = ts.outRate, ts'.resample = ts.resample
    PROVE  /\ Fitting(msg)' <=> Fitting(msg)
           /\ FirstSamples(msg)' = FirstSamples(msg)
           /\ OutSamples(msg)' = OutSamples(msg)
<1>1. KnownCodecs' <=> KnownCodecs
  BY DEF KnownCodecs
<1>2. WellFormed(msg)' <=> WellFormed(msg)
  BY DEF WellFormed, EndOf
<1>3. OutputBytes(msg)' = OutputBytes(msg)
  BY DEF OutputBytes, Scaled
<1>4. FirstSamples(msg)' = FirstSamples(msg)
  BY DEF FirstSamples
<1>5. OutSamples(msg)' = OutSamples(msg)
  BY <1>4 DEF OutSamples, Scaled
<1>6. Workable' <=> Workable
  BY WorkableKept
<1> QED
  BY <1>1, <1>2, <1>3, <1>4, <1>5, <1>6 DEF Fitting

\* No buffer of a fitting INPUT lacks room, and the first is there.
LEMMA FittingDecodes ==
    ASSUME SessionInv, FitInv, Fitting(msg), DecodeFails \/ NothingDecoded
    PROVE  FALSE
<1>1. /\ pc = "decode" /\ msg \in Inputs /\ msg.n \in Nat /\ msg.plen \in Nat
      /\ b \in 0..msg.n /\ offset \in Nat /\ offset = HeaderAt[msg][b]
      /\ msg.plen + ArenaSize < Word
  BY InputParts DEF Reached, DecodeFails, NothingDecoded, SessionInv, ParserOK
<1>2. CASE DecodeFails
  <2>1. HasBuffer /\ ~NoFrames /\ ~DecodeFits(DecodedSize)
    BY <1>1, <1>2, FittingSamples DEF Reached, DecodeFails
  <2>2. b + 1 \in 1..msg.n /\ b + 1 - 1 = b
    BY <1>1, <2>1 DEF HasBuffer
  <2> PICK l : l = Length
    OBVIOUS
  <2>3. l \in Nat
    BY <1>1, <2>2, InputParts DEF Length
  <2>4. EndOf(msg, b + 1) = DataAt + l
    BY <1>1, <2>2 DEF EndOf, DataAt, Length
  <2>5. DataAt + l < Word
    BY <2>2, <2>4 DEF Fitting, WellFormed
  <2>6. DataAt \in Nat /\ DataAt = offset + HdrBuf
    BY <1>1, Constants DEF DataAt
  <2>7. DataAt + l <= msg.plen
    <3>1. (DataAt + l) % Word = DataAt + l
      BY <2>3, <2>5, <2>6, Constants, SmallModulo
    <3> QED
      BY <2>1, <3>1 DEF HasBuffer
  <2>8. curr \in Nat /\ start \in Nat /\ start <= VadEnd
        /\ curr + 2 * HdrIn <= start + 2 * offset
    BY <1>1 DEF SessionInv, ArenaOK, ParserOK
  <2> PICK d : d = DecodedSize
    OBVIOUS
  <2>9. d \in Nat /\ d <= 2 * l
    BY <1>1, <1>2, <2>1, <2>3, FittingSamples, Decoded DEF SessionInv
  <2>10. AllocAt(curr) \in Nat /\ AllocAt(curr) < curr + Align
    BY <2>8, Allocated
  <2>11. VadEnd + Align + 4 * msg.plen <= ArenaSize
    BY <1>1, RoomAssumption
  <2>12. AllocAt(curr) + d <= ArenaSize
    BY <1>1, <2>3, <2>6, <2>7, <2>8, <2>9, <2>10, <2>11, Constants
  <2> QED
    BY <2>1, <2>12 DEF DecodeFits, Fits
<1>3. CASE NothingDecoded
  <2>1. ~HasBuffer /\ first.n = 0
    BY <1>3 DEF Reached, NothingDecoded
  <2>2. CASE b > 0
    <3>1. first.n = FirstSamples(msg)
      BY <1>1, <2>2 DEF FitInv, FitSoFar
    <3> QED
      BY <1>1, <2>1, <3>1, FittingSamples
  <2>3. CASE b = 0
    <3>1. 1 \in 1..msg.n /\ EndOf(msg, 1) <= msg.plen
      BY <1>1 DEF Fitting, WellFormed
    <3> PICK l : l = Length
      OBVIOUS
    <3>2. l \in Nat /\ l = msg.lens[1]
      BY <1>1, <2>3, <3>1, InputParts DEF Length
    <3>3. DataAt \in Nat /\ EndOf(msg, 1) = DataAt + l
      BY <1>1, <2>3, <3>2, Constants DEF EndOf, DataAt
    <3>4. (DataAt + l) % Word = DataAt + l
      <4>1. DataAt + l \in Nat /\ DataAt + l < Word
        BY <1>1, <3>1, <3>2, <3>3, Constants
      <4> QED
        BY <4>1, Constants, SmallModulo
    <3> QED
      BY <1>1, <2>1, <2>3, <3>1, <3>2, <3>3, <3>4 DEF HasBuffer
  <2> QED
    BY <1>1, <2>2, <2>3
<1> QED
  BY <1>2, <1>3

\* Nor does resampling lack room.
LEMMA FittingResamples ==
    ASSUME SessionInv, FitInv, Fitting(msg), pc = "resample"
    PROVE  /\ curr + 2 * Align + MaxData <= ArenaSize
           /\ ts.resample =>
                 /\ Fits(curr, 2 * OutCap * ts.oc)
                 /\ AllocAt(curr) + 2 * OutCap * ts.oc + Align + MaxData <= ArenaSize
<1>1. /\ msg \in Inputs /\ msg.plen \in Nat /\ offset \in Nat /\ offset <= msg.plen + PadTo
      /\ curr \in Nat /\ start \in Nat /\ start <= VadEnd
      /\ curr + 2 * HdrIn <= start + 2 * offset
  BY InputParts DEF SessionInv, ArenaOK, ParserOK
<1>2. VadEnd + 2 * (msg.plen + PadTo + Align) + 5 * MaxData + 4 * Slack <= ArenaSize
  BY <1>1, RoomAssumption
<1>3. curr <= VadEnd + 2 * (msg.plen + PadTo)
  BY <1>1, Constants
<1>4. curr + 2 * Align + MaxData <= ArenaSize
  BY <1>1, <1>2, <1>3, Constants
<1>5. ASSUME ts.resample
      PROVE  AllocAt(curr) + 2 * OutCap * ts.oc + Align + MaxData <= ArenaSize
  <2> PICK k : k = OutSamples(msg)
    OBVIOUS
  <2>1. k \in Nat /\ 2 * k * ts.oc <= 4 * MaxData
    BY FittingSamples
  <2>2. first.n = FirstSamples(msg)
    BY DEF FitInv, FitSoFar
  <2>3. OutCap = k + Slack
    BY <1>5, <2>2 DEF OutCap, OutSamples
  <2>4. ts.oc \in {1, 2}
    BY <1>5 DEF SessionInv, SettingsOK, TranscodeSession, Fitting, Workable
  <2> PICK x : x = 2 * OutCap * ts.oc
    OBVIOUS
  <2>5. x \in Nat /\ x <= 4 * MaxData + 4 * Slack
    BY <2>1, <2>3, <2>4, Constants
  <2>6. AllocAt(curr) \in Nat /\ AllocAt(curr) < curr + Align
    BY <1>1, Allocated
  <2>7. AllocAt(curr) + x + Align + MaxData <= ArenaSize
    BY <1>1, <1>2, <1>3, <2>5, <2>6, Constants
  <2> QED
    BY <2>7
<1>6. ts.resample => Fits(curr, 2 * OutCap * ts.oc)
  <2> SUFFICES ASSUME ts.resample PROVE Fits(curr, 2 * OutCap * ts.oc)
    OBVIOUS
  <2> PICK x : x = 2 * OutCap * ts.oc
    OBVIOUS
  <2>1. AllocAt(curr) + x + Align + MaxData <= ArenaSize
    BY <1>5
  <2>2. x \in Nat
    <3>1. first.n \in Nat /\ ts.oc \in {1, 2} /\ ts.inRate # 0
      BY DEF SessionInv, SettingsOK, TranscodeSession, BuffersOK, Buffer, Fitting, Workable
    <3>2. Scaled(first.n) \in Nat
      BY <3>1, ScaledTyped DEF SessionInv
    <3>3. OutCap \in Nat
      BY <3>2, Constants DEF OutCap
    <3> QED
      BY <3>1, <3>3
  <2>3. AllocAt(curr) \in Nat
    BY <1>1, Allocated
  <2> QED
    BY <2>1, <2>2, <2>3, Constants DEF Fits
<1> QED
  BY <1>4, <1>5, <1>6

LEMMA FittingDecoded == ASSUME SessionInv, FitInv, Decode PROVE FitInv'
<1>1. /\ pc = "decode" /\ HasBuffer /\ ts.in # "other"
      /\ first' = IF b = 0 THEN [at |-> AllocAt(curr), n |-> Samples] ELSE first
      /\ UNCHANGED <<ts, pc, msg, reply>> /\ reply = NoReply
      /\ b \in Nat /\ msg.n \in Nat /\ b < msg.n /\ msg \in Inputs
  BY InputParts DEF Reached, Decode, HasBuffer, SessionInv, ParserOK
<1>2. FittingIsAnswered'
  BY <1>1 DEF FittingIsAnswered, NoReply, Without
<1>3. ASSUME Fitting(msg) PROVE first'.n = FirstSamples(msg)
  <2>1. CASE b = 0
    BY <1>1, <2>1 DEF FirstSamples, Samples, Length
  <2>2. CASE b # 0
    BY <1>1, <1>3, <2>2 DEF FitInv, FitSoFar
  <2> QED
    BY <2>1, <2>2
<1>4. FitSoFar'
  BY <1>1, <1>3, StillFitting DEF FitSoFar
<1> QED
  BY <1>2, <1>4 DEF FitInv

LEMMA VadLeavesRoom == ASSUME SessionInv, FitInv, VadOnInput \/ VadOnOutput PROVE FitInv'
<1>1. /\ reply' = NoReply /\ UNCHANGED <<curr, msg, b, first, work>>
      /\ (pc = "decode" /\ pc' = "resample") \/ (pc = "vad" /\ pc' = "encode")
      /\ ts \in TranscodeSession
  BY DEF Reached, VadOnInput, VadOnOutput, SessionInv, SettingsOK, ParserOK
<1>2. /\ ts'.in = ts.in /\ ts'.out = ts.out /\ ts'.ic = ts.ic /\ ts'.oc = ts.oc
      /\ ts'.inRate = ts.inRate /\ ts'.outRate = ts.outRate /\ ts'.resample = ts.resample
  BY <1>1 DEF Reached, VadOnInput, VadOnOutput, TranscodeSession
<1>3. FittingIsAnswered'
  BY <1>1 DEF FittingIsAnswered, NoReply, Without
<1>4. pc = "decode" => b > 0
  <2> SUFFICES ASSUME pc = "decode" PROVE b > 0
    OBVIOUS
  <2>1. first.n > 0 /\ b \in Nat
    BY <1>1, InputParts DEF Reached, VadOnInput, VadOnOutput, SessionInv, ParserOK
  <2> QED
    BY <2>1 DEF SessionInv, BuffersOK, NoBuf
<1>5. /\ Fitting(msg)' <=> Fitting(msg)
      /\ FirstSamples(msg)' = FirstSamples(msg) /\ OutSamples(msg)' = OutSamples(msg)
  BY <1>1, <1>2, StillFitting
<1>6. FitSoFar'
  BY <1>1, <1>4, <1>5 DEF FitInv, FitSoFar
<1> QED
  BY <1>3, <1>6 DEF FitInv

LEMMA FittingIsScaled == ASSUME SessionInv, FitInv, Resample \/ SameRate PROVE FitInv'
<1>1. /\ pc = "resample" /\ pc' = "vad" /\ UNCHANGED <<ts, msg, reply>> /\ reply = NoReply
  BY DEF Reached, Resample, SameRate, SessionInv, ParserOK
<1>2. FittingIsAnswered'
  BY <1>1 DEF FittingIsAnswered, NoReply, Without
<1>3. ASSUME Fitting(msg)
      PROVE  work'.n = OutSamples(msg) /\ curr' + Align + MaxData <= ArenaSize
  <2>1. first.n = FirstSamples(msg)
    BY <1>1, <1>3 DEF FitInv, FitSoFar
  <2>2. CASE Resample
    <3>1. /\ ts.resample /\ work' = [at |-> AllocAt(curr), n |-> Scaled(first.n)]
          /\ curr' = AllocAt(curr) + 2 * OutCap * ts.oc
      BY <2>2 DEF Reached, Resample
    <3>2. curr' + Align + MaxData <= ArenaSize
      BY <1>1, <1>3, <3>1, FittingResamples
    <3> QED
      BY <2>1, <3>1, <3>2 DEF OutSamples
  <2>3. CASE SameRate
    <3>1. ~ts.resample /\ work' = first /\ curr' = curr
      BY <2>3 DEF Reached, SameRate
    <3>2. curr + Align + MaxData <= ArenaSize
      <4>1. curr \in Nat
        BY DEF SessionInv, ArenaOK
      <4>2. curr + 2 * Align + MaxData <= ArenaSize
        BY <1>1, <1>3, FittingResamples
      <4> QED
        BY <4>1, <4>2, Constants
    <3> QED
      BY <2>1, <3>1, <3>2 DEF OutSamples
  <2> QED
    BY <1>1, <2>2, <2>3
<1>4. FitSoFar'
  BY <1>1, <1>3, StillFitting DEF FitSoFar
<1> QED
  BY <1>2, <1>4 DEF FitInv

\* A stage that fails has no fitting INPUT.
LEMMA FittingNeverFails ==
    ASSUME SessionInv, FitInv, DecodeFails \/ NothingDecoded \/ ResampleFails \/ EncodeFails
    PROVE  FitInv'
<1>1. /\ pc # "idle" /\ pc' = "idle" /\ ts' = ts
      /\ reply'.to = msg
  BY DEF Reached, DecodeFails, NothingDecoded, ResampleFails, EncodeFails, Fail, Without
<1>2. ~Fitting(msg)
  <2> SUFFICES ASSUME Fitting(msg) PROVE FALSE
    OBVIOUS
  <2>1. CASE DecodeFails \/ NothingDecoded
    BY <2>1, FittingDecodes
  <2>2. CASE ResampleFails
    BY <2>2, FittingResamples DEF Reached, ResampleFails
  <2>3. CASE EncodeFails
    <3>1. pc = "encode" /\ ts.out = "g711" /\ ~Fits(curr, work.n)
      BY <2>3 DEF Reached, EncodeFails
    <3>2. work.n \in Nat /\ curr \in Nat
      BY DEF SessionInv, ArenaOK, BuffersOK, Buffer
    <3>3. work.n <= MaxData /\ curr + Align + MaxData <= ArenaSize
      BY <3>1, FittingSamples DEF FitInv, FitSoFar
    <3>4. AllocAt(curr) \in Nat /\ AllocAt(curr) < curr + Align
      BY <3>2, Allocated
    <3> QED
      BY <3>1, <3>2, <3>3, <3>4, Constants DEF Fits
  <2> QED
    BY <2>1, <2>2, <2>3
<1>3. FittingIsAnswered'
  BY <1>1, <1>2 DEF FittingIsAnswered, Fitting, KnownCodecs, Workable, WellFormed,
     OutputBytes, EndOf,
     Scaled
<1>4. FitSoFar'
  BY <1>1 DEF FitSoFar
<1> QED
  BY <1>3, <1>4 DEF FitInv

LEMMA AnswerKind ==
    ASSUME NEW m, NEW len \in Nat, NEW prob, NEW end, start \in Nat, end = start + len,
           len <= MaxData, Answer(m, end, prob)
    PROVE  reply'.kind = "output"
<1>1. end - start <= MaxData
  BY Constants
<1> QED
  BY <1>1 DEF Answer

LEMMA FittingIsEncoded ==
    ASSUME SessionInv, FitInv, EncodeG711 \/ EncodeL16 \/ EncodeOther PROVE FitInv'
<1>1. /\ pc = "encode" /\ pc' = "idle" /\ ts' = ts /\ reply'.to = msg
  BY DEF Reached, EncodeG711, EncodeL16, EncodeOther, Answer
<1>2. Fitting(msg) => reply'.kind = "output"
  <2> SUFFICES ASSUME Fitting(msg) PROVE reply'.kind = "output"
    OBVIOUS
  <2> PICK m : m = mem'
    OBVIOUS
  <2>1. start \in Nat /\ work.n = OutSamples(msg)
    BY <1>1 DEF SessionInv, ArenaOK, FitInv, FitSoFar
  <2>2. CASE EncodeG711
    <3>1. Answer(m, start + work.n, ts.prob) /\ ts.out = "g711"
      BY <2>2 DEF Reached, EncodeG711
    <3>2. work.n \in Nat /\ work.n <= MaxData
      BY <1>1, <2>1, <3>1, FittingSamples
    <3> QED
      BY <2>1, <3>1, <3>2, AnswerKind
  <2>3. CASE EncodeL16
    <3>1. Answer(m, start + L16Bytes, ts.prob) /\ ts.out = "l16"
      BY <2>3 DEF Reached, EncodeL16
    <3>2. L16Bytes \in Nat /\ L16Bytes <= MaxData
      <4>1. ts.oc \in {0, 1, 2} /\ OutSamples(msg) \in Nat
        BY <1>1, FittingSamples
        DEF SessionInv, SettingsOK, TranscodeSession, Fitting, Workable
      <4>2. L16Bytes = 2 * OutSamples(msg) * ts.oc
        BY <2>1 DEF L16Bytes
      <4>3. L16Bytes <= MaxData
        BY <1>1, <3>1, <4>2, FittingSamples
      <4> QED
        BY <4>1, <4>2, <4>3
    <3> QED
      BY <2>1, <3>1, <3>2, AnswerKind
  <2>4. CASE EncodeOther
    BY <1>1, <2>4, FittingSamples DEF Reached, EncodeOther
  <2> QED
    BY <2>2, <2>3, <2>4
<1>3. FittingIsAnswered'
  BY <1>1, <1>2 DEF FittingIsAnswered, Fitting, KnownCodecs, Workable, WellFormed,
     OutputBytes, EndOf,
     Scaled
<1>4. FitSoFar'
  BY <1>1 DEF FitSoFar
<1> QED
  BY <1>3, <1>4 DEF FitInv

\* THEOREM: an INPUT whose first buffer is inside the payload and whose output fits a
\* WriteResponse is answered with CMD_OUTPUT, whatever failed before it
\* (server.c:233, transcode.c:105-229, arena.c:41-58).
THEOREM FittingAnswered == Spec => []FittingIsAnswered
<1>1. Init => FitInv
  BY DEF Init, FitInv, FittingIsAnswered, FitSoFar, NoReply, Without
<1>2. SessionInv /\ FitInv /\ [Next]_vars => FitInv'
  <2> SUFFICES ASSUME SessionInv, FitInv, [Next]_vars PROVE FitInv'
    OBVIOUS
  <2>1. ASSUME NEW c \in Configs, Start(c) PROVE FitInv'
    <3>1. pc' = "idle" /\ reply' = NoReply
      BY <2>1 DEF Reached, Start, pipeline
    <3> QED
      BY <3>1, NothingToFit DEF NoReply, Without
  <2>2. CASE Stop \/ RejectShort
    <3>1. pc' = "idle" /\ reply'.to = NoMsg
      BY <2>2 DEF Reached, Stop, RejectShort, pipeline, NoReply, Without
    <3> QED
      BY <3>1, NothingToFit
  <2>3. CASE EmptyInput
    <3>1. pc' = "idle" /\ reply'.to = NoMsg
      BY <2>3 DEF Reached, EmptyInput, Answer, SessionInv, ParserOK
    <3> QED
      BY <3>1, NothingToFit
  <2>4. ASSUME NEW m \in Inputs, BeginInput(m) PROVE FitInv'
    BY <2>4, NothingToFit DEF Reached, BeginInput, NoReply, Without
  <2>5. CASE Decode
    BY <2>5, FittingDecoded
  <2>6. CASE DecodeFails \/ NothingDecoded \/ ResampleFails \/ EncodeFails
    BY <2>6, FittingNeverFails
  <2>7. CASE VadOnInput \/ VadOnOutput
    BY <2>7, VadLeavesRoom
  <2>8. CASE Resample \/ SameRate
    BY <2>8, FittingIsScaled
  <2>9. CASE EncodeG711 \/ EncodeL16 \/ EncodeOther
    BY <2>9, FittingIsEncoded
  <2>10. CASE UNCHANGED vars \/ DividesByZero
    <3>1. UNCHANGED <<ts, curr, pc, msg, b, first, work, reply>>
      BY <2>10 DEF Reached, vars, pipeline, DividesByZero
    <3>2. FittingIsAnswered'
      BY <3>1 DEF FitInv, FittingIsAnswered, KnownCodecs, Workable, WellFormed,
         OutputBytes, EndOf,
         Scaled
    <3>3. FitSoFar'
      BY <3>1, StillFitting DEF FitInv, FitSoFar
    <3> QED
      BY <3>2, <3>3 DEF FitInv
  <2> QED
    BY <2>1, <2>2, <2>3, <2>4, <2>5, <2>6, <2>7, <2>8, <2>9, <2>10 DEF Next, Undefined
<1>3. FitInv => FittingIsAnswered
  BY DEF FitInv
<1> QED
  BY <1>1, <1>2, <1>3, SessionInvariant, PTL DEF Spec
===============================================================================
