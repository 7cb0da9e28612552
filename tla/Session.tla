-------------------------------- MODULE Session --------------------------------
(***************************************************************************)
(* What the messages of one session do: the START, INPUT and STOP cases of *)
(* process_client_read (src/src/core/server.c), the transcoding pipeline   *)
(* they drive (src/src/processing/transcode.c), the parser of an INPUT's   *)
(* buffers (src/src/protocol/parser.c) and the session's arena             *)
(* (src/src/util/arena.c), which holds the VAD state and all work buffers. *)
(*                                                                         *)
(* Audio is abstracted to where it comes from: each byte of the arena is   *)
(* "now" when it was computed from the audio of the INPUT being handled,   *)
(* "vad" when it belongs to a VAD state, and "old" otherwise.  A computed  *)
(* byte is "now" only if all bytes it was computed from are; the history   *)
(* the resampler keeps between calls, its own by design, does not count.   *)
(***************************************************************************)
EXTENDS Naturals, Sequences

CONSTANTS
    Configs,      \* the START payloads clients send
    Inputs,       \* the INPUT payloads clients send: declared buffers, their
                  \* lengths, and the length of the payload that arrives
    HeaderAt,     \* where the layout of docs/protocol.md:58-74 puts the headers
                  \* of an INPUT's buffers, and the end of the last one
    ArenaSize,    \* MACH_SESSION_ARENA_SIZE
    Align,        \* alignment of arena_alloc (8)
    VadPad,       \* what aligns the VAD state to 32 bytes
    VadSize,      \* sizeof(VadGruState)
    HdrIn,        \* sizeof(struct audio_input_payload)
    HdrBuf,       \* sizeof(struct audio_buffer_header)
    PadTo,        \* audio data is padded to this (4)
    Word,         \* 2^32: offsets in a payload are 32 bits wide
    Block,        \* the G.711 decoders take multiples of this (16)
    Slack,        \* samples resampling reserves on top (128)
    MaxData,      \* audio that fits a WriteResponse
    VadRate,      \* VAD_SAMPLE_RATE
    VadFrame      \* samples of a VAD frame

Codecs   == {"g711", "l16", "other"}
\* transcode_session_init takes any octet for a number of channels and any rate.
Config   == [in : Codecs, out : Codecs, ic : 0..255, oc : 0..255,
             inRate : Nat, outRate : Nat, vad : BOOLEAN]
Input    == [n : Nat, lens : Seq(Nat), plen : Nat]

RoundUp(x, to) == ((x + to - 1) \div to) * to

\* arena_alloc: the aligned place of the next allocation.
AllocAt(c) == RoundUp(c, Align)

VadAt == AllocAt(VadPad)
VadEnd == VadAt + VadSize
VadRegion == VadAt..(VadEnd - 1)

ASSUME SessionAssumption ==
    /\ Configs \subseteq Config /\ Inputs \subseteq Input
    /\ {Align, PadTo, Block, VadSize, VadFrame} \subseteq Nat \ {0}
    /\ {ArenaSize, VadPad, HdrIn, HdrBuf, Word, Slack, MaxData, VadRate} \subseteq Nat
    /\ VadEnd <= ArenaSize /\ PadTo <= ArenaSize
    /\ \A m \in Inputs : /\ m.plen + ArenaSize < Word
                         /\ \A i \in DOMAIN m.lens : m.lens[i] < Word
                         /\ m.n <= Len(m.lens)

ASSUME LayoutAssumption ==
    \A m \in Inputs :
        /\ HeaderAt[m] \in [0..m.n -> Nat] /\ HeaderAt[m][0] = HdrIn
        /\ \A k \in 1..m.n :
              HeaderAt[m][k] = HeaderAt[m][k - 1] + HdrBuf + RoundUp(m.lens[k], PadTo)

\* What the code relies on without a check: the arena is eight times the buffer a
\* message is assembled in, and that four times a WriteResponse (server.h:10, 52,
\* 76), so a G.711 payload, which decodes to twice its size, fits four times
\* over; and a header is no shorter than half of what alignment can skip.
ASSUME RoomAssumption ==
    /\ Align <= 2 * HdrBuf + 1
    /\ \A m \in Inputs :
          /\ VadEnd + Align + 4 * m.plen <= ArenaSize
          /\ VadEnd + 2 * (m.plen + PadTo + Align) + 5 * MaxData + 4 * Slack <= ArenaSize

VARIABLES
    ts,           \* session->transcode_session
    mem,          \* where each byte of the arena comes from
    curr,         \* arena.curr
    start,        \* arena_curr_start
    pc,           \* stage of audio_process_transcode
    msg,          \* the INPUT it works on
    b, offset,    \* its loop index and its parse offset
    first,        \* l16_buf and l16_samples
    work,         \* resampled_buf and resampled_samples
    ran,          \* history: times the VAD has run on this INPUT
    reply,        \* history: what the last message was answered with
    defined       \* history: every access was inside arena and payload, and
                  \* nothing was divided by zero

pipeline == <<pc, msg, b, offset, first, work, ran>>
vars == <<ts, mem, curr, start, pipeline, reply, defined>>

-------------------------------------------------------------------------------
\* The transcode session: all zero at first, and again after STOP.
Zeroed == [in |-> "g711", out |-> "g711", ic |-> 0, oc |-> 0, inRate |-> 0,
           outRate |-> 0, vad |-> FALSE, state |-> FALSE, prob |-> "zero",
           resample |-> FALSE]

\* transcode_session_init, without the VAD state.  resampler_init may refuse the
\* rates; its result is ignored, and what that leaves undone (the delay of the
\* filter) is in Resampler.
Configured(c) ==
    [in |-> c.in, out |-> c.out, ic |-> c.ic, oc |-> c.oc, inRate |-> c.inRate,
     outRate |-> c.outRate, vad |-> c.vad, state |-> FALSE,
     prob |-> IF c.vad THEN "zero" ELSE "off",
     resample |-> c.inRate # c.outRate]

\* Buffers: a place in the arena and a number of samples.
NoBuf == [at |-> 0, n |-> 0]
NoMsg == [n |-> 0, lens |-> << >>, plen |-> 0]

\* A reply, with the INPUT it answers and how often the VAD ran on that.
Without(kind) == [kind |-> kind, data |-> {}, prob |-> "off", to |-> NoMsg, ran |-> 0]
NoReply == Without("none")

Cells == 0..(ArenaSize - 1)
\* arena_alloc: whether the next allocation fits.
Fits(c, size) == AllocAt(c) + size <= ArenaSize

Init ==
    /\ ts = Zeroed /\ mem = [a \in Cells |-> "old"] /\ curr = 0 /\ start = 0
    /\ pc = "idle" /\ msg = NoMsg /\ b = 0 /\ offset = 0
    /\ first = NoBuf /\ work = NoBuf /\ ran = 0
    /\ reply = NoReply /\ defined = TRUE

\* What the program does after an undefined access or division is not modelled.
Reached(stage) == defined /\ pc = stage
Undefined == ~defined /\ UNCHANGED vars

-------------------------------------------------------------------------------
(***************************************************************************)
(* START and STOP.                                                         *)
(***************************************************************************)
UnprotectedStart == 0                               \* mutant: never set
ProtectedStart == VadEnd

\* CMD_START: a new transcode session, and a new VAD state at the front of the
\* arena if it wants one.
Start(c) ==
    /\ Reached("idle")
    /\ ts' = [Configured(c) EXCEPT !.state = c.vad]
    /\ IF c.vad
       THEN /\ mem' = [a \in Cells |-> IF a \in VadRegion THEN "vad" ELSE mem[a]]
            /\ curr' = VadEnd
            /\ start' = ProtectedStart
       ELSE /\ curr' = 0 /\ start' = 0
            /\ UNCHANGED mem
    /\ reply' = NoReply
    /\ UNCHANGED <<pipeline, defined>>

\* CMD_STOP: the transcode session is zeroed, the arena is not.
Stop ==
    /\ Reached("idle")
    /\ ts' = Zeroed
    /\ reply' = NoReply
    /\ UNCHANGED <<mem, curr, start, pipeline, defined>>

\* A START or INPUT with a payload shorter than its structure.
RejectShort ==
    /\ Reached("idle")
    /\ reply' = Without("invalid_payload")
    /\ UNCHANGED <<ts, mem, curr, start, pipeline, defined>>

-------------------------------------------------------------------------------
(***************************************************************************)
(* INPUT.                                                                  *)
(***************************************************************************)
Fail ==
    /\ reply' = [Without("processing_failed") EXCEPT !.to = msg]
    /\ pc' = "idle" /\ msg' = NoMsg /\ b' = 0 /\ offset' = 0
    /\ first' = NoBuf /\ work' = NoBuf /\ ran' = 0

\* The reply is built from what the arena holds from start to "end"; one that
\* does not fit a WriteResponse is dropped.
Answer(m, end, prob) ==
    /\ reply' = [kind |-> IF end - start <= MaxData THEN "output" ELSE "dropped",
                 data |-> IF end - start <= MaxData THEN {m[a] : a \in start..(end - 1)}
                                                    ELSE {},
                 prob |-> prob, to |-> msg, ran |-> ran]
    /\ curr' = start
    /\ pc' = "idle" /\ msg' = NoMsg /\ b' = 0 /\ offset' = 0
    /\ first' = NoBuf /\ work' = NoBuf /\ ran' = 0

\* CMD_INPUT without buffers: an empty reply at once.
EmptyInput ==
    /\ Reached("idle")
    /\ \E m \in Inputs : m.plen >= HdrIn /\ m.n = 0
    /\ Answer(mem, start, ts.prob)
    /\ UNCHANGED <<ts, mem, start, defined>>

\* CMD_INPUT: the work buffers of the last message are given up, those of one
\* that failed included.
GoOn == curr                                        \* mutant: arena not reset
WorkFrom == start
BeginInput(m) ==
    /\ Reached("idle") /\ m.plen >= HdrIn /\ m.n > 0
    /\ mem' = [a \in Cells |-> IF mem[a] = "now" THEN "old" ELSE mem[a]]
    /\ curr' = WorkFrom
    /\ pc' = "decode" /\ msg' = m /\ b' = 0 /\ offset' = HdrIn
    /\ first' = NoBuf /\ work' = NoBuf /\ ran' = 0
    /\ reply' = NoReply
    /\ UNCHANGED <<ts, start, defined>>

\* protocol_parse_next_buffer: the next buffer's header and data are inside the
\* payload, in 32-bit arithmetic.
Length == msg.lens[b + 1]
DataAt == offset + HdrBuf
HasBuffer ==
    /\ b < msg.n /\ DataAt <= msg.plen
    /\ (DataAt + Length) % Word <= msg.plen

NextUnpadded == (DataAt + Length) % Word             \* mutant: padding not skipped
NextOffset == (DataAt + RoundUp(Length, PadTo)) % Word

\* What decoding the buffer needs in the arena, and how many samples it holds.
DecodedSize == IF ts.in = "g711" THEN 2 * Length ELSE Length
Samples == IF ts.in = "g711" THEN Length ELSE Length \div (2 * ts.ic)

\* The G.711 decoders leave the buffer as it is unless its length is a multiple
\* of their block; their result is ignored.
Decodes == ts.in = "l16" \/ Length % Block = 0
DecodedInto(m, at) ==
    [a \in Cells |-> IF Decodes /\ a \in at..(at + DecodedSize - 1) THEN "now" ELSE m[a]]

\* mix_l16_avx2 of a later buffer into the first one.
Lesser(x, y) == IF x < y THEN x ELSE y
MixedOfFirst == 2 * first.n * ts.ic                 \* mutant: the first's length
MixedBytes == 2 * Lesser(Samples, first.n) * ts.ic
MixedInto(m, at) ==
    [a \in Cells |->
        IF a \in first.at..(first.at + MixedBytes - 1)
           /\ (a - first.at + at \notin Cells \/ m[a - first.at + at] # "now")
        THEN "old" ELSE m[a]]

\* An L16 buffer is divided into frames, before it gets its room.
NoFrames == ts.in = "l16" /\ ts.ic = 0

\* One turn of the decode loop.
FitsLoosely(size) == curr <= ArenaSize              \* mutant: size not added
DecodeFits(size) == Fits(curr, size)
Decode ==
    /\ Reached("decode") /\ HasBuffer /\ ~NoFrames
    /\ ts.in # "other" /\ DecodeFits(DecodedSize)
    /\ LET at == AllocAt(curr)
           m == DecodedInto(mem, at)
       IN /\ mem' = IF b = 0 THEN m ELSE MixedInto(m, at)
          /\ first' = IF b = 0 THEN [at |-> at, n |-> Samples] ELSE first
          /\ curr' = at + DecodedSize
          /\ defined' = (/\ defined
                        /\ DataAt + Length <= msg.plen
                        /\ at + DecodedSize <= ArenaSize
                        /\ \/ b = 0
                           \/ /\ first.at + MixedBytes <= ArenaSize
                              /\ at + MixedBytes <= ArenaSize)
    /\ offset' = NextOffset
    /\ b' = b + 1
    /\ UNCHANGED <<ts, start, pc, msg, work, ran, reply>>

\* No room for a buffer, or an unknown codec.
DecodeFails ==
    /\ Reached("decode") /\ HasBuffer /\ ~NoFrames
    /\ ts.in = "other" \/ ~DecodeFits(DecodedSize)
    /\ Fail
    /\ UNCHANGED <<ts, mem, curr, start, defined>>

\* The buffers are exhausted, as declared or early, without a single sample.
NothingDecoded ==
    /\ Reached("decode") /\ ~HasBuffer /\ first.n = 0
    /\ Fail
    /\ UNCHANGED <<ts, mem, curr, start, defined>>

\* vad_gru_process_pcm: it does not run without a sample or a channel, and it reads
\* whole frames only, of every channel.
VadReads(n, ch) == 2 * (n \div VadFrame) * VadFrame * ch
VadProb(n, ch) == IF n < 1 \/ ch = 0 THEN "off" ELSE IF n < VadFrame THEN "zero" ELSE "val"

\* The VAD runs on the input if that has its rate.
VadWanted(rate) == ts.vad /\ ts.state /\ rate = VadRate
VadOnInput ==
    /\ Reached("decode") /\ ~HasBuffer /\ first.n > 0
    /\ LET p == IF VadWanted(ts.inRate) THEN VadProb(first.n, ts.ic) ELSE "off"
       IN /\ ts' = [ts EXCEPT !.prob = p]
          /\ ran' = IF p = "off" THEN 0 ELSE 1
          /\ defined' = (defined /\ (p # "off" =>
                           first.at + VadReads(first.n, ts.ic) <= ArenaSize))
    /\ pc' = "resample"
    /\ UNCHANGED <<mem, curr, start, msg, b, offset, first, work, reply>>

\* Resampling, one channel's worth of samples.
Scaled(n) == (n * ts.outRate) \div ts.inRate
OutCap == Scaled(first.n) + Slack
Own(m, at, n) == \A a \in at..(at + n - 1) : a \in Cells /\ m[a] = "now"
Resample ==
    /\ Reached("resample") /\ ts.resample /\ ts.inRate > 0
    /\ Fits(curr, 2 * OutCap * ts.oc)
    /\ LET at == AllocAt(curr)
           tag == IF Own(mem, first.at, 2 * first.n) THEN "now" ELSE "old"
       IN /\ work' = [at |-> at, n |-> Scaled(first.n)]
          /\ mem' = [a \in Cells |->
                        IF a \in at..(at + 2 * Scaled(first.n) - 1) THEN tag ELSE mem[a]]
          /\ curr' = at + 2 * OutCap * ts.oc
          /\ defined' = (/\ defined
                        /\ first.at + 2 * first.n <= ArenaSize
                        /\ at + 2 * Scaled(first.n) <= ArenaSize)
    /\ pc' = "vad"
    /\ UNCHANGED <<ts, start, msg, b, offset, first, ran, reply>>

SameRate ==
    /\ Reached("resample") /\ ~ts.resample
    /\ work' = first /\ pc' = "vad"
    /\ UNCHANGED <<ts, mem, curr, start, msg, b, offset, first, ran, reply, defined>>

ResampleFails ==
    /\ Reached("resample") /\ ts.resample /\ ts.inRate > 0
    /\ ~Fits(curr, 2 * OutCap * ts.oc)
    /\ Fail
    /\ UNCHANGED <<ts, mem, curr, start, defined>>

\* The VAD runs on the output if that has its rate and it has not run before.
NotYetIgnored == TRUE                               \* mutant: not looked at
NotYet == ts.prob = "off"
VadOnOutput ==
    /\ Reached("vad")
    /\ LET again == VadWanted(ts.outRate) /\ NotYet
           p == VadProb(work.n, ts.oc)
       IN /\ ts' = IF again THEN [ts EXCEPT !.prob = p] ELSE ts
          /\ ran' = IF again /\ p # "off" THEN ran + 1 ELSE ran
          /\ defined' = (defined /\ (again /\ p # "off" =>
                           work.at + VadReads(work.n, ts.oc) <= ArenaSize))
    /\ pc' = "encode"
    /\ UNCHANGED <<mem, curr, start, msg, b, offset, first, work, reply>>

\* What the memmove to the front of the work area leaves: "len" bytes, each
\* computed from "width" consecutive bytes of the work buffer.
Moved(len, width) ==
    [a \in Cells |->
        IF a \in start..(start + len - 1)
        THEN IF Own(mem, work.at + width * (a - start), width) THEN "now" ELSE "old"
        ELSE mem[a]]

\* G.711: one byte per sample, through a buffer of its own.
EncodeG711 ==
    /\ Reached("encode") /\ ts.out = "g711" /\ Fits(curr, work.n)
    /\ mem' = Moved(work.n, 2)
    /\ Answer(mem', start + work.n, ts.prob)
    /\ defined' = (defined /\ work.at + 2 * work.n <= ArenaSize)
    /\ UNCHANGED <<ts, start>>

\* L16: the samples as they are, for every output channel.
L16Bytes == 2 * work.n * ts.oc
EncodeL16 ==
    /\ Reached("encode") /\ ts.out = "l16"
    /\ mem' = Moved(L16Bytes, 1)
    /\ Answer(mem', start + L16Bytes, ts.prob)
    /\ defined' = (defined /\ work.at + L16Bytes <= ArenaSize)
    /\ UNCHANGED <<ts, start>>

\* An unknown output codec is not an error: the reply holds the work buffers.
EncodeOther ==
    /\ Reached("encode") /\ ts.out = "other"
    /\ Answer(mem, curr, ts.prob)
    /\ UNCHANGED <<ts, mem, start, defined>>

EncodeFails ==
    /\ Reached("encode") /\ ts.out = "g711" /\ ~Fits(curr, work.n)
    /\ Fail
    /\ UNCHANGED <<ts, mem, curr, start, defined>>

\* Frames of no channel, or a rate of zero: a division by zero.
DividesByZero ==
    /\ \/ Reached("decode") /\ HasBuffer /\ NoFrames
       \/ Reached("resample") /\ ts.resample /\ ts.inRate = 0
    /\ defined' = FALSE
    /\ UNCHANGED <<ts, mem, curr, start, pipeline, reply>>

Next ==
    \/ \E c \in Configs : Start(c)
    \/ Stop \/ RejectShort \/ EmptyInput
    \/ \E m \in Inputs : BeginInput(m)
    \/ Decode \/ DecodeFails \/ NothingDecoded
    \/ VadOnInput \/ Resample \/ SameRate \/ ResampleFails \/ VadOnOutput
    \/ EncodeG711 \/ EncodeL16 \/ EncodeOther \/ EncodeFails
    \/ DividesByZero \/ Undefined

Spec == Init /\ [][Next]_vars

-------------------------------------------------------------------------------
(***************************************************************************)
(* Properties.                                                             *)
(***************************************************************************)
\* No message disturbs the VAD state of the session it was opened with: all
\* work buffers, and the output that is moved to their front, lie behind it
\* (server.c:216-223, 233).
VadStateIntact ==
    ts.state => /\ \A a \in VadRegion : mem[a] = "vad"
                /\ start >= VadEnd

\* The audio of a CMD_OUTPUT comes from the CMD_INPUT it answers, never from an
\* earlier one whose work buffers were at the same place: for G.711 buffers of
\* whole blocks, in mono, and for L16 passed on as it is; of the settings that are
\* workable (see AccessesInside).
Workable ==
    /\ ts.ic <= 2 /\ ts.oc <= 2            \* docs/protocol.md:38
    /\ ts.in = "l16" => ts.ic > 0
    /\ ts.resample => ts.inRate > 0 /\ ts.oc > 0
KnownCodecs == {ts.in, ts.out} \subseteq {"g711", "l16"}
Mono == ts.ic <= 1 /\ ts.oc <= 1
PassedOn == ts.in = "l16" /\ ts.out = "l16" /\ ~ts.resample /\ ts.ic = ts.oc
WholeBlocks(m) == \A i \in DOMAIN m.lens : m.lens[i] % Block = 0
OutputIsOwn ==
    /\ reply.kind = "output" /\ reply.to.n > 0 /\ KnownCodecs /\ Workable
    /\ PassedOn \/ (Mono /\ (ts.in = "g711" => WholeBlocks(reply.to)))
    => reply.data \subseteq {"now"}

\* A request that fails is answered with CMD_ERROR (docs/protocol.md:106), so
\* mono audio that is answered with CMD_OUTPUT was decoded.  VIOLATED: a G.711
\* decoder refuses a buffer that is not made of whole blocks, and the refusal is
\* ignored (transcode.c:127, 133; transcode_pcmu_to_l16.c:18-22).
OutputIsDecoded ==
    reply.kind = "output" /\ reply.to.n > 0 /\ KnownCodecs /\ Mono
        => reply.data \subseteq {"now"}

\* The VAD runs at most once for an answered CMD_INPUT, and it does when the session
\* has one, either stream has its rate, and there is a sample and a channel to run on;
\* the reply's probability is -1 exactly if it did not (transcode.c:163-201).
VadDue == ts.state /\ VadRate \in {ts.inRate, ts.outRate}
VadRunsOnce ==
    reply.kind = "output" /\ reply.to.n > 0 =>
        /\ reply.ran <= 1
        /\ reply.ran = 0 <=> reply.prob = "off"
        /\ reply.ran = 1 => VadDue
        /\ VadDue /\ ts.ic > 0 /\ ts.oc > 0 =>
              reply.ran = 1 \/ reply.data = {} \/ ts.out = "other"

\* With settings it can work with, no access of the pipeline leaves the arena or the
\* payload and nothing is divided by zero; the arena is never used up beyond its end,
\* whatever the settings.  The mixer, the VAD and the encoder do not look: they rely
\* on the arena being eight times the assembly buffer, and that is not enough for any
\* number of channels; and a length that wraps the 32-bit check of the parser is
\* caught only because the arena has no room for it (transcode.c:105-229,
\* parser.c:59).
AccessesInside == curr <= ArenaSize /\ (Workable => defined)

\* The parser always looks at a buffer header: its offset is where the layout of
\* docs/protocol.md:58-74 puts the next one, padding included; and all buffers
\* that lie inside the payload are used, up to the number declared.
ParsesEveryBuffer ==
    /\ pc = "decode" => offset = HeaderAt[msg][b]
    /\ pc \in {"resample", "vad", "encode"} =>
          b = msg.n \/ HeaderAt[msg][b] + HdrBuf + msg.lens[b + 1] > msg.plen

\* A CMD_INPUT with audio whose first buffer is inside the payload, and whose
\* output fits a reply, is answered with CMD_OUTPUT (docs/protocol.md:82), even if
\* the payload ends in the middle of another buffer, and whatever the messages
\* before it have left in the arena: requests that failed half-way took room in it
\* (server.c:233, transcode.c:108, arena.c:50).
EndOf(m, k) == HeaderAt[m][k - 1] + HdrBuf + m.lens[k]
WellFormed(m) ==
    m.n > 0 /\ EndOf(m, 1) <= m.plen /\ \A k \in 1..m.n : EndOf(m, k) < Word
OutputBytes(m) ==
    LET n == IF ts.in = "g711" THEN m.lens[1] ELSE m.lens[1] \div (2 * ts.ic)
        k == IF ts.resample THEN Scaled(n) ELSE n
    IN IF n = 0 THEN MaxData + 1 ELSE IF ts.out = "g711" THEN k ELSE 2 * k * ts.oc
FittingIsAnswered ==
    reply.kind # "none" /\ reply.to # NoMsg /\ KnownCodecs /\ Workable =>
        (WellFormed(reply.to) /\ OutputBytes(reply.to) <= MaxData
            => reply.kind = "output")
===============================================================================
