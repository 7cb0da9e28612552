---------------------------- MODULE AssemblerProofs ----------------------------
(***************************************************************************)
(* Proofs about Assembler: whatever the sizes, and however the stream is   *)
(* cut into chunks, its messages are dispatched in order and in time.      *)
(***************************************************************************)
EXTENDS Assembler, SequenceTheorems, TLAPS

Typed ==
    /\ stream \in Seq(Message) /\ received \in Nat /\ received <= Written
    /\ asm \in Seq(Nat) /\ offset \in 0..Len(asm)
    /\ parsing \in BOOLEAN /\ closing \in BOOLEAN /\ dropped \in BOOLEAN
    /\ handled \in Seq(Nat) /\ errors \in Nat

\* The messages of the stream follow one another.
End(k) == stream[k].at + stream[k].len
Contiguous ==
    /\ stream # << >> => stream[1].at = 0
    /\ \A k \in 1..Len(stream) : k < Len(stream) => stream[k + 1].at = End(k)
    /\ \A j, k \in 1..Len(stream) : j < k => End(j) <= stream[k].at

\* The buffer ends where the stream has been received up to, and the parser
\* stands behind the last message dispatched.
InStep ==
    /\ Len(handled) <= Len(stream)
    /\ received + offset = Consumed + Len(asm)
    /\ \A i \in 1..Len(asm) : asm[i] + Len(asm) = received + i - 1
    /\ \A i \in 1..Len(handled) : handled[i] = i /\ stream[i].ok

GivenUp ==
    /\ dropped => closing
    /\ errors > 0 => closing
    /\ ~parsing => offset = 0

AsmInv == /\ Typed /\ Contiguous /\ (~dropped => InStep) /\ GivenUp
          /\ OneErrorReply /\ Len(asm) <= AsmSize
          /\ NothingPending /\ SmallNeverOverflows

-------------------------------------------------------------------------------
(***************************************************************************)
(* The stream and the parser's place in it.                                *)
(***************************************************************************)
LEMMA MessageParts ==
    ASSUME NEW x \in Message
    PROVE  x.at \in Nat /\ x.len \in Nat /\ x.len \in Lengths /\ x.len >= HdrLen
           /\ x.len > 0 /\ x.ok \in BOOLEAN
  BY AssemblerAssumption DEF Message, Lengths

LEMMA StreamParts ==
    ASSUME Typed, NEW k \in 1..Len(stream)
    PROVE  /\ stream[k].at \in Nat /\ stream[k].len \in Nat /\ stream[k].len \in Lengths
           /\ stream[k].len >= HdrLen /\ stream[k].len > 0 /\ stream[k].ok \in BOOLEAN
           /\ End(k) \in Nat
<1>1. stream[k] \in Message
  BY DEF Typed
<1> QED
  BY <1>1, MessageParts DEF End

LEMMA WrittenTyped ==
    ASSUME Typed
    PROVE  /\ Written \in Nat
           /\ stream # << >> => Len(stream) \in 1..Len(stream) /\ Written = End(Len(stream))
<1>1. stream # << >> => Len(stream) \in 1..Len(stream)
  BY DEF Typed
<1>2. stream # << >> => Written \in Nat /\ Written = End(Len(stream))
  BY <1>1, StreamParts DEF Written, End
<1> QED
  BY <1>1, <1>2 DEF Written

LEMMA ConsumedTyped ==
    ASSUME Typed, InStep
    PROVE  Consumed \in Nat
<1>1. handled # << >> => Len(handled) \in 1..Len(stream)
  BY DEF Typed, InStep
<1>2. handled # << >> => Consumed = End(Len(handled))
  BY DEF Consumed, End
<1> QED
  BY <1>1, <1>2, StreamParts DEF Consumed

\* The message behind the last one dispatched begins at the parser's place.
LEMMA NextAt ==
    ASSUME Typed, Contiguous, InStep, NEW k, k = Len(handled) + 1
    PROVE  /\ k <= Len(stream) => k \in 1..Len(stream) /\ stream[k].at = Consumed
           /\ k > Len(stream) => Consumed = Written
<1>1. Len(handled) \in Nat /\ Len(stream) \in Nat /\ Len(handled) <= Len(stream)
  BY DEF Typed, InStep
<1>2. handled = << >> <=> Len(handled) = 0
  BY DEF Typed
<1>3. stream = << >> <=> Len(stream) = 0
  BY DEF Typed
<1>4. CASE handled = << >>
  BY <1>1, <1>2, <1>3, <1>4 DEF Consumed, Written, Contiguous
<1>5. CASE handled # << >>
  <2>1. Len(handled) \in 1..Len(stream) /\ Consumed = End(Len(handled))
    BY <1>1, <1>2, <1>5 DEF Consumed, End
  <2> QED
    BY <1>1, <1>3, <2>1, WrittenTyped DEF Contiguous
<1> QED
  BY <1>4, <1>5

\* What is left of the buffer are the bytes from there on.
LEMMA RestOfBuffer ==
    ASSUME Typed, InStep
    PROVE  /\ Len(asm) - offset \in Nat /\ Len(asm) - offset = received - Consumed
           /\ \A i \in 1..(Len(asm) - offset) : asm[offset + i] = Consumed + i - 1
<1>1. Consumed \in Nat /\ Len(asm) \in Nat /\ offset \in 0..Len(asm) /\ received \in Nat
  BY ConsumedTyped DEF Typed
<1>2. Len(asm) - offset \in Nat /\ Len(asm) - offset = received - Consumed
  BY <1>1 DEF InStep
<1>3. ASSUME NEW i \in 1..(Len(asm) - offset)
      PROVE  asm[offset + i] = Consumed + i - 1
  <2>1. offset + i \in 1..Len(asm)
    BY <1>1, <1>2
  <2>2. asm[offset + i] \in Nat
    BY <2>1 DEF Typed
  <2>3. asm[offset + i] + Len(asm) = received + (offset + i) - 1
    BY <2>1 DEF InStep
  <2> QED
    BY <1>1, <1>2, <2>2, <2>3
<1> QED
  BY <1>2, <1>3

\* Where a header may be there is one, and it is the next message's.
LEMMA HeaderIsNext ==
    ASSUME Typed, Contiguous, InStep, HeaderThere, NEW k, k = Len(handled) + 1
    PROVE  /\ k \in 1..Len(stream) /\ stream[k].at = Consumed
           /\ Seen = {[msg |-> k, len |-> stream[k].len, ok |-> stream[k].ok]}
<1>1. HdrLen \in Nat \ {0} /\ Consumed \in Nat /\ received \in Nat /\ Written \in Nat
      /\ received <= Written /\ k \in Nat /\ Len(stream) \in Nat
  BY AssemblerAssumption, ConsumedTyped, WrittenTyped DEF Typed
<1>2. received - Consumed >= HdrLen
  BY RestOfBuffer DEF HeaderThere
<1>3. k \in 1..Len(stream) /\ stream[k].at = Consumed
  BY <1>1, <1>2, NextAt
<1>4. \A i \in 1..HdrLen : asm[offset + i] = Consumed + i - 1
  BY <1>1, <1>2, RestOfBuffer
<1>5. k \in Headers
  BY <1>3, <1>4 DEF Headers
<1>6. ASSUME NEW j \in Headers PROVE j = k
  <2>1. j \in 1..Len(stream) /\ 1 \in 1..HdrLen
    BY <1>1, <1>6 DEF Headers
  <2>2. asm[offset + 1] = stream[j].at + 1 - 1
    BY <1>6, <2>1 DEF Headers
  <2>3. stream[j].at = stream[k].at
    BY <1>1, <1>3, <1>4, <2>1, <2>2, StreamParts
  <2>4. /\ stream[j].at < End(j) /\ stream[k].at < End(k)
        /\ j < k => End(j) <= stream[k].at
        /\ k < j => End(k) <= stream[j].at
    <3>1. /\ stream[j].at \in Nat /\ stream[j].len \in Nat /\ stream[j].len > 0
          /\ stream[k].at \in Nat /\ stream[k].len \in Nat /\ stream[k].len > 0
      BY <1>3, <2>1, StreamParts
    <3> QED
      BY <1>3, <2>1, <3>1 DEF Contiguous, End
  <2>5. stream[k].at \in Nat /\ End(j) \in Nat /\ End(k) \in Nat
    BY <1>3, <2>1, StreamParts
  <2>6. ~(j < k) /\ ~(k < j)
    BY <2>3, <2>4, <2>5
  <2> QED
    BY <1>1, <2>1, <2>6
<1>7. Headers = {k}
  BY <1>5, <1>6
<1> QED
  BY <1>3, <1>7 DEF Seen

\* What the parser may see has the length of a message, whatever it is.
LEMMA SeenTyped ==
    ASSUME Typed, NEW h \in Seen
    PROVE  h.msg \in Nat /\ h.len \in Nat /\ h.len > 0 /\ h.ok \in BOOLEAN
<1>1. CASE Headers # {}
  <2>1. PICK k \in Headers : h = [msg |-> k, len |-> stream[k].len, ok |-> stream[k].ok]
    BY <1>1 DEF Seen
  <2>2. k \in 1..Len(stream) /\ k \in Nat
    BY <2>1 DEF Headers, Typed
  <2> QED
    BY <2>1, <2>2, StreamParts
<1>2. CASE Headers = {}
  BY <1>2, AssemblerAssumption DEF Seen, Lengths
<1> QED
  BY <1>1, <1>2

\* Compaction keeps what has not been parsed, and only that (server.c:392-400).
LEMMA CompactedIs ==
    ASSUME Typed
    PROVE  /\ Compacted \in Seq(Nat) /\ Len(Compacted) = Len(asm) - offset
           /\ \A i \in 1..(Len(asm) - offset) : Compacted[i] = asm[offset + i]
<1>1. Len(asm) \in Nat /\ offset \in 0..Len(asm)
  BY DEF Typed
<1>2. CASE offset = Len(asm)
  BY <1>1, <1>2 DEF Compacted
<1>3. CASE offset # Len(asm)
  <2>1. Compacted = SubSeq(asm, offset + 1, Len(asm))
    BY <1>3 DEF Compacted
  <2>2. \A i \in (offset + 1)..Len(asm) : asm[i] \in Nat
    BY <1>1 DEF Typed
  <2>3. /\ Compacted \in Seq(Nat)
        /\ Len(Compacted) = Len(asm) - (offset + 1) + 1
        /\ \A i \in 1..(Len(asm) - (offset + 1) + 1) : Compacted[i] = asm[offset + 1 + i - 1]
    BY <1>1, <1>3, <2>1, <2>2, SubSeqProperties
  <2> QED
    BY <1>1, <2>3
<1> QED
  BY <1>2, <1>3

-------------------------------------------------------------------------------
(***************************************************************************)
(* The client writes.                                                      *)
(***************************************************************************)
\* One message more: the others stay, and the new one follows them.
LEMMA StreamGrows ==
    ASSUME Typed, Contiguous, NEW len \in Lengths, NEW ok \in BOOLEAN, Write(len, ok)
    PROVE  /\ stream' \in Seq(Message) /\ Len(stream') = Len(stream) + 1
           /\ \A k \in 1..Len(stream) : stream'[k] = stream[k]
           /\ stream'[Len(stream) + 1] = [at |-> Written, len |-> len, ok |-> ok]
           /\ Written' = Written + len /\ len \in Nat /\ len > 0
           /\ Contiguous'
<1>1. len \in Nat /\ len > 0 /\ Written \in Nat /\ Len(stream) \in Nat
  BY AssemblerAssumption, WrittenTyped DEF Lengths, Typed
<1>2. PICK e : e = [at |-> Written, len |-> len, ok |-> ok]
  OBVIOUS
<1>3. e \in Message /\ stream' = Append(stream, e) /\ stream \in Seq(Message)
  BY <1>1, <1>2 DEF Message, Write, Typed
<1>4. /\ stream' \in Seq(Message) /\ Len(stream') = Len(stream) + 1
      /\ \A k \in 1..Len(stream) : stream'[k] = stream[k]
      /\ stream'[Len(stream) + 1] = e
  BY <1>3
<1>5. Written' = Written + len
  BY <1>1, <1>2, <1>4 DEF Written
<1>6. Contiguous'
  <2>1. stream'[1].at = 0
    <3>1. CASE stream = << >>
      BY <1>2, <1>4, <3>1 DEF Written
    <3>2. CASE stream # << >>
      BY <1>1, <1>4, <3>2, WrittenTyped DEF Contiguous
    <3> QED
      BY <3>1, <3>2
  <2>2. ASSUME NEW k \in 1..Len(stream'), k < Len(stream') PROVE stream'[k + 1].at = End(k)'
    <3>1. k \in 1..Len(stream) /\ stream'[k] = stream[k]
      BY <1>1, <1>4, <2>2
    <3>2. CASE k = Len(stream)
      BY <1>1, <1>2, <1>4, <3>1, <3>2, WrittenTyped DEF End
    <3>3. CASE k < Len(stream)
      <4>1. stream'[k + 1] = stream[k + 1]
        BY <1>1, <1>4, <3>1, <3>3
      <4> QED
        BY <3>1, <3>3, <4>1 DEF Contiguous, End
    <3> QED
      BY <1>1, <3>1, <3>2, <3>3
  <2>3. ASSUME NEW j \in 1..Len(stream'), NEW k \in 1..Len(stream'), j < k
        PROVE  End(j)' <= stream'[k].at
    <3>1. j \in 1..Len(stream) /\ stream'[j] = stream[j]
      BY <1>1, <1>4, <2>3
    <3>2. CASE k = Len(stream) + 1
      <4>1. Written = End(Len(stream)) /\ Len(stream) \in 1..Len(stream)
        BY <3>1, WrittenTyped
      <4>2. j < Len(stream) => End(j) <= stream[Len(stream)].at
        BY <3>1, <4>1 DEF Contiguous
      <4>3. End(j) <= Written
        BY <1>1, <3>1, <4>1, <4>2, StreamParts DEF End
      <4> QED
        BY <1>2, <1>4, <3>1, <3>2, <4>3 DEF End
    <3>3. CASE k # Len(stream) + 1
      <4>1. k \in 1..Len(stream) /\ stream'[k] = stream[k]
        BY <1>1, <1>4, <3>3
      <4> QED
        BY <2>3, <3>1, <4>1 DEF Contiguous, End
    <3> QED
      BY <3>2, <3>3
  <2> QED
    BY <2>1, <2>2, <2>3 DEF Contiguous
<1> QED
  BY <1>1, <1>2, <1>4, <1>5, <1>6

LEMMA WriteKeeps ==
    ASSUME AsmInv, NEW len \in Lengths, NEW ok \in BOOLEAN, Write(len, ok)
    PROVE  AsmInv'
<1>1. /\ Typed /\ Contiguous /\ UNCHANGED <<received, asm, offset, parsing, closing, handled, errors, dropped>>
      /\ Written \in Nat /\ received \in Nat /\ received <= Written /\ Len(stream) \in Nat
  BY WrittenTyped DEF AsmInv, Write, Typed
<1>2. /\ stream' \in Seq(Message) /\ Len(stream') = Len(stream) + 1
      /\ \A k \in 1..Len(stream) : stream'[k] = stream[k]
      /\ stream'[Len(stream) + 1] = [at |-> Written, len |-> len, ok |-> ok]
      /\ Written' = Written + len /\ len \in Nat /\ len > 0
      /\ Contiguous'
  BY <1>1, StreamGrows
<1>3. Typed'
  BY <1>1, <1>2 DEF Typed
<1>4. ~dropped => InStep'
  <2> SUFFICES ASSUME ~dropped PROVE InStep'
    OBVIOUS
  <2>1. InStep /\ Len(handled) \in Nat
    BY DEF AsmInv, Typed
  <2>2. handled # << >> => Len(handled) \in 1..Len(stream)
    BY <1>1, <2>1 DEF InStep
  <2>3. Consumed' = Consumed
    BY <1>1, <1>2, <2>2 DEF Consumed
  <2>4. \A i \in 1..Len(handled) : stream'[i] = stream[i]
    BY <1>1, <1>2, <2>1 DEF InStep
  <2>5. Len(handled) <= Len(stream') /\ received + offset = Consumed' + Len(asm)
    BY <1>1, <1>2, <2>1, <2>3 DEF InStep
  <2>6. \A i \in 1..Len(handled) : handled[i] = i /\ stream'[i].ok
    BY <2>1, <2>4 DEF InStep
  <2>7. \A i \in 1..Len(asm) : asm[i] + Len(asm) = received + i - 1
    BY <2>1 DEF InStep
  <2>8. UNCHANGED <<received, asm, offset, handled>>
    BY <1>1
  <2> QED
    BY <2>5, <2>6, <2>7, <2>8 DEF InStep
<1>5. NothingPending'
  <2> SUFFICES ASSUME ~parsing, ~closing, NEW k \in 1..Len(stream'),
                      stream'[k].at + stream'[k].len <= received
               PROVE  k <= Len(handled)
    BY <1>1 DEF NothingPending
  <2>1. k # Len(stream) + 1
    BY <1>1, <1>2
  <2>2. k \in 1..Len(stream) /\ stream'[k] = stream[k]
    BY <1>1, <1>2, <2>1
  <2> QED
    BY <2>2 DEF AsmInv, NothingPending
<1>6. SmallNeverOverflows'
  <2> SUFFICES ASSUME \A k \in 1..Len(stream') : stream'[k].ok /\ stream'[k].len <= FitsAlways
               PROVE  ~closing
    BY <1>1 DEF SmallNeverOverflows, FitsAlways
  <2>1. \A k \in 1..Len(stream) : k \in 1..Len(stream')
    BY <1>1, <1>2
  <2>2. \A k \in 1..Len(stream) : stream[k].ok /\ stream[k].len <= FitsAlways
    BY <1>2, <2>1
  <2> QED
    BY <2>2 DEF AsmInv, SmallNeverOverflows
<1> QED
  BY <1>1, <1>2, <1>3, <1>4, <1>5, <1>6 DEF AsmInv, GivenUp, OneErrorReply

-------------------------------------------------------------------------------
(***************************************************************************)
(* A chunk arrives.                                                        *)
(***************************************************************************)
\* Between two chunks of a stream that is still served, what is buffered is
\* less than one message.
LEMMA PartOfAMessage ==
    ASSUME AsmInv, ~parsing, ~closing, NEW n \in 1..RecvSize, received + n <= Written,
           \A k \in 1..Len(stream) : stream[k].ok /\ stream[k].len <= FitsAlways
    PROVE  ~Overflows(n)
<1>1. /\ Typed /\ Contiguous /\ InStep /\ offset = 0
      /\ Len(asm) \in Nat /\ received \in Nat /\ Written \in Nat /\ Consumed \in Nat
  BY WrittenTyped, ConsumedTyped DEF AsmInv, GivenUp, Typed
<1>2. PICK k : k = Len(handled) + 1
  OBVIOUS
<1>3. Len(asm) = received - Consumed
  BY <1>1, RestOfBuffer
<1>4. n \in Nat \ {0} /\ n <= RecvSize /\ RecvSize \in Nat /\ AsmSize \in Nat
  BY AssemblerAssumption
<1>5. k \in 1..Len(stream) /\ stream[k].at = Consumed
  <2>1. Len(handled) \in Nat /\ Len(stream) \in Nat
    BY <1>1 DEF Typed
  <2> QED
    BY <1>1, <1>2, <1>3, <1>4, <2>1, NextAt
<1>6. received < stream[k].at + stream[k].len
  <2>1. ~(k <= Len(handled))
    BY <1>1, <1>2 DEF Typed
  <2>2. ~(stream[k].at + stream[k].len <= received)
    BY <1>5, <2>1 DEF AsmInv, NothingPending
  <2> QED
    BY <1>1, <1>5, <2>2, StreamParts
<1>7. stream[k].len <= AsmSize + 1 - RecvSize
  BY <1>5 DEF FitsAlways
<1> QED
  BY <1>1, <1>3, <1>4, <1>5, <1>6, <1>7, StreamParts DEF Overflows

LEMMA OverflowKeeps ==
    ASSUME AsmInv, NEW n \in 1..RecvSize, Overflow(n)
    PROVE  AsmInv'
<1>1. /\ ~parsing /\ received' = received + n /\ received + n <= Written
      /\ closing' = TRUE /\ dropped' = TRUE /\ n \in Nat
      /\ UNCHANGED <<stream, asm, offset, parsing, handled, errors>>
  BY AssemblerAssumption DEF Overflow
<1>2. Typed' /\ Contiguous'
  BY <1>1 DEF AsmInv, Typed, Contiguous, End, Written
<1>3. SmallNeverOverflows'
  <2> SUFFICES ASSUME \A k \in 1..Len(stream) : stream[k].ok /\ stream[k].len <= FitsAlways
               PROVE  FALSE
    BY <1>1 DEF SmallNeverOverflows, FitsAlways
  <2>1. ~closing
    BY DEF AsmInv, SmallNeverOverflows
  <2> QED
    BY <1>1, <2>1, PartOfAMessage DEF Overflow
<1> QED
  BY <1>1, <1>2, <1>3 DEF AsmInv, GivenUp, OneErrorReply, NothingPending

LEMMA ReceiveKeeps ==
    ASSUME AsmInv, NEW n \in 1..RecvSize, Receive(n)
    PROVE  AsmInv'
<1>1. /\ ~parsing /\ received' = received + n /\ received + n <= Written
      /\ offset' = 0 /\ parsing' = TRUE /\ ~(Len(asm) + n > AsmSize) /\ n \in Nat
      /\ UNCHANGED <<stream, closing, handled, errors, dropped>>
  BY AssemblerAssumption DEF Receive, Overflows
<1>2. PICK chunk : chunk = [i \in 1..n |-> received + i - 1]
  OBVIOUS
<1>3. /\ Typed /\ received \in Nat /\ asm \in Seq(Nat) /\ Len(asm) \in Nat /\ AsmSize \in Nat
      /\ offset = 0
  BY <1>1, AssemblerAssumption DEF AsmInv, Typed, GivenUp
<1>4. chunk \in Seq(Nat) /\ Len(chunk) = n /\ \A i \in 1..n : chunk[i] = received + i - 1
  <2>1. \A i \in 1..n : received + i - 1 \in Nat
    BY <1>1, <1>3
  <2> QED
    BY <1>1, <1>2, <2>1
<1>5. /\ asm' \in Seq(Nat) /\ Len(asm') = Len(asm) + n
      /\ \A i \in 1..(Len(asm) + n) :
            asm'[i] = IF i <= Len(asm) THEN asm[i] ELSE received + (i - Len(asm)) - 1
  <2>1. asm' = asm \o chunk
    BY <1>2 DEF Receive
  <2>2. /\ asm' \in Seq(Nat) /\ Len(asm') = Len(asm) + Len(chunk)
        /\ \A i \in 1..(Len(asm) + Len(chunk)) :
              asm'[i] = IF i <= Len(asm) THEN asm[i] ELSE chunk[i - Len(asm)]
    BY <1>3, <1>4, <2>1, ConcatProperties
  <2>3. \A i \in 1..(Len(asm) + n) : ~(i <= Len(asm)) => i - Len(asm) \in 1..n
    BY <1>1, <1>3
  <2> QED
    BY <1>4, <2>2, <2>3
<1>6. Typed' /\ Contiguous'
  BY <1>1, <1>3, <1>5 DEF AsmInv, Typed, Contiguous, End, Written
<1>7. ~dropped => InStep'
  <2> SUFFICES ASSUME ~dropped PROVE InStep'
    OBVIOUS
  <2>1. InStep /\ Consumed' = Consumed /\ Consumed \in Nat
    BY <1>1, <1>3, ConsumedTyped DEF AsmInv, Consumed
  <2>2. ASSUME NEW i \in 1..Len(asm') PROVE asm'[i] + Len(asm') = received' + i - 1
    <3>1. CASE i <= Len(asm)
      <4>1. i \in 1..Len(asm) /\ asm'[i] = asm[i] /\ asm[i] \in Nat
        BY <1>3, <1>5, <2>2, <3>1
      <4>2. asm[i] + Len(asm) = received + i - 1
        BY <2>1, <4>1 DEF InStep
      <4>3. Len(asm') = Len(asm) + n /\ received' = received + n
        BY <1>1, <1>5
      <4>4. PICK x \in Nat, a \in Nat, r \in Nat :
               x = asm[i] /\ a = Len(asm) /\ r = received
        BY <1>3, <4>1
      <4>5. x + (a + n) = (r + n) + i - 1
        BY <1>1, <4>2, <4>4
      <4> QED
        BY <4>1, <4>3, <4>4, <4>5
    <3>2. CASE ~(i <= Len(asm))
      BY <1>1, <1>3, <1>5, <2>2, <3>2
    <3> QED
      BY <3>1, <3>2
  <2> QED
    BY <1>1, <1>3, <1>5, <2>1, <2>2 DEF InStep
<1> QED
  BY <1>1, <1>3, <1>5, <1>6, <1>7
     DEF AsmInv, GivenUp, OneErrorReply, NothingPending, SmallNeverOverflows, FitsAlways

-------------------------------------------------------------------------------
(***************************************************************************)
(* A turn of the parser.                                                   *)
(***************************************************************************)
LEMMA DispatchKeeps == AsmInv /\ Dispatch => AsmInv'
<1> SUFFICES ASSUME AsmInv, Dispatch PROVE AsmInv'
  OBVIOUS
<1>1. PICK h \in Seen : /\ h.ok /\ Complete(h)
                        /\ handled' = Append(handled, h.msg) /\ offset' = offset + h.len
  BY DEF Dispatch
<1>2. /\ parsing /\ HeaderThere
      /\ UNCHANGED <<stream, received, asm, parsing, closing, errors, dropped>>
  BY DEF Dispatch
<1>3. /\ Typed /\ Contiguous /\ h.msg \in Nat /\ h.len \in Nat /\ h.len > 0
      /\ Len(asm) \in Nat /\ offset \in 0..Len(asm) /\ Len(handled) \in Nat
      /\ handled \in Seq(Nat) /\ received \in Nat
  BY SeenTyped DEF AsmInv, Typed
<1>4. /\ handled' \in Seq(Nat) /\ Len(handled') = Len(handled) + 1
      /\ \A i \in 1..Len(handled) : handled'[i] = handled[i]
      /\ handled'[Len(handled) + 1] = h.msg /\ handled' # << >>
  BY <1>1, <1>3
<1>5. offset' \in 0..Len(asm)
  BY <1>1, <1>3 DEF Complete
<1>6. Typed' /\ Contiguous'
  BY <1>2, <1>3, <1>4, <1>5 DEF Typed, Contiguous, End, Written
<1>7. ~dropped => InStep'
  <2> SUFFICES ASSUME ~dropped PROVE InStep'
    OBVIOUS
  <2>1. InStep /\ Consumed \in Nat
    BY <1>3, ConsumedTyped DEF AsmInv
  <2>2. PICK k : k = Len(handled) + 1
    OBVIOUS
  <2>3. /\ k \in 1..Len(stream) /\ stream[k].at = Consumed
        /\ Seen = {[msg |-> k, len |-> stream[k].len, ok |-> stream[k].ok]}
    BY <1>2, <1>3, <2>1, <2>2, HeaderIsNext
  <2>4. h.msg = k /\ h.len = stream[k].len /\ h.ok = stream[k].ok
    BY <2>3
  <2>5. Consumed' = Consumed + h.len
    BY <1>2, <1>4, <2>2, <2>3, <2>4 DEF Consumed
  <2>6. Len(handled') <= Len(stream) /\ received + offset' = Consumed' + Len(asm)
    <3>1. Len(handled') <= Len(stream)
      BY <1>4, <2>2, <2>3
    <3>2. received + offset = Consumed + Len(asm)
      BY <2>1 DEF InStep
    <3>3. received + (offset + h.len) = (Consumed + h.len) + Len(asm)
      <4>1. PICK l \in Nat, c \in Nat : l = h.len /\ c = Consumed
        BY <1>3, <2>1
      <4>2. received + (offset + l) = (c + l) + Len(asm)
        <5>1. received \in Nat /\ offset \in Nat /\ Len(asm) \in Nat
          BY <1>3
        <5>2. received + offset = c + Len(asm)
          BY <3>2, <4>1, Zenon
        <5> QED
          BY <5>1, <5>2
      <4> QED
        BY <4>1, <4>2
    <3> QED
      BY <1>1, <2>5, <3>1, <3>3
  <2>7. ASSUME NEW i \in 1..Len(handled') PROVE handled'[i] = i /\ stream[i].ok
    <3>1. CASE i = k
      BY <1>1, <1>4, <2>2, <2>4, <3>1
    <3>2. CASE i # k
      <4>1. i \in 1..Len(handled)
        BY <1>3, <1>4, <2>2, <2>7, <3>2
      <4> QED
        BY <1>4, <2>1, <4>1 DEF InStep
    <3> QED
      BY <3>1, <3>2
  <2> QED
    BY <1>2, <2>1, <2>6, <2>7 DEF InStep
<1> QED
  BY <1>2, <1>6, <1>7
     DEF AsmInv, GivenUp, OneErrorReply, NothingPending, SmallNeverOverflows, FitsAlways

\* However the loop ends, the buffer keeps its place in the stream.
LEMMA EndOfReadKeeps ==
    ASSUME AsmInv, EndOfRead, UNCHANGED <<stream, received, handled, dropped>>,
           closing' \in BOOLEAN, errors' \in Nat
    PROVE  /\ Typed' /\ Contiguous' /\ (~dropped' => InStep') /\ Len(asm') <= AsmSize
           /\ offset' = 0 /\ ~parsing' /\ Len(asm') = Len(asm) - offset
<1>1. /\ asm' \in Seq(Nat) /\ Len(asm') = Len(asm) - offset
      /\ \A i \in 1..(Len(asm) - offset) : asm'[i] = asm[offset + i]
      /\ offset' = 0 /\ parsing' = FALSE
  BY CompactedIs DEF EndOfRead, AsmInv
<1>2. /\ Typed /\ Len(asm) \in Nat /\ offset \in 0..Len(asm) /\ received \in Nat
      /\ Len(asm) <= AsmSize /\ AsmSize \in Nat
  BY AssemblerAssumption DEF AsmInv, Typed
<1>3. Typed' /\ Contiguous'
  <2>1. Written' = Written /\ Len(asm') \in Nat /\ offset' \in 0..Len(asm')
    BY <1>1, <1>2 DEF Written
  <2>2. Typed'
    BY <1>1, <1>2, <2>1 DEF Typed
  <2>3. Contiguous'
    BY DEF AsmInv, Contiguous, End
  <2> QED
    BY <2>2, <2>3
<1>4. ~dropped => InStep'
  <2> SUFFICES ASSUME ~dropped PROVE InStep'
    OBVIOUS
  <2>1. InStep /\ Consumed \in Nat /\ Consumed' = Consumed
    BY <1>2, ConsumedTyped DEF AsmInv, Consumed
  <2>2. /\ Len(asm) - offset = received - Consumed
        /\ \A i \in 1..(Len(asm) - offset) : asm[offset + i] = Consumed + i - 1
    BY <1>2, <2>1, RestOfBuffer
  <2>3. ASSUME NEW i \in 1..Len(asm') PROVE asm'[i] + Len(asm') = received' + i - 1
    <3>1. asm'[i] = Consumed + i - 1 /\ Len(asm') = received - Consumed /\ i \in Nat
      BY <1>1, <2>2
    <3> QED
      BY <1>2, <2>1, <3>1
  <2> QED
    BY <1>1, <1>2, <2>1, <2>2, <2>3 DEF InStep
<1> QED
  BY <1>1, <1>2, <1>3, <1>4

LEMMA RejectKeeps == AsmInv /\ Reject => AsmInv'
<1> SUFFICES ASSUME AsmInv, Reject PROVE AsmInv'
  OBVIOUS
<1>1. /\ HeaderThere /\ EndOfRead /\ closing' = TRUE
      /\ errors' = IF RepliesError THEN errors + 1 ELSE errors
      /\ UNCHANGED <<stream, received, handled, dropped>>
  BY DEF Reject
<1>2. errors \in Nat /\ errors' \in Nat /\ errors' <= 1
  BY <1>1 DEF AsmInv, Typed, GivenUp, OneErrorReply, RepliesError
<1>3. /\ Typed' /\ Contiguous' /\ (~dropped' => InStep') /\ Len(asm') <= AsmSize
      /\ offset' = 0 /\ ~parsing'
  BY <1>1, <1>2, EndOfReadKeeps
<1>4. SmallNeverOverflows'
  <2> SUFFICES ASSUME \A k \in 1..Len(stream) : stream[k].ok /\ stream[k].len <= FitsAlways
               PROVE  FALSE
    BY <1>1 DEF SmallNeverOverflows, FitsAlways
  <2>1. Typed /\ Contiguous /\ ~dropped /\ InStep
    BY DEF AsmInv, SmallNeverOverflows, GivenUp
  <2>2. PICK k : k = Len(handled) + 1
    OBVIOUS
  <2>3. /\ k \in 1..Len(stream)
        /\ Seen = {[msg |-> k, len |-> stream[k].len, ok |-> stream[k].ok]}
    BY <1>1, <2>1, <2>2, HeaderIsNext
  <2>4. PICK h \in Seen : ~h.ok
    BY DEF Reject
  <2>5. h.ok = stream[k].ok
    BY <2>3
  <2> QED
    BY <2>3, <2>4, <2>5
<1> QED
  BY <1>1, <1>2, <1>3, <1>4 DEF AsmInv, GivenUp, OneErrorReply, NothingPending

LEMMA WaitKeeps == AsmInv /\ Wait => AsmInv'
<1> SUFFICES ASSUME AsmInv, Wait PROVE AsmInv'
  OBVIOUS
<1>1. /\ EndOfRead /\ UNCHANGED <<stream, received, closing, handled, errors, dropped>>
      /\ Typed /\ Contiguous /\ closing \in BOOLEAN /\ errors \in Nat
  BY DEF Wait, AsmInv, Typed
<1>2. /\ Typed' /\ Contiguous' /\ (~dropped' => InStep') /\ Len(asm') <= AsmSize
      /\ offset' = 0 /\ ~parsing'
  BY <1>1, EndOfReadKeeps
<1>3. NothingPending'
  <2> SUFFICES ASSUME ~closing, NEW k \in 1..Len(stream),
                      stream[k].at + stream[k].len <= received, ~(k <= Len(handled))
               PROVE  FALSE
    BY <1>1 DEF NothingPending
  <2>1. InStep /\ Consumed \in Nat
    BY <1>1, ConsumedTyped DEF AsmInv, GivenUp
  <2>2. PICK next : next = Len(handled) + 1
    OBVIOUS
  <2>3. Len(handled) \in Nat /\ Len(stream) \in Nat /\ received \in Nat /\ HdrLen \in Nat
    BY <1>1, AssemblerAssumption DEF Typed
  <2>4. next \in 1..Len(stream) /\ next <= k /\ stream[next].at = Consumed
    BY <1>1, <2>1, <2>2, <2>3, NextAt
  <2>5. next < k => stream[next].at + stream[next].len <= stream[k].at
    BY <1>1, <2>4 DEF Contiguous, End
  <2>6. /\ stream[next].len \in Nat /\ stream[next].len >= HdrLen
        /\ stream[k].at \in Nat /\ stream[k].len \in Nat
    BY <1>1, <2>4, StreamParts
  <2>7. Consumed + stream[next].len <= received
    <3>1. CASE next = k
      BY <2>4, <3>1
    <3>2. CASE next < k
      <4>1. stream[next].at + stream[next].len <= stream[k].at
        BY <2>5, <3>2
      <4>2. stream[k].at <= received
        BY <2>3, <2>6
      <4>3. Consumed + stream[next].len <= stream[k].at
        BY <2>4, <4>1
      <4> QED
        BY <2>1, <2>3, <2>6, <4>2, <4>3
    <3> QED
      BY <2>2, <2>3, <2>4, <3>1, <3>2
  <2>8. Len(asm) - offset = received - Consumed
    BY <1>1, <2>1, RestOfBuffer
  <2>9. HeaderThere /\ Len(asm) - offset >= stream[next].len
    BY <2>1, <2>3, <2>6, <2>7, <2>8 DEF HeaderThere
  <2>10. Seen = {[msg |-> next, len |-> stream[next].len, ok |-> stream[next].ok]}
    BY <1>1, <2>1, <2>2, <2>9, HeaderIsNext
  <2>11. PICK h \in Seen : ~Complete(h)
    BY <2>9 DEF Wait
  <2>12. h.len = stream[next].len
    BY <2>10
  <2> QED
    BY <2>9, <2>11, <2>12 DEF Complete
<1> QED
  BY <1>1, <1>2, <1>3 DEF AsmInv, GivenUp, OneErrorReply, SmallNeverOverflows, FitsAlways

-------------------------------------------------------------------------------
(***************************************************************************)
(* The invariant, and what follows from it.                                *)
(***************************************************************************)
LEMMA AsmInit == Init => AsmInv
<1> SUFFICES ASSUME Init PROVE AsmInv
  OBVIOUS
<1>1. /\ stream = << >> /\ received = 0 /\ asm = << >> /\ offset = 0 /\ ~parsing /\ ~closing
      /\ handled = << >> /\ errors = 0 /\ ~dropped
      /\ parsing \in BOOLEAN /\ closing \in BOOLEAN /\ dropped \in BOOLEAN
  BY DEF Init
<1>2. Written = 0 /\ Consumed = 0 /\ Len(stream) = 0 /\ Len(asm) = 0 /\ Len(handled) = 0
  BY <1>1 DEF Written, Consumed
<1>3. Typed
  BY <1>1, <1>2 DEF Typed
<1>4. Contiguous /\ InStep
  BY <1>1, <1>2 DEF Contiguous, InStep
<1> QED
  BY <1>1, <1>2, <1>3, <1>4, AssemblerAssumption
     DEF AsmInv, GivenUp, OneErrorReply, NothingPending, SmallNeverOverflows

LEMMA AsmStep == AsmInv /\ [Next]_vars => AsmInv'
<1> SUFFICES ASSUME AsmInv, [Next]_vars PROVE AsmInv'
  OBVIOUS
<1>1. ASSUME NEW len \in Lengths, NEW ok \in BOOLEAN, Write(len, ok) PROVE AsmInv'
  BY <1>1, WriteKeeps
<1>2. ASSUME NEW n \in 1..RecvSize, Overflow(n) PROVE AsmInv'
  BY <1>2, OverflowKeeps
<1>3. ASSUME NEW n \in 1..RecvSize, Receive(n) PROVE AsmInv'
  BY <1>3, ReceiveKeeps
<1>4. CASE Dispatch
  BY <1>4, DispatchKeeps
<1>5. CASE Reject
  BY <1>5, RejectKeeps
<1>6. CASE Wait
  BY <1>6, WaitKeeps
<1>7. CASE UNCHANGED vars
  BY <1>7 DEF vars, AsmInv, Typed, Contiguous, End, Written, InStep, Consumed, GivenUp,
     OneErrorReply, NothingPending, SmallNeverOverflows, FitsAlways
<1> QED
  BY <1>1, <1>2, <1>3, <1>4, <1>5, <1>6, <1>7 DEF Next

LEMMA AsmInvariant == Spec => []AsmInv
  BY AsmInit, AsmStep, PTL DEF Spec

\* The messages of the stream are dispatched in order, each once and none behind
\* an invalid header, which is answered once (server.c:179-390).
THEOREM MessagesAreInOrder == Spec => []HandledInOrder
<1>1. AsmInv => HandledInOrder
  BY DEF AsmInv, InStep, HandledInOrder
<1> QED
  BY <1>1, AsmInvariant, PTL

\* Between two chunks every message received in full has been dispatched
\* (server.c:179-194).
THEOREM NoneIsPending == Spec => []NothingPending
<1>1. AsmInv => NothingPending
  BY DEF AsmInv
<1> QED
  BY <1>1, AsmInvariant, PTL

\* Compaction keeps exactly the bytes that have not been parsed, and the buffer
\* is never overfull (server.c:168, 392-400).
THEOREM BytesAreKept == Spec => []NoByteLost
<1>1. AsmInv => NoByteLost
  <2> SUFFICES ASSUME AsmInv PROVE NoByteLost
    OBVIOUS
  <2>1. InBounds
    BY DEF AsmInv, Typed, InBounds
  <2>2. ASSUME ~parsing, ~dropped
        PROVE  asm = [i \in 1..(received - Consumed) |-> Consumed + i - 1]
    <3>1. Typed /\ InStep /\ offset = 0 /\ Len(asm) \in Nat /\ asm \in Seq(Nat)
      BY <2>2 DEF AsmInv, GivenUp, Typed
    <3>2. /\ Len(asm) = received - Consumed
          /\ \A i \in 1..Len(asm) : asm[0 + i] = Consumed + i - 1
      BY <3>1, RestOfBuffer
    <3>3. asm = [i \in 1..Len(asm) |-> asm[i]]
      BY <3>1
    <3>4. \A i \in 1..Len(asm) : asm[i] = Consumed + i - 1
      BY <3>1, <3>2
    <3> QED
      BY <3>2, <3>3, <3>4
  <2> QED
    BY <2>1, <2>2 DEF NoByteLost
<1> QED
  BY <1>1, AsmInvariant, PTL

\* A stream of valid messages, none longer than the buffer less the longest
\* chunk, plus one byte, is never given up, however it is cut (server.c:168).
THEOREM SmallFits == Spec => []SmallNeverOverflows
<1>1. AsmInv => SmallNeverOverflows
  BY DEF AsmInv
<1> QED
  BY <1>1, AsmInvariant, PTL

-------------------------------------------------------------------------------
(***************************************************************************)
(* The reassembly implements Delivery: every step of it dispatches the     *)
(* next message, refuses it, loses a chunk, or changes nothing.            *)
(***************************************************************************)
\* A session that is given up although nothing was dropped stands before an
\* invalid message, for good.
Refused == closing /\ ~dropped =>
               Len(handled) + 1 <= Len(stream) /\ ~stream[Len(handled) + 1].ok

DeliveryInv == AsmInv /\ Refused

\* What the parser sees while nothing was dropped is the message that is due.
LEMMA SeesTheNext ==
    ASSUME AsmInv, ~dropped, HeaderThere, NEW h \in Seen
    PROVE  /\ Len(handled) + 1 \in 1..Len(stream) /\ h.msg = Len(handled) + 1
           /\ h.ok = stream[Len(handled) + 1].ok
<1>1. Typed /\ Contiguous /\ InStep
  BY DEF AsmInv
<1>2. PICK k : k = Len(handled) + 1
  OBVIOUS
<1>3. /\ k \in 1..Len(stream)
      /\ Seen = {[msg |-> k, len |-> stream[k].len, ok |-> stream[k].ok]}
  BY <1>1, <1>2, HeaderIsNext
<1> QED
  BY <1>2, <1>3

LEMMA RefusedStep == DeliveryInv /\ [Next]_vars => Refused'
<1> SUFFICES ASSUME DeliveryInv, [Next]_vars, closing', ~dropped'
             PROVE  Len(handled') + 1 <= Len(stream') /\ ~stream'[Len(handled') + 1].ok
  BY DEF Refused
<1>0. AsmInv /\ stream \in Seq(Message) /\ Len(handled) \in Nat
  BY DEF DeliveryInv, AsmInv, Typed
<1>1. ASSUME NEW len \in Lengths, NEW ok \in BOOLEAN, Write(len, ok)
      PROVE  Len(handled') + 1 <= Len(stream') /\ ~stream'[Len(handled') + 1].ok
  <2>1. closing /\ ~dropped /\ handled' = handled
    BY <1>1 DEF Write
  <2>2. PICK k \in 1..Len(stream) : k = Len(handled) + 1 /\ ~stream[k].ok
    BY <1>0, <2>1 DEF DeliveryInv, Refused
  <2>3. Len(stream') = Len(stream) + 1 /\ stream'[k] = stream[k]
    BY <1>0, <1>1, StreamGrows DEF AsmInv
  <2> QED
    BY <1>0, <2>1, <2>2, <2>3
<1>2. ASSUME NEW n \in 1..RecvSize, Overflow(n) PROVE FALSE
  BY <1>2 DEF Overflow
<1>3. ASSUME UNCHANGED <<stream, handled, closing, dropped>>
      PROVE  Len(handled') + 1 <= Len(stream') /\ ~stream'[Len(handled') + 1].ok
  BY <1>3 DEF DeliveryInv, Refused
<1>4. ~Dispatch
  <2> SUFFICES ASSUME Dispatch PROVE FALSE
    OBVIOUS
  <2>1. HeaderThere /\ closing /\ ~dropped
    BY DEF Dispatch
  <2>2. PICK h \in Seen : h.ok
    BY DEF Dispatch
  <2> QED
    BY <1>0, <2>1, <2>2, SeesTheNext DEF DeliveryInv, Refused
<1>5. CASE Reject
  <2>1. HeaderThere /\ ~dropped /\ handled' = handled /\ stream' = stream
    BY <1>5 DEF Reject
  <2>2. PICK h \in Seen : ~h.ok
    BY <1>5 DEF Reject
  <2>3. Len(handled) + 1 \in 1..Len(stream) /\ ~stream[Len(handled) + 1].ok
    BY <1>0, <2>1, <2>2, SeesTheNext
  <2> QED
    BY <2>1, <2>3
<1>6. CASE Wait \/ (\E n \in 1..RecvSize : Receive(n)) \/ UNCHANGED vars
  BY <1>3, <1>6 DEF Wait, Receive, vars
<1> QED
  BY <1>1, <1>2, <1>4, <1>5, <1>6 DEF Next

LEMMA DeliveryInvariant == Spec => []DeliveryInv
<1>1. Init => DeliveryInv
  BY AsmInit DEF Init, DeliveryInv, Refused
<1>2. DeliveryInv /\ [Next]_vars => DeliveryInv'
  BY AsmStep, RefusedStep DEF DeliveryInv
<1> QED
  BY <1>1, <1>2, PTL DEF Spec

LEMMA SentGrows ==
    ASSUME AsmInv, NEW len \in Lengths, NEW ok \in BOOLEAN, Write(len, ok)
    PROVE  Promise!Send(ok)
<1>1. stream \in Seq(Message) /\ stream' = Append(stream, [at |-> Written, len |-> len, ok |-> ok])
  BY DEF AsmInv, Typed, Write
<1>2. PICK x : x = [at |-> Written, len |-> len, ok |-> ok]
  OBVIOUS
<1>3. x.ok = ok
  BY <1>2
<1>4. PICK n \in Nat : n = Len(stream)
  BY <1>1
<1>5. Len(stream') = n + 1 /\ stream'[n + 1] = x /\ \A k \in 1..n : stream'[k] = stream[k]
  BY <1>1, <1>2, <1>4
<1>6. /\ Sent \in Seq(BOOLEAN) /\ Len(Sent) = n /\ \A k \in 1..n : Sent[k] = stream[k].ok
  <2>1. \A k \in 1..n : stream[k].ok \in BOOLEAN
    BY <1>4, StreamParts DEF AsmInv
  <2> QED
    BY <1>4, <2>1 DEF Sent
<1>7. /\ Sent' \in Seq(BOOLEAN) /\ Len(Sent') = n + 1
      /\ \A k \in 1..(n + 1) : Sent'[k] = stream'[k].ok
  <2>1. Sent' = [k \in 1..(n + 1) |-> stream'[k].ok]
    BY <1>5 DEF Sent
  <2>2. \A k \in 1..(n + 1) : stream'[k].ok \in BOOLEAN
    <3> TAKE k \in 1..(n + 1)
    <3>1. k \in 1..n => stream[k].ok \in BOOLEAN
      BY <1>4, StreamParts DEF AsmInv
    <3>2. k \in 1..n \/ k = n + 1
      BY <1>4
    <3> QED
      BY <1>3, <1>5, <3>1, <3>2
  <2> QED
    BY <1>4, <2>1, <2>2
<1>8. /\ Append(Sent, ok) \in Seq(BOOLEAN) /\ Len(Append(Sent, ok)) = n + 1
      /\ \A k \in 1..n : Append(Sent, ok)[k] = Sent[k]
      /\ Append(Sent, ok)[n + 1] = ok
  BY <1>4, <1>6
<1>9. ASSUME NEW k \in 1..(n + 1) PROVE Sent'[k] = Append(Sent, ok)[k]
  <2>1. k \in 1..n \/ k = n + 1
    BY <1>4
  <2> QED
    BY <1>3, <1>5, <1>6, <1>7, <1>8, <2>1
<1>10. Sent' = Append(Sent, ok)
  BY <1>7, <1>8, <1>9, SeqEqual
<1>11. handled' = handled /\ errors' = errors /\ Standing' = Standing
  BY DEF Write, Standing
<1> QED
  BY <1>10, <1>11 DEF Promise!Send

\* THEOREM: the reassembly implements Delivery, however the stream is cut into
\* chunks (server.c:162-402).
THEOREM StreamIsDelivered == Spec => ImplementsDelivery
<1>1. Init => Promise!Init
  <2> SUFFICES ASSUME Init PROVE Promise!Init
    OBVIOUS
  <2>1. stream = << >> /\ handled = << >> /\ errors = 0 /\ ~dropped /\ ~closing
    BY DEF Init
  <2>2. Sent = << >> /\ Standing = "open"
    BY <2>1 DEF Sent, Standing
  <2> QED
    BY <2>1, <2>2 DEF Promise!Init
<1>2. DeliveryInv /\ [Next]_vars => [Promise!Next]_(Promise!vars)
  <2> SUFFICES ASSUME DeliveryInv, [Next]_vars PROVE [Promise!Next]_(Promise!vars)
    OBVIOUS
  <2>0. AsmInv /\ closing \in BOOLEAN /\ dropped \in BOOLEAN /\ Len(stream) \in Nat
    BY DEF DeliveryInv, AsmInv, Typed
  <2>a. stream' = stream => Sent' = Sent
    BY DEF Sent
  <2>b. closing' = closing /\ dropped' = dropped => Standing' = Standing
    BY DEF Standing
  <2>c. Len(Sent) = Len(stream) /\ \A k \in 1..Len(stream) : Sent[k] = stream[k].ok
    BY <2>0 DEF Sent
  <2>1. ASSUME NEW len \in Lengths, NEW ok \in BOOLEAN, Write(len, ok) PROVE Promise!Next
    BY <2>0, <2>1, SentGrows DEF Promise!Next
  <2>2. ASSUME NEW n \in 1..RecvSize, Overflow(n) PROVE Promise!Lose
    <3>1. stream' = stream /\ handled' = handled /\ errors' = errors /\ dropped' = TRUE
      BY <2>2 DEF Overflow
    <3> QED
      BY <2>a, <3>1 DEF Promise!Lose, Standing
  <2>3. ASSUME UNCHANGED <<stream, handled, errors, closing, dropped>>
        PROVE  UNCHANGED Promise!vars
    BY <2>3, <2>a, <2>b DEF Promise!vars
  <2>4. CASE Dispatch
    <3>1. /\ HeaderThere /\ UNCHANGED <<stream, errors, closing, dropped>>
      BY <2>4 DEF Dispatch
    <3>2. PICK h \in Seen : h.ok /\ handled' = Append(handled, h.msg)
      BY <2>4 DEF Dispatch
    <3>3. CASE ~dropped
      <4>1. /\ Len(handled) + 1 \in 1..Len(stream) /\ h.msg = Len(handled) + 1
            /\ stream[Len(handled) + 1].ok
        BY <2>0, <3>1, <3>2, <3>3, SeesTheNext
      <4>2. Standing = "open"
        BY <3>3, <4>1 DEF Standing, DeliveryInv, Refused
      <4>3. Promise!Deliver
        BY <2>0, <2>a, <2>b, <2>c, <3>1, <3>2, <4>1, <4>2 DEF Promise!Deliver, Promise!Due
      <4> QED
        BY <4>3 DEF Promise!Next
    <3>4. CASE dropped
      <4>1. h.msg \in 0..Len(Sent)
        BY <2>0, <2>c DEF Seen, Headers
      <4>2. Standing = "lost"
        BY <3>4 DEF Standing
      <4>3. Promise!DeliverAny
        BY <2>a, <2>b, <3>1, <3>2, <4>1, <4>2 DEF Promise!DeliverAny
      <4> QED
        BY <4>3 DEF Promise!Next
    <3> QED
      BY <3>3, <3>4
  <2>5. CASE Reject
    <3>1. /\ HeaderThere /\ UNCHANGED <<stream, handled, dropped>> /\ closing' = TRUE
          /\ errors' = IF ~closing THEN errors + 1 ELSE errors
      BY <2>5 DEF Reject, RepliesError
    <3>2. CASE closing
      BY <2>0, <2>3, <3>1, <3>2
    <3>3. CASE ~closing
      <4>1. ~dropped
        BY <2>0, <3>3 DEF AsmInv, GivenUp
      <4>2. PICK h \in Seen : ~h.ok
        BY <2>5 DEF Reject
      <4>3. Len(handled) + 1 \in 1..Len(stream) /\ ~stream[Len(handled) + 1].ok
        BY <2>0, <3>1, <4>1, <4>2, SeesTheNext
      <4>4. Standing = "open" /\ Standing' = "refused"
        BY <3>1, <3>3, <4>1 DEF Standing
      <4>5. Promise!Refuse
        BY <2>a, <2>c, <3>1, <3>3, <4>3, <4>4 DEF Promise!Refuse, Promise!Due
      <4> QED
        BY <4>5 DEF Promise!Next
    <3> QED
      BY <3>2, <3>3
  <2>6. CASE Wait \/ (\E n \in 1..RecvSize : Receive(n)) \/ UNCHANGED vars
    BY <2>3, <2>6 DEF Wait, Receive, vars
  <2> QED
    BY <2>1, <2>2, <2>4, <2>5, <2>6 DEF Next, Promise!Next
<1> QED
  BY <1>1, <1>2, DeliveryInvariant, PTL DEF Spec, ImplementsDelivery, Promise!Spec
===============================================================================
