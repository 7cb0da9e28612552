------------------------------- MODULE Assembler -------------------------------
(***************************************************************************)
(* process_client_read (src/src/core/server.c): how one session turns the  *)
(* chunks a multishot read delivers back into protocol messages.           *)
(*                                                                         *)
(* The client's stream is a sequence of messages, each a header followed   *)
(* by a payload; a byte is the position it has in that stream, so a lost,  *)
(* repeated or displaced byte is visible.  A chunk is any run of bytes of  *)
(* at most RecvSize, wherever the boundaries of the messages are.  What a  *)
(* dispatched message does is the subject of other modules; here it is     *)
(* only recorded in "handled".                                             *)
(***************************************************************************)
EXTENDS Naturals, Sequences

CONSTANTS
    HdrLen,      \* sizeof(AudioMsgHeader)
    AsmSize,     \* sizeof(session->assemble_buf)
    RecvSize,    \* BUF_SIZE: the longest chunk
    MaxLen,      \* bound: the longest message, header included
    MaxMsgs      \* bound: messages of the stream

ASSUME AssemblerAssumption ==
    /\ HdrLen \in Nat \ {0} /\ AsmSize \in Nat /\ RecvSize \in Nat \ {0}
    /\ MaxLen \in Nat /\ MaxMsgs \in Nat

VARIABLES
    stream,      \* the messages the client has written: where, how long, valid header?
    received,    \* bytes of the stream the worker has received
    asm,         \* assemble_buf[0 .. assemble_len): stream positions
    offset,      \* parse position in asm
    parsing,     \* inside process_client_read's loop
    closing,     \* session->closing
    handled,     \* history: the messages dispatched, by index; 0 for no message of the stream
    errors,      \* history: ERR_INVALID_MAGIC replies requested
    dropped      \* history: an overflow has dropped a chunk

vars == <<stream, received, asm, offset, parsing, closing, handled, errors, dropped>>

Lengths == HdrLen..MaxLen
Message == [at : Nat, len : Lengths, ok : BOOLEAN]
Written == IF stream = << >> THEN 0
           ELSE stream[Len(stream)].at + stream[Len(stream)].len

Init ==
    /\ stream = << >> /\ received = 0
    /\ asm = << >> /\ offset = 0 /\ parsing = FALSE /\ closing = FALSE
    /\ handled = << >> /\ errors = 0 /\ dropped = FALSE

-------------------------------------------------------------------------------
\* The client writes one more message.
Write(len, ok) ==
    /\ Len(stream) < MaxMsgs
    /\ stream' = Append(stream, [at |-> Written, len |-> len, ok |-> ok])
    /\ UNCHANGED <<received, asm, offset, parsing, closing, handled, errors, dropped>>

\* assemble_len + nread > sizeof(assemble_buf)
OverflowsWhenFull(n) == Len(asm) + n >= AsmSize      \* mutant: off by one
Overflows(n) == Len(asm) + n > AsmSize

\* A chunk that does not fit is dropped, and the session given up.
Overflow(n) ==
    /\ ~parsing /\ received + n <= Written /\ Overflows(n)
    /\ received' = received + n
    /\ closing' = TRUE /\ dropped' = TRUE
    /\ UNCHANGED <<stream, asm, offset, parsing, handled, errors>>

\* A chunk that fits is appended, and parsing begins.
Receive(n) ==
    /\ ~parsing /\ received + n <= Written /\ ~Overflows(n)
    /\ received' = received + n
    /\ asm' = asm \o [i \in 1..n |-> received + i - 1]
    /\ offset' = 0 /\ parsing' = TRUE
    /\ UNCHANGED <<stream, closing, handled, errors, dropped>>

\* The loop goes on while the rest of the buffer may hold a header.
HeaderAndMore == Len(asm) - offset > HdrLen         \* mutant: off by one
HeaderThere == Len(asm) - offset >= HdrLen

\* The message whose header the parser is looking at, if it is one.
Headers ==
    {k \in 1..Len(stream) :
        \A i \in 1..HdrLen : asm[offset + i] = stream[k].at + i - 1}

\* What it reads there: that header, or, where a dropped chunk has left other
\* bytes, whatever they happen to say.
Seen ==
    IF Headers # {}
    THEN {[msg |-> k, len |-> stream[k].len, ok |-> stream[k].ok] : k \in Headers}
    ELSE [msg : {0}, len : Lengths, ok : BOOLEAN]

Complete(h) == Len(asm) - offset >= h.len

\* The end of the handler: what is left of the buffer moves to its front.
KeptWhole == asm                                    \* mutant: no memmove
LostTail  == IF offset > 0 THEN << >> ELSE asm      \* mutant: the rest is lost
Compacted == IF offset = Len(asm) THEN << >>
             ELSE SubSeq(asm, offset + 1, Len(asm))

EndOfRead ==
    /\ asm' = Compacted /\ offset' = 0 /\ parsing' = FALSE

\* A complete message is dispatched, and the parser moves past it.
Dispatch ==
    /\ parsing /\ HeaderThere
    /\ \E h \in Seen :
          /\ h.ok /\ Complete(h)
          /\ handled' = Append(handled, h.msg)
          /\ offset' = offset + h.len
    /\ UNCHANGED <<stream, received, asm, parsing, closing, errors, dropped>>

\* An invalid header: an error reply, unless the session is closing already;
\* the header stays where it is.
RepliesAlways == TRUE                               \* mutant: guard dropped
RepliesError == ~closing
Reject ==
    /\ parsing /\ HeaderThere /\ \E h \in Seen : ~h.ok
    /\ errors' = IF RepliesError THEN errors + 1 ELSE errors
    /\ closing' = TRUE
    /\ EndOfRead
    /\ UNCHANGED <<stream, received, handled, dropped>>

\* The rest is a partial message, or not even a header.
Wait ==
    /\ parsing /\ (HeaderThere => \E h \in Seen : h.ok /\ ~Complete(h))
    /\ EndOfRead
    /\ UNCHANGED <<stream, received, closing, handled, errors, dropped>>

Next ==
    \/ \E len \in Lengths, ok \in BOOLEAN : Write(len, ok)
    \/ \E n \in 1..RecvSize : Overflow(n) \/ Receive(n)
    \/ Dispatch \/ Reject \/ Wait

Spec == Init /\ [][Next]_vars

-------------------------------------------------------------------------------
\* However the stream is cut into chunks, its messages are dispatched in order,
\* each once, and none behind an invalid header (server.c:179-390); the error
\* reply to that is sent once, although the header stays at the front of the
\* buffer and is met again with every chunk that still arrives (:129-131, 184).
OneErrorReply == errors <= 1
HandledInOrder ==
    OneErrorReply /\ (~dropped => \A i \in 1..Len(handled) : handled[i] = i /\ stream[i].ok)

\* Between two chunks, every message received in full has been dispatched, as
\* long as the session is open: no reply waits for the client's next chunk.
NothingPending ==
    ~parsing /\ ~closing =>
        \A k \in 1..Len(stream) :
            stream[k].at + stream[k].len <= received => k <= Len(handled)

\* Between two chunks, the buffer holds exactly the bytes behind the last
\* dispatched message: compaction loses and repeats none (server.c:392-400); the
\* buffer is never overfull, and the parser never runs past what it holds.
Consumed == IF handled = << >> THEN 0
            ELSE stream[Len(handled)].at + stream[Len(handled)].len
InBounds == Len(asm) <= AsmSize /\ offset <= Len(asm)
NoByteLost ==
    /\ InBounds
    /\ ~parsing /\ ~dropped =>
          asm = [i \in 1..(received - Consumed) |-> Consumed + i - 1]

\* A stream of valid messages of at most AsmSize - RecvSize + 1 bytes is never
\* given up: between two chunks at most one incomplete message is buffered, and
\* the longest chunk fits behind it (server.c:168, server.h:17, 76).  A longer
\* message is lost or not depending on how the kernel cuts the stream.
FitsAlways == AsmSize + 1 - RecvSize
SmallNeverOverflows ==
    (\A k \in 1..Len(stream) : stream[k].ok /\ stream[k].len <= FitsAlways) => ~closing

-------------------------------------------------------------------------------
(***************************************************************************)
(* The reassembly implements Delivery.                                     *)
(***************************************************************************)
Sent == [k \in 1..Len(stream) |-> stream[k].ok]
Standing == IF dropped THEN "lost" ELSE IF closing THEN "refused" ELSE "open"

Promise == INSTANCE Delivery
              WITH sent <- Sent, delivered <- handled, refused <- errors,
                   state <- Standing

\* However chunks and messages overlap, each step dispatches the next message,
\* refuses it, or changes nothing a client can tell (server.c:162-402): once one
\* is refused nothing is dispatched or answered any more, and no error reply
\* follows the loss of a chunk.
ImplementsDelivery == Promise!Spec
===============================================================================
