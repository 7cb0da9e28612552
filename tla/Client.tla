-------------------------------- MODULE Client --------------------------------
(***************************************************************************)
(* The load-generating client (src/src/client/main.c): the discovery       *)
(* phase, one connection per concurrent stream with its ramp-up and        *)
(* pacing timer, the parser of the replies, and the ways a run ends.       *)
(*                                                                         *)
(* The client is one libuv loop: every action is one callback, or an event *)
(* of the world outside (a worker answers, a worker hangs up, a signal).   *)
(* libuv and the workers are modelled from how the client uses them.  A    *)
(* signal is taken while the loop polls, which is where it spends its      *)
(* time.  A reply is two pieces, its header and its payload; the socket    *)
(* delivers any number of pieces at once.                                  *)
(***************************************************************************)
EXTENDS Naturals, Sequences

CONSTANTS
    Clients,      \* config.concurrent: the connections are 0 .. Clients - 1
    Workers,      \* workers the server was started with
    Chunk,        \* bytes of one packet of audio
    Size,         \* bytes of the input file
    MaxSent       \* bound: messages one connection sends (looping never ends)

ASSUME ClientAssumption ==
    /\ Clients \in Nat \ {0} /\ Workers \in Nat \ {0}
    /\ Chunk \in Nat \ {0} /\ Size \in Nat /\ Chunk <= Size
    /\ MaxSent \in Nat

Conns == 0..(Clients - 1)

VARIABLES
    options,      \* --loop, --duration and --ramp-up
    dead,         \* workers that are gone
    found,        \* g_app.num_workers: how many the client believes there are
    phase,        \* where main is
    running,      \* g_app.running
    asleep,       \* the poll sleeps with nothing left that could wake it
    gtimer,       \* g_app.global_timer
    stream,       \* the stream handle of each connection
    timer,        \* conn->timer
    offset,       \* conn->offset
    seq,          \* conn->sequence_id
    due,          \* messages a worker has received and not answered
    answered,     \* history: replies the worker has sent
    cut,          \* a reply was sent short (server.c:772 does not send the rest)
    hungup,       \* the worker has closed the connection
    wire,         \* pieces of replies the socket holds
    rbuf,         \* conn->read_buf
    counted       \* the replies counted, each as the numbers of its two pieces

conns == <<stream, timer, offset, seq>>
peer  == <<due, answered, cut, hungup>>
replies == <<wire, rbuf, counted>>
app   == <<options, dead, found, phase, running, asleep, gtimer>>
vars  == <<app, conns, peer, replies>>

\* What parse_args makes of the command line, as far as control depends on it;
\* the rest is in the constants.
Options == [loop : BOOLEAN, duration : BOOLEAN, ramp : BOOLEAN]

All(x) == [c \in Conns |-> x]

Init ==
    /\ options \in Options
    /\ dead \in SUBSET (0..(Workers - 1))
    /\ found = 0 /\ phase = "discover" /\ running = FALSE /\ asleep = FALSE
    /\ gtimer = "none" /\ stream = All("none") /\ timer = All("none")
    /\ offset = All(0) /\ seq = All(0)
    /\ due = All(0) /\ answered = All(0) /\ cut = All(FALSE) /\ hungup = All(FALSE)
    /\ wire = All(<< >>) /\ rbuf = All(<< >>) /\ counted = All(<< >>)

-------------------------------------------------------------------------------
(***************************************************************************)
(* Discovery and set-up.                                                   *)
(***************************************************************************)

\* Worker 0 cannot be reached, hangs up, or the first read has less than the
\* header of its reply: the client exits.  If it has the header and the number is
\* not there yet, what is taken for it is memory nobody wrote, and 0 ends the
\* client too: the first connection, which has no ramp-up delay, divides by it.
DiscoveryFails ==
    /\ phase = "discover" /\ phase' = "failed"
    /\ UNCHANGED <<options, dead, found, running, asleep, gtimer, conns, peer, replies>>

\* What on_discover_read may take for the number of workers: what worker 0 has
\* answered, which is how many the server was started with, or, from a reply cut
\* behind its header, any number.  Those above Clients choose the same workers.
Readings == {Workers} \cup 1..Clients

\* main sets up every connection and enters the loop.
Staggered == options.ramp /\ Clients > 1
Discovered ==
    /\ phase = "discover" /\ 0 \notin dead
    /\ found' \in Readings
    /\ phase' = "run" /\ running' = TRUE
    /\ gtimer' = IF options.duration THEN "armed" ELSE "none"
    /\ IF Staggered
       THEN stream' = All("idle") /\ timer' = All("ramp")
       ELSE stream' = All("connecting") /\ timer' = All("idle")
    /\ UNCHANGED <<options, dead, asleep, offset, seq, peer, replies>>

\* The worker of a connection: round robin over the number discovered.
Worker(c) == c % found
Lives(w) == w < Workers /\ w \notin dead

-------------------------------------------------------------------------------
(***************************************************************************)
(* Connections.  A closing handle has no callbacks any more.               *)
(***************************************************************************)
Looping == phase = "run" /\ ~asleep

\* on_ramp_up_delay: the delays grow with the connection's number.
RampUpInSeries(c) ==                                \* mutant: after the last one
    /\ Looping /\ timer[c] = "ramp" /\ \A b \in 0..(c - 1) : stream[b] = "open"
    /\ timer' = [timer EXCEPT ![c] = "idle"]
    /\ stream' = [stream EXCEPT ![c] = "connecting"]
    /\ UNCHANGED <<app, offset, seq, peer, replies>>
RampUp(c) ==
    /\ Looping /\ timer[c] = "ramp" /\ \A b \in 0..(c - 1) : timer[b] # "ramp"
    /\ timer' = [timer EXCEPT ![c] = "idle"]
    /\ stream' = [stream EXCEPT ![c] = "connecting"]
    /\ UNCHANGED <<app, offset, seq, peer, replies>>

\* on_connect: send START, read, and pace the audio with the same timer.
Connected(c) ==
    /\ Looping /\ stream[c] = "connecting" /\ Lives(Worker(c))
    /\ stream' = [stream EXCEPT ![c] = "open"]
    /\ timer' = [timer EXCEPT ![c] = "pacing"]
    /\ seq' = [seq EXCEPT ![c] = 1]
    /\ UNCHANGED <<app, offset, peer, replies>>

\* on_connect with an error: the connection is left as it is.
ConnectFails(c) ==
    /\ Looping /\ stream[c] = "connecting" /\ ~Lives(Worker(c))
    /\ stream' = [stream EXCEPT ![c] = "idle"]
    /\ UNCHANGED <<app, timer, offset, seq, peer, replies>>

\* send_input_chunk: at the end of the input the offset wraps, or the timer is
\* stopped.  A chunk is counted as sent even if uv_write refuses it, which it
\* does once the worker has hung up and the stream is closed.
Exhausted(o) == o + Chunk > Size
NeverStops(c) == "pacing"                           \* mutant: timer not stopped
AtEnd(c) == "idle"
Tick(c) ==
    /\ Looping /\ timer[c] = "pacing"
    /\ \/ /\ Exhausted(offset[c]) /\ ~options.loop
          /\ timer' = [timer EXCEPT ![c] = AtEnd(c)]
          /\ UNCHANGED <<offset, seq, due>>
       \/ /\ ~Exhausted(offset[c]) \/ options.loop
          /\ seq[c] < MaxSent
          /\ offset' = [offset EXCEPT ![c] =
                           (IF Exhausted(offset[c]) THEN 0 ELSE offset[c]) + Chunk]
          /\ seq' = [seq EXCEPT ![c] = @ + 1]
          /\ due' = [due EXCEPT ![c] = IF stream[c] = "open" THEN @ + 1 ELSE @]
          /\ UNCHANGED timer
    /\ UNCHANGED <<app, stream, answered, cut, hungup, replies>>

\* on_read: the pieces that have arrived are appended to the buffer, and every
\* complete message at its front is counted and removed.  Where a header should
\* be and none is, parsing stops, now and ever after.
ReadsOne(b) ==                                      \* mutant: one message a read
    IF Len(b) >= 2 /\ b[1].part = "header" THEN 1 ELSE 0
Complete(b) ==
    CHOOSE k \in 0..(Len(b) \div 2) :
        /\ \A j \in 1..k : b[2 * j - 1].part = "header"
        /\ k < Len(b) \div 2 => b[2 * k + 1].part # "header"
NotRemoved(b) == b                                  \* mutant: counted again
Rest(b) == SubSeq(b, 2 * Complete(b) + 1, Len(b))
Read(c) ==
    /\ Looping /\ stream[c] = "open"
    /\ \E k \in 1..Len(wire[c]) :
          LET b == rbuf[c] \o SubSeq(wire[c], 1, k) IN
          /\ wire' = [wire EXCEPT ![c] = SubSeq(@, k + 1, Len(@))]
          /\ rbuf' = [rbuf EXCEPT ![c] = Rest(b)]
          /\ counted' = [counted EXCEPT ![c] =
                @ \o [j \in 1..Complete(b) |-> <<b[2 * j - 1].of, b[2 * j].of>>]]
    /\ UNCHANGED <<app, conns, peer>>

\* on_read at the end of the stream: the stream is closed, its timer is not.
ReadEnd(c) ==
    /\ Looping /\ stream[c] = "open" /\ hungup[c] /\ wire[c] = << >>
    /\ stream' = [stream EXCEPT ![c] = "closing"]
    /\ UNCHANGED <<app, timer, offset, seq, peer, replies>>

-------------------------------------------------------------------------------
(***************************************************************************)
(* The end of a run.                                                       *)
(***************************************************************************)
Armed == gtimer = "armed" \/ \E c \in Conns : timer[c] \in {"ramp", "pacing"}

\* stop_app: uv_close on every handle that is not closing yet.
TimersLeft(t) == t                                  \* mutant: only the streams
Closed(h) == IF h \in {"none", "closing", "closed"} THEN h ELSE "closing"
ClosedTimer(t) == Closed(t)
StopApp ==
    /\ running /\ running' = FALSE
    /\ stream' = [c \in Conns |-> Closed(stream[c])]
    /\ timer' = [c \in Conns |-> ClosedTimer(timer[c])]
    /\ gtimer' = Closed(gtimer)
    /\ UNCHANGED <<options, dead, found, phase, offset, seq, peer, replies>>

\* on_global_timer: the duration of the test is over.
DurationOver == Looping /\ gtimer = "armed" /\ StopApp /\ UNCHANGED asleep

\* signal_handler, in the middle of the poll.  libuv resumes an interrupted
\* poll: with a timer armed it returns when that was due; without one it may
\* not return at all, for the descriptors it waited for are closed.
Signalled == Looping /\ StopApp /\ asleep' \in (IF Armed THEN {FALSE} ELSE BOOLEAN)

\* The loop's closing phase.
CloseHandles ==
    LET gone(h) == IF h = "closing" THEN "closed" ELSE h IN
    /\ Looping
    /\ gtimer = "closing" \/ \E c \in Conns : "closing" \in {stream[c], timer[c]}
    /\ gtimer' = gone(gtimer)
    /\ stream' = [c \in Conns |-> gone(stream[c])]
    /\ timer' = [c \in Conns |-> gone(timer[c])]
    /\ UNCHANGED <<options, dead, found, phase, running, asleep, offset, seq, peer, replies>>

\* uv_run returns when nothing is active; main reports and exits.
Alive(c) == \/ stream[c] \in {"connecting", "open", "closing"}
            \/ timer[c] \in {"ramp", "pacing", "closing"}
LoopEnds ==
    /\ Looping /\ gtimer \notin {"armed", "closing"} /\ \A c \in Conns : ~Alive(c)
    /\ phase' = "report"
    /\ UNCHANGED <<options, dead, found, running, asleep, gtimer, conns, peer, replies>>

-------------------------------------------------------------------------------
(***************************************************************************)
(* The workers.                                                            *)
(***************************************************************************)

\* A worker answers the oldest packet.  Once per connection at most, the reply
\* may be sent short.
Reply(c) ==
    /\ phase = "run" /\ stream[c] = "open" /\ ~hungup[c] /\ due[c] > 0
    /\ due' = [due EXCEPT ![c] = @ - 1]
    /\ answered' = [answered EXCEPT ![c] = @ + 1]
    /\ LET header  == [of |-> answered'[c], part |-> "header"]
           payload == [of |-> answered'[c], part |-> "payload"]
       IN \/ /\ wire' = [wire EXCEPT ![c] = @ \o <<header, payload>>]
             /\ UNCHANGED cut
          \/ /\ ~cut[c] /\ cut' = [cut EXCEPT ![c] = TRUE]
             /\ wire' = [wire EXCEPT ![c] = @ \o <<header>>]
    /\ UNCHANGED <<app, conns, hungup, rbuf, counted>>

HangUp(c) ==
    /\ phase = "run" /\ stream[c] = "open" /\ ~hungup[c]
    /\ hungup' = [hungup EXCEPT ![c] = TRUE]
    /\ UNCHANGED <<app, conns, due, answered, cut, replies>>

\* The client has exited, or sleeps for good, or a timer goes on at the bound.
AtBound == phase = "run" /\ \E c \in Conns : timer[c] = "pacing" /\ seq[c] = MaxSent
Over == (phase \in {"failed", "report"} \/ asleep \/ AtBound) /\ UNCHANGED vars

Callback(c) == RampUp(c) \/ Connected(c) \/ ConnectFails(c) \/ Tick(c)
                 \/ Read(c) \/ ReadEnd(c)
Next ==
    \/ DiscoveryFails \/ Discovered
    \/ \E c \in Conns : Callback(c) \/ Reply(c) \/ HangUp(c)
    \/ DurationOver \/ Signalled \/ CloseHandles \/ LoopEnds
    \/ Over

\* The loop runs every callback that is due; nobody has to hang up or signal.
Spec ==
    /\ Init /\ [][Next]_vars
    /\ \A c \in Conns : /\ WF_vars(RampUp(c)) /\ WF_vars(Tick(c))
                        /\ WF_vars(Connected(c) \/ ConnectFails(c))
                        /\ WF_vars(Read(c) \/ ReadEnd(c))
    /\ WF_vars(DurationOver) /\ WF_vars(CloseHandles) /\ WF_vars(LoopEnds)

-------------------------------------------------------------------------------
(***************************************************************************)
(* Properties.                                                             *)
(***************************************************************************)

\* Every reply is counted once and in order, and a reply counted has its own
\* payload, however reads cut the stream (main.c:408-470).  If the server sent a
\* reply short (server.c:772-788), the next one's header is taken for its
\* payload: that is counted, and nothing after it.
CountedOnce ==
    \A c \in Conns : \A i \in 1..Len(counted[c]) :
        \/ counted[c][i] = <<i, i>>
        \/ cut[c] /\ i = Len(counted[c]) /\ counted[c][i] = <<i, i + 1>>

\* Between two callbacks, every reply that has arrived in full is counted: on_read
\* goes on to the last complete message (main.c:408-474), unless the server sent one
\* short.
ArrivedAreCounted ==
    \A c \in Conns :
        cut[c] \/ Len(counted[c]) = (2 * answered[c] - Len(wire[c])) \div 2

\* So what is counted is what has arrived: each reply once, and none left behind
\* (main.c:401-474).
CountsReplies == CountedOnce /\ ArrivedAreCounted

\* What a worker has answered is counted in the end, unless the connection is
\* closed first or a reply was sent short: no complete message is left in the
\* buffer until more arrives (main.c:408-474).
AnswersAreCounted ==
    \A c \in Conns : \A k \in 1..MaxSent :
        answered[c] >= k
            ~> (Len(counted[c]) >= k \/ cut[c] \/ stream[c] # "open" \/ asleep)

\* A run that has been stopped ends: every handle is closed, whatever its
\* connection was doing (main.c:295-318).  The exception is a signal that
\* interrupts a poll nothing is left to wake.
StopEnds == (phase = "run" /\ ~running) ~> (phase = "report" \/ asleep)

\* When every connection has failed or was hung up on, the client ends too,
\* for its timers stop at the end of the input (main.c:535-551), except when it
\* loops and has no duration.
Gone(c) == timer[c] # "ramp" /\ stream[c] \in {"idle", "closed"}
EndsWhenAllGone ==
    (phase = "run" /\ \A c \in Conns : Gone(c))
        ~> (phase = "report" \/ asleep \/ (options.loop /\ ~options.duration))

\* A connection whose worker lives is made, although the connections before it
\* fail (main.c:614-617) or are hung up on while the ramp-up timers run
\* (main.c:732-742).
LivingWorkersAreUsed ==
    \A c \in Conns :
        (phase = "run" /\ Lives(Worker(c))) ~> (seq[c] >= 1 \/ ~running)
===============================================================================
