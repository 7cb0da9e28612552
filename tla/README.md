# MachAudio in TLA+

A verification project for MachAudio, a multi-process audio transcoding server:
TLA+ modules translated from the C sources, TLC configurations that check them
on small instances, and TLAPS proofs for every instance. Paths below are
relative to the repository (`src/core/server.c` is `src/src/core/server.c`
here).

## 1. The system

### Processes

`main` (src/main.c) is a **supervisor**. It blocks SIGINT and SIGTERM, forks one
**worker** per entry of the core mask, tunes the SQPOLL kernel thread of each,
and waits until all have exited. Workers share nothing in memory; they share the
CPU governors they change and the terminal's signals. **Clients** connect to one
worker each, over a Unix socket or TCP, and speak the protocol of
docs/protocol.md; the repository's own client is a load generator on libuv.

| component | state | operations | interacts with |
| --- | --- | --- | --- |
| worker event loop (`server.c`) | `running`, the peeked batch, sessions (`client_fd`, `closing`, `recv_active`, `pending_writes`, `write_pool`), receive buffers | SIGNAL, ACCEPT, READ, WRITE completions; `cleanup_session_if_needed`; `get_write_response` / `free_write_response` | the kernel through two rings, a buffer ring and descriptors; the reassembly |
| stream reassembly (`process_client_read`) | `assemble_buf`, `assemble_len`, parse offset | append a chunk, validate, dispatch, compact | the event loop that calls it; the message handlers it calls |
| message semantics (`server.c`, `transcode.c`) | the transcode session, arena, VAD state | START, INPUT, STOP, PING, DISCOVER | codecs, resampler, VAD, arena; queues replies |
| supervisor and workers (`main.c`) | loop indices, `active_workers`, process states, pending signals | fork, tune, wait, run_worker | signals, governors |
| OS tuning (`os_tune.c`) | `g_original_governors`, `g_governor_modified`, the governors in sysfs | save, set, restore | workers |
| protocol codec (`parser.c`) | none | decode and validate a header, next audio buffer | reassembly, transcode |
| arena (`arena.c`) | `curr` | alloc, reset, used | transcode, VAD |
| resamplers, mixer, G.711, VAD | filter phase and history; GRU state | pure functions on samples | transcode |
| client (`client/main.c`) | connections, timers, statistics | discover, ramp up, send, receive, stop | a worker |

### What is hard

* **A session's lifetime.** The session's address, and that of each write slot,
  travels through the ring as user data. It may be freed only when nothing in
  the submission ring, the kernel or the completion ring names it, and the only
  record of that is `recv_active` and `pending_writes`, kept by hand by every
  handler of `server.c`.
* **Two clocks.** The worker prepares submissions that the kernel sees at the
  next `io_uring_submit` and resolves (descriptor numbers included) when it
  takes them; completions come in batches and are handled later. State read when
  a request was prepared may be stale when it runs.
* **Exhaustion.** The submission ring, the receive buffers, the write pool, the
  heap and the descriptor table each have a path of their own when they are full.
* **Multishot reads.** A read completes many times, and ends at any completion;
  it is armed again in three places, and must be armed exactly once.
* **Streams.** Chunk boundaries are arbitrary, and the buffer is finite.
* **Processes.** Forks fail, workers die, signals come before their signalfd.
* **Priorities.** A worker that spins for a submission entry waits for a thread
  that the supervisor has given the same core and a lower priority.
* **Callbacks.** The client's handles are closed by a duration, a signal, a hang-up
  or a failed connection, in any state, and its loop must then find nothing alive.

### What makes each component correct

Worker: no request on a freed session; counts equal what is outstanding; each
read armed exactly once; no buffer, descriptor or slot leaked or used twice; a
reply goes to the client it answers; a closing session is drained, closed and
freed; the loop ends when signalled. Reassembly: the messages are dispatched in
order, once, as soon as they are complete, however the stream is cut. Supervisor:
it leaves last, and it leaves; a signalled worker ends; governors are restored.
Messages: each request is answered or refused; the VAD region of the arena
survives; what a reply reports is what the session did. Parser: offsets stay
within the payload. Resampler: an output is made of the samples of the stream it
stands for, however the stream is cut into packets. Client: it counts every reply
once, uses the workers that live, and ends.

## 2. The modules

| module | models | role |
| --- | --- | --- |
| `MachServer` | `server.c`: `mach_server_start` and all it calls, one worker, its kernel and its clients | the core |
| `SessionLifecycle` | what a worker promises about a session, without rings, buffers or descriptors | abstract specification of `MachServer` |
| `MachServerProofs` | TLAPS proofs about `MachServer`: requests and what the sessions record of them | proofs |
| `SessionUpkeepProofs` | on top of it: what every handler leaves a session in, and that `MachServer` implements `SessionLifecycle` | proofs |
| `ResourceProofs` | on top of that: the descriptor table and where replies go, the receive buffers, the core of `Scheduling` | proofs |
| `Scheduling` | `main.c`: `tune_sqpoll_thread`, with all of `MachServer` | composition of a worker and its SQPOLL thread |
| `Assembler` | `server.c`: `process_client_read` up to the dispatch of a message | component |
| `Delivery` | what a connection promises about the messages its client writes, without bytes, chunks or buffers | abstract specification of `Assembler` |
| `AssemblerProofs` | TLAPS proofs about `Assembler`, the refinement among them | proofs |
| `Session` | `server.c`: START, INPUT, STOP; `transcode.c`; `parser.c`; `arena.c` | component |
| `SessionProofs` | TLAPS proofs about `Session` | proofs |
| `Resampler` | `resample.c`: `resampler_init`; `resample_adv.c` | component |
| `ResamplerProofs` | TLAPS proofs about `Resampler` | proofs |
| `Supervisor` | `main.c` and the governor part of `os_tune.c` | component |
| `SupervisorProofs` | TLAPS proofs about `Supervisor` | proofs |
| `Client` | `client/main.c` | component |
| `ClientProofs` | TLAPS proofs about `Client` | proofs |
| `MCMachServer`, `MCScheduling`, `MCSession`, `MCResampler`, `MCSupervisor`, `MCClient` | instances for TLC | model checking |

### MachServer

One action per completion handler, per part of a handler between two points
where another party can act, and per kernel or client event.

| TLA+ | code |
| --- | --- |
| `sess[s]` | `MachSession`: `client_fd`, `closing`, `recv_active`, `pending_writes`, the write slots in use (pool and heap). `conn` is a history variable: the connection `s` was accepted for |
| `live` | addresses returned by `posix_memalign` and not freed |
| `sq`, `submitted` | submission ring; the first `submitted` entries are visible to the kernel |
| `flight` | requests the kernel executes, with the *file* they hold (not its number) |
| `cq`, `batch` | completion ring; entries of the peeked batch not yet handled |
| `bring` | receive buffers in the buffer ring |
| `fdtab` | the process's descriptor table |
| `pc`, `cur` | where the worker is: in `io_uring_wait_cqe`, between two completions, inside `process_client_read` for the completion `cur`, before the accept is armed again, gone |
| `cst`, `left` | the clients: not connected, in the backlog, accepted, gone; chunks they have still to deliver |

| action | code |
| --- | --- |
| `PeekBatch`, `EndBatch`, `Exit` | the loop of `mach_server_start`: wait and peek; advance and submit; `while (running)` |
| `HandleSignal`, `HandleAccept`, `RearmAccept` | `IO_OP_SIGNAL`, `IO_OP_ACCEPT` and its re-submission |
| `HandleReadEnd`, `HandleReadNoBufs`, `HandleReadData` | `IO_OP_READ` by its result |
| `Reply`, `Reject`, `FinishRead` | `process_client_read`: any answered message or error reply; a stream that is given up; return of the buffer, re-arming, cleanup |
| `HandleWrite` | `IO_OP_WRITE` with `free_write_response` |
| `SpinForSqe` | `safe_get_sqe` on a full ring |
| `Take` | the SQPOLL thread takes a visible entry and resolves its descriptor |
| `Signal`, `Accept`, `Recv`, `Send` | completions of each kind of request, failures included |
| `Connect`, `Leave` | clients |

`Cleanup(s, S)` is `cleanup_session_if_needed` on the fields `S` the handler has
left in the session, and part of every handler that calls it. `process_client_read`
is split into one step per reply because each reply makes an `io_uring_submit`,
after which the kernel may act. Bytes are abstracted: which messages a chunk
holds is the choice between `Reply`, `Reject` and `FinishRead`, up to `MaxMsgs`
replies a chunk; `Assembler` says which bytes lead where.

### SessionLifecycle

Per session: `free`, `open`, `draining` (given up, replies still going out),
`lingering` (descriptor closed, last read awaited), and the number of replies
`owed`. A descriptor is closed and a session freed only when nothing is owed,
nothing is queued unless the session is open, and a freed address comes back only
with a new connection. `ImplementsLifecycle` is the refinement, under the mapping
`Phase(s)` and `owed <- pending_writes`.

### Scheduling

`MachServer` lets the kernel take a visible submission at any time. `Scheduling`
extends it with one variable, `outranks`: the server was started with a real-time
priority above 1 and a core for the worker, so that `tune_sqpoll_thread` puts the
SQPOLL thread on the worker's core, one priority below. Such a thread runs only
while the worker sleeps in `io_uring_wait_cqe` (`PollerRuns`), for `sched_yield`
yields to no lower priority. `Starved` is a worker that needs an entry of a full,
flushed ring whose poller does not run; it stays so (`SpinInVain`).

### Assembler

A byte is its position in the client's stream, so a lost, repeated or displaced
byte is visible. `Write` appends a message of any length, with a valid or an
invalid header; `Receive` and `Overflow` take a chunk of any length up to
`RecvSize`; `Dispatch`, `Reject` and `Wait` are the outcomes of an iteration of
the parse loop, the last two with the compaction of the buffer. After an overflow
has dropped a chunk the parser may look at bytes that are not a header; then
`Seen` lets them say anything.

### Delivery

A connection is `open` and dispatches the next message that was sent, or refuses it
if it is invalid; once it has `refused` one it dispatches nothing and answers no
second error; once part of the stream is `lost` it may dispatch anything, but answers
no error. `ImplementsDelivery` is the refinement: `Sent` forgets the lengths,
`Standing` is read off `closing` and a dropped chunk, and whatever the buffer, the parse
offset and the chunks do besides is a stutter.

### Session

What the dispatched messages do. Audio is abstracted to its provenance: each byte
of the session's arena is `now` if it was computed, through decoding, mixing,
resampling and encoding, only from audio of the INPUT being handled, `vad` if it
belongs to a VAD state, and `old` otherwise. Places, lengths, alignment and the
32-bit offsets of the parser are kept.

| TLA+ | code |
| --- | --- |
| `ts` | `session->transcode_session`; `ts.state` is `vad_state != NULL`, `ts.prob` tells -1 (`off`), 0 (`zero`) and a result (`val`) apart |
| `mem`, `curr`, `start` | `arena.buf`, `arena.curr`, `arena_curr_start` |
| `pc`, `msg`, `b`, `offset` | where `audio_process_transcode` is, its payload, its loop index and parse offset |
| `first`, `work` | `l16_buf` and `resampled_buf` with their samples |
| `ran`, `reply`, `defined` | history: VAD runs on this INPUT, the answer, whether every access and division was defined |
| `Start`, `Stop`, `RejectShort`, `BeginInput`, `EmptyInput` | the cases of `process_client_read` |
| `Decode`, `DecodeFails`, `NothingDecoded` | a turn of the decode and mix loop, and the ways it ends |
| `VadOnInput`, `Resample`, `SameRate`, `ResampleFails`, `VadOnOutput` | the middle of the pipeline |
| `EncodeG711`, `EncodeL16`, `EncodeOther`, `EncodeFails` | its end, with the reply and the reset of the arena |
| `DividesByZero`, `Undefined` | frames of no channel or a rate of zero; after an undefined access or division |

The layout of a payload is a constant of its own, `HeaderAt[m][k]`: where
docs/protocol.md puts the header of an INPUT's next buffer after `k` of them.
`LayoutAssumption` pins it down, and the instance for TLC computes it from the
declared lengths. `RoomAssumption` is what the code relies on without a check: the
arena is large enough for what one message decodes to.

A START is stored as it comes, as the code does: any octet for a number of channels,
any rate. `defined` turns false at the first access outside arena or payload and at a
division by zero; what the program does after that is not modelled, and the behaviour
ends. `Workable` names the settings with which that cannot happen: at most two channels
(docs/protocol.md:38), and not zero where the pipeline divides.

A session is single-threaded and a message is handled without interruption; the
steps are stages, not interleavings. `PCMU` and `PCMA` are one codec, `g711`: they
differ in tables only. The resampler reads and writes as many samples as the code
does; which samples of the stream those are is the subject of `Resampler`.

### Resampler

A sample is its number in the session's stream, so the history (`hist`, for
`delay_buf`) can be compared with the stream itself. The read position `pos`
(`pos_fp`), the step and the number of outputs are the fixed-point integers of the
code. `Packet(m)` is a call with `m` samples: it reads the places `ReadPlaces(m)`,
the union of the windows of its outputs, from packet and history (`Sample`), then
shifts the history and moves the position. The eight outputs the AVX2 path computes
at once read the same union. `Start` is `transcode_session_init`, for supported
rates and for refused ones, whose delay stays zero. The filter's coefficients and
values are left out.

The code computes step and number of outputs in doubles. For the six supported
rates and all packets up to 33000 samples (a message holds fewer) they are the exact
quotients rounded down: compared in double arithmetic, outside the model.

### Client

One action per libuv callback of the client, and one per event outside it.

| TLA+ | code |
| --- | --- |
| `stream[c]`, `timer[c]`, `offset[c]`, `seq[c]` | `ClientConnection`: its two handles (idle, active, closing, closed), input offset and sequence number |
| `rbuf[c]`, `counted[c]` | `read_buf`; the replies `on_read` has counted |
| `gtimer`, `running` | `g_app.global_timer`, `g_app.running` |
| `asleep` | the poll sleeps and nothing can wake it |
| `found` | `g_app.num_workers`, as the DISCOVER reply had it, or as it was read from memory if the reply was cut behind its header |
| `wire`, `due`, `answered`, `cut`, `hungup`, `dead` | the workers and their sockets |
| `Discovered`, `DiscoveryFails` | the discovery phase and the set-up in `main` |
| `RampUp`, `Connected`, `ConnectFails`, `Tick`, `Read`, `ReadEnd` | `on_ramp_up_delay`, `on_connect`, `on_timer`, `on_read` |
| `DurationOver`, `Signalled`, `CloseHandles`, `LoopEnds` | `on_global_timer`, `signal_handler`, the loop's closing phase, the return of `uv_run` |

A reply is a header piece and a payload piece, and a read delivers any number of
pieces. A worker may send one reply per connection short, as a send that completes
with fewer bytes than asked leaves it (`server.c:772`): the next reply's header is
then taken for the missing payload. What libuv does is modelled from how the
client uses it: a closing handle has no callbacks, a loop ends when no handle is
active or closing, timers of equal due time fire in the order they were started.

### Supervisor

The supervisor's loops (fork, tune, wait) and the stages of `run_worker` (save
the governor, set it, initialise, serve, restore and leave) run concurrently.
A fork may fail, a worker may crash. Saving, setting and restoring a governor may
each fail (no permission, a write that `fprintf` or the unchecked `fclose` does not
make); `unwritten` are the workers whose restore did. The core mask may name a core
twice. Signals are
blocked in every process from before the first fork, so a signal to a worker
stays pending until its signalfd reads it; a signal to the supervisor stays
pending for good. `Terminate` is SIGTERM to the supervisor alone, `Interrupt` the
terminal's Ctrl-C, `SignalWorker` a signal to one worker.

## 3. The runs

| run | configuration | checks |
| --- | --- | --- |
| `server_safety` | `ServerSafety.cfg` | the lifetime invariants, descriptors, replies, closing, the refinement |
| `server_live` | `ServerLive.cfg` | liveness of the loop and its SQPOLL thread, write slots and receive buffers under exhaustion |
| `assembler` | `Assembler.cfg` | reassembly |
| `session` | `Session.cfg` | the transcode session, its arena and its parser |
| `resampler` | `Resampler.cfg` | streaming across packets |
| `client` | `Client.cfg` | the load generator |
| `supervisor` | `Supervisor.cfg` | the process tree and the governors |
| `server_stale_fd`, `server_linger`, `session_stale`, `resampler_drift`, `supervisor_fork` | the `.cfg` of that name | one counterexample each (section 4) |

**server_safety.** Two sessions, two clients, two descriptors, one receive
buffer, a pool of one write slot without a heap, a submission ring of three.
`NoDanglingRequest` is what the proofs are for, `ReadAccounted` and
`RequestsUnique` are parts of their inductive invariant (proved, so not run, as a
whole); `NeverDeaf` and `NoForgottenSession` say that between two handlers no
open session is without its read and no drained one is forgotten;
`DescriptorsAccounted` that each open descriptor has exactly one owner;
`RepliesReachTheirClient` that a send runs on its session's own connection (two
sessions for two clients never run out of memory: the refused accept of
server.c:650-655 is met in `server_live`, and its descriptor is accounted for by the
theorem, not by this run);
`ImplementsLifecycle` constrains steps: among others, a closing session queues no
reply and stays closing until it is freed. `ClosingIssuesNothing` says it of all
requests: what a closing session waits for only gets less, except that a read that
ended for want of a buffer is armed again. Two of each is enough
for what these properties relate: one session and another that gets its address,
descriptor or slot. Sessions, connections, descriptors and buffers are
interchangeable, and the run uses that symmetry (no liveness property is among
its own).

**server_live.** One session address used by two clients that compete for one
descriptor, two chunks each; one receive buffer, a write pool of one slot and one
more from the heap, a submission ring of two. The accept fails with a full table,
reads end early or for want of a buffer, clients leave or stay, and the worker
either outranks its SQPOLL thread or does not. A ring of two is full as soon as an
accept and a read are prepared in one batch, so `SpinForSqe` is met often. Batches
hold up to two completions, so a signal may come in front of other completions of its
batch or behind them. `StopsWhenSignalled` follows it from the completion ring to the
worker's exit: whatever is in front of it, and the rest of its batch, is handled first,
and may need entries of the full ring.
`SpinEnds` says that a worker that needs an entry gets one; it, and the other four
liveness properties, except behaviours that are starved for good, which exist only
with `outranks`. That a starved worker stays so,
`StarvationLasts`, is proved and not run. `WritesAccounted` and `BuffersAccounted` are exact equations, so a
leak and a double use both violate them.

**assembler.** Header of 2 bytes, buffer of 6, chunks up to 3, three messages of
up to 7 bytes: messages that fit, that fit only with a favourable cut, and that
never do (the code has 16, 32768, 16384 and 2^32). The sizes keep the order
relations of the code's: a header is shorter than a chunk, a chunk than the
buffer, and the longest message is longer than the buffer. `SmallNeverOverflows`
is the exact guarantee a client has: with the code's sizes, a stream of valid
messages of at most 16385 bytes each is never given up. `ImplementsDelivery` checks
every step against `Delivery`: messages are dispatched in order, each once, none behind
an invalid one, and one error reply is sent at most (`HandledInOrder`, which is proved of
its own).

**session.** Every sequence of START, INPUT and STOP over twenty-one settings (each
codec on either side, mono and stereo, up and down sampling, the VAD at the rate
of the input, the output, both or neither; and eight outside the protocol, with 0, 3, 12
and 40 channels and rates of zero) and twelve payloads (whole and odd
lengths, padding present or cut off, more and fewer buffers than declared, an
empty first one, none, and a length that wraps the 32-bit check). Headers,
blocks, padding and alignment are 2 bytes, the arena 168, twelve times the longest
payload of 14 (262144 is eight times 32768, the assembly buffer): with less room
`RoomAssumption` would not hold, on which `AccessesInside` rests for the mixer, the
VAD and the encoder, and `FittingIsAnswered` for the work buffers; here the audio that
fits a reply is 24 bytes, longer than any payload, where the code has 8160 of 32768.
`Word` is 256, above all offsets. The state is small
because the pipeline is deterministic; what a message finds depends on the
messages before it only through `ts`, `mem`, `curr` and `start`, and TLC
explores all that can be left there. `VadStateIntact` says the region at the
front of the arena survives; `OutputIsOwn` that a reply holds audio of its own
request, for the settings the code supports (same number of channels when samples
are passed on, mono otherwise, whole G.711 blocks); `VadRunsOnce` that
`vad_gru_process_pcm` is run once for a packet (it takes whole frames of 20 ms, so the
network may advance not at all, or twice, in one run), and that the -1 of a reply means
it was not (or had no sample to run on: a packet that downsampling leaves empty;
its reply is then empty, except that with an unknown output codec it is the work area);
`AccessesInside` that no access leaves arena or payload with workable settings, and that
the arena is never used up beyond its end with any; `ParsesEveryBuffer` compares the parser with the layout computed
independently from the declared lengths; `FittingIsAnswered` that a request whose
first buffer is inside the payload and whose output fits a reply is answered, even if
a later buffer is cut off, and after requests that failed half-way and left the arena
full.

**resampler.** Ratios up and down by 2 and by 3/2, and two that are refused, five
packets of seven sizes (0, shorter and longer than the history, even and odd),
restarts in between; a filter of 4 taps, a history of 12, one sample is 16 units.
The history is longer than the longest window, as 1024 is longer than 384 (64 taps
on either side, stretched by at most 6 when downsampling). `HistoryIsStream`,
`NoFutureSamples` and `LagBounded` are proved for all sizes too; `ReadsTheStream`
combines them: while packets come out even, an output is made of the right samples.

**resampler_drift.** One rate pair, 44100 to 48000, in packets of 880 samples, with
the code's 128 taps and history of 1024; a sample is 64000 units rather than 2^32
so that positions fit TLC's integers, which changes the step by less than a
65000th part. The behaviour is deterministic: 1187 packets, 24 seconds of audio.

**client.** Two connections over two workers, any subset of which is gone; an input
of 3 bytes in chunks of 2, so that its end falls inside a chunk; up to three
messages per connection; with and without `--loop`, `--duration`, `--ramp-up`; a
DISCOVER reply that is whole or cut (of the numbers that may then be read, those above
`Clients` choose the same workers, and 0 ends the client).
Two connections are what the properties relate (one ends, stops or waits before
the other). `CountsReplies` says that no reply is counted
twice or out of turn, and none left in `read_buf` once it is whole. `StopEnds` and `EndsWhenAllGone` are
liveness properties over every combination of states of the handles;
`LivingWorkersAreUsed` says that the ramp-up reaches a connection although those before
it have failed or ended.

**supervisor.** Three workers, two of them pinned to one core, one unpinned; one
fork may fail and one worker crash; governors may be impossible to write or to restore;
signals at any moment. `GovernorRestored` names every reason for which a core may be left
changed: a crash, a write that failed, a worker that found what another had set. Three
workers distinguish "the first", "the last" and "another" in both loops. `WaitIsExact`
says what `active_workers` stands for, the workers left and the forks that failed, and
that the supervisor is the last to exit.

Bounds: `HeapSize` (what malloc can provide), `MaxMsgs`, `MaxChunks`, `MaxLen`,
`MaxForkFailures`, `MaxCrashes`, `MaxSent`, `MaxPackets` bound what the environment does; `PoolSize`,
`BatchMax`, `QD`, `AsmSize`, `RecvSize`, `HdrLen`, `Half`, `History`, `One` are the
code's constants made small. No other counter needs a bound.

Every property of a passing run is known to fail for a plausible bug: each module
keeps such variants next to the definitions they change, marked `mutant`
(`AfterRead` and `NeverCleared`, say), and nothing else uses them. The
pairs are listed in PROJECT.json.

### Fairness

`ServerFairness`: the worker thread runs; the SQPOLL thread takes visible
submissions; a pending accept, receive or send completes when it can. The last
assumes peers that read what they are sent: a send to a peer that does not blocks
in the kernel and keeps its session, which no code here times out. Clients are
*not* assumed to connect, send or hang up. `Signal` is not fair either: a worker
need never be told to stop. `SFairness` is the same with the scheduler in between:
the SQPOLL thread is fair only when it is given the core, and the worker only while
it is not starved, for a worker that spins on a ring nobody empties makes no step.
`Supervisor`: every process is scheduled, and `wait` returns each zombie. `Client`:
the loop runs every callback that is due and its closing phase; workers need not
answer or hang up, and nobody has to send a signal.

`ClosingIsFreed` therefore excepts a session whose read still executes on a
connection whose client stays up. That exception is a finding (section 4), not an
artefact.

## 4. Where code and documentation disagree

* **A read can start on another client's connection** (`ReadsOwnConnection`). A
  read re-armed at the end of a handler names a descriptor number that is
  resolved when the kernel takes the submission. If a later completion of the
  batch fails a send, the session closes that descriptor; if the pending accept
  completes before the read is taken, the number is reused and the old session's
  read consumes the new client's first bytes.
* **A client that is given up stays connected** (`DisconnectsWhenClosing`).
  `close()` does not end the multishot read, which keeps the socket open: no FIN
  is sent, and session and socket live until the client hangs up.
* **A refused G.711 buffer is answered with stale audio** (`OutputIsDecoded`).
  The decoders return -1 for a length that is not a multiple of 16 and write
  nothing; the caller ignores it and sends what the arena held, audio of earlier
  packets, as CMD_OUTPUT, where docs/protocol.md:106 has CMD_ERROR.
* **Rounding in the resampler adds up** (`ReadsInsideHistory`). The outputs of a
  packet are rounded down and what is lost stays in the read position, so packets
  that do not come out even make the output fall behind, a fraction of a sample
  each, until a window begins before the history: upsampling then reads in front of
  `delay_buf`, downsampling repeats its oldest sample. 44100 to 48000 with packets
  of 880 samples takes 24 seconds.
* **A failed fork makes the supervisor spin** (`AllGoneIsDone`).
  `active_workers` counts the worker that never existed; `wait` fails for ever.
  `AllForkedIsDone` shows that it does end when every fork succeeded.

Seen while modelling, without a run of their own (each is a branch of the model, or
follows from one line of the code):

* SIGTERM to the supervisor alone stops nobody: it is blocked and never read
  (`Terminate` changes nothing for any worker), where docs/deploy.md:97 says that the
  supervisor then shuts its workers down. Ctrl-C, which every process gets, does;
* a signalled worker drops what it owes: the loop is left behind the batch of the
  signal, with sends queued and executing, and the ring is closed (`Exit` has no guard
  on them); docs/deploy.md:97 says audio streams are flushed before exiting;
* a core named twice in the core mask may keep "performance": one worker saves what the
  other has set and restores it last (an exception of `GovernorRestored`). With each
  core named once it does not happen (`ApartAreRestored`);
* a governor that cannot be restored is left as it is, and nobody tries again: the
  result of `os_restore_cpu_governor` is ignored (`unwritten`, an exception too);
* any number of channels and any rate is accepted: `transcode_session_init` stores
  them, and the pipeline divides by zero with some and works outside the arena with
  others. The session run reaches both (`defined` becomes false), which is why
  `AccessesInside` is limited to `Workable` settings. docs/protocol.md:146 has an error
  for invalid content; nothing sends it here;
* a START that failed is not answered: the rates are refused, the result is ignored,
  and the session resamples with a delay of zero, so that outputs repeat the last
  sample of each packet (`NoFutureSamples` is about supported rates);
* an INPUT whose output is too long is not answered: a reply of more than 8192 bytes
  is logged and dropped (`FittingIsAnswered` is about those that fit);
* a cut DISCOVER reply is believed: the client checks that a whole header was read and
  copies the number behind it, arrived or not (`found` may be any reading), where
  docs/protocol.md:166 asks for an even spread over the workers;
* DISCOVER counts workers that are gone: it reports the number configured, where
  docs/protocol.md:134 says running and docs/deploy.md:69 alive;
* the 33rd outstanding reply of a session is allocated with `malloc` (README.md:15
  forbids that while processing audio);
* an INPUT without buffers repeats the probability of the packet before, and
  reports 0 rather than -1 on a session that was never started;
* the VAD runs on whole 20 ms frames: a shorter packet reports 0.0;
* a worker that outranks its SQPOLL thread on one core and fills the submission
  ring within a batch spins for good (`Starved`): the ring has 4096 entries, a chunk
  of 16384 bytes holds up to 1024 messages that are answered, and a batch 64 chunks;
* after a reply that was sent short, the client counts one damaged reply and then
  none (`CountsReplies`): it stops parsing at the first header that is not one;
* a signal that stops the client while no timer is armed may leave it asleep in its
  poll (`StopEnds`), and one that comes before the loop is ignored;
* an input shorter than one chunk makes the client with `--loop` read past it;
* channels are not converted: stereo G.711, L16 from mono to stereo, and stereo
  that is resampled send bytes that were not computed from the request, which is
  why `OutputIsOwn` excludes them;
* an unknown output codec is not refused: the reply is the work area as it is.

## 5. The proofs

`MachServerProofs` proves, for all values of the constants that satisfy
`ServerAssumption` (finite or not, except where they are numbers):

| theorem | statement |
| --- | --- |
| `LifetimeInvariant` | `Spec => []LifetimeInv` |
| `TypeCorrect` | `Spec => []TypeOK` |
| `WritesAreAccounted` | `Spec => []WritesAccounted` |
| `ReadsAreAccounted` | `Spec => []ReadAccounted` |
| `RequestsAreUnique` | `Spec => []RequestsUnique` |
| `NoDangling` | `Spec => []NoDanglingRequest` |

**The inductive invariant.** `NoDanglingRequest` alone is not inductive: whether
freeing a session is safe depends on `recv_active` and `pending_writes` being
exactly what is outstanding. So `LifetimeInv` is the conjunction of

* `TypeOK`;
* `FreeIsBlank`: memory that is not allocated records no request;
* `WritesAccounted`: a slot is in use exactly while its send is in one of the
  three places, and `pending_writes` is the number of slots in use;
* `ReadsMatch`: the same of `recv_active` and the read;
* `RequestsUnique`: a request is in one place once, and its last completion is
  the last. Without it, "the completion was handled" would not mean "the request
  is gone";
* `MidRead`, `MidAccept`: what the worker knows in the middle of a handler.

`NoDanglingRequest` follows: a request in a ring is outstanding, so by
`ReadsMatch` or `WritesAccounted` its session records it, so by `FreeIsBlank` the
session is live.

**The argument.** Lemmas about sequences say what `Append` and `Tail` do to "a
request is in the ring". Handlers are grouped by what they do to the rings: a
handler consumes one completion, changes one session, and may prepare one
submission. `Settled` describes the rings after the head is consumed, `OthersKept`
that all other requests are where they were, `Accounts` that one session's record
matches; a lemma per handler shows that it keeps these, and the lemmas about the
environment that moving a request from one place to the next changes nothing
the session records. The step lemma has one case per action.

Two modules go on from there, under the same assumption:

| module | theorem | statement |
| --- | --- | --- |
| `SessionUpkeepProofs` | `NeverIsDeaf` | `Spec => []NeverDeaf` |
| | `NoneIsForgotten` | `Spec => []NoForgottenSession` |
| | `LifecycleIsImplemented` | `Spec => ImplementsLifecycle` |
| | `ClosingIssuesNoRequest` | `Spec => ClosingIssuesNothing` |
| `ResourceProofs` | `DescriptorsAreAccounted` | `Spec => []DescriptorsAccounted` |
| | `RepliesReach` | `Spec => []RepliesReachTheirClient` |
| | `BuffersAreAccounted` | `Spec => []BuffersAccounted` |
| | `ScheduledIsServer` | `SSpec => Spec` |
| | `ScheduledIsAccounted` | `SSpec => [](TypeOK /\ WritesAccounted /\ BuffersAccounted)` |
| | `StarvationIsKept` | `SSpec => StarvationLasts` |

*Upkeep.* Both properties speak of the time between two handlers, and a session
may break them while `process_client_read` works on it. `UpkeepInv` adds to
`LifetimeInv` that every other live session is `Tended` (it reads or closes; and if
it closes and owes nothing, it waits for its read with its descriptor closed), and
that every one is `Grounded`: a descriptor is given up only at the end.
`CleanupTends` is the reason for `cleanup_session_if_needed` at the end of each
handler.

*The refinement.* `Moves` is what `SessionLifecycle` lets one session do;
`OneMoves` lifts a move of one session to a step of that specification. `Grounded`
is what makes a step of a session with a reply outstanding leave "draining" and
not "lingering".

*Closing.* What a session asks for is compared before and after each step
(`ClosingAsks`): a handler of a closing session may only take its last read or one of its
sends away, as `Cleanup` asks for nothing (`CleanupAsksNothing`), a reply is not queued
and a read is armed again only after `-ENOBUFS`, when the old one still counts. With fair
completions this is what makes `ClosingIsFreed` true: the number of requests outstanding
is a bound that nothing moves away from.

*Descriptors.* `Table` says that an open descriptor has an owner and only one: a
live session, or an accept completion in the ring, of which there is at most one
because of `RequestsUnique`. A reply is addressed when it is prepared and resolved
when the kernel takes it. `Owed` closes the gap: an outstanding send counts in
`pending_writes`, so its session still has the descriptor (by `Grounded`, whose
other half is that a descriptor is closed at `pending_writes = 0` only), which by
`OwnedIsOwn` is its own connection.

*Buffers.* `Places`: a buffer is in the ring, in one completion, or with
`process_client_read`, in exactly one of them. It needs that only the data and end
completions of a read carry a buffer (`ReadsOnly`), as no other handler gives one
back.

*The core.* `Scheduling` restricts when the SQPOLL thread runs and adds a step that
changes nothing, so it implements `MachServer`, and all of the above holds of it
too. `StarvationLasts` is proved from it, and is why its liveness properties have `[]Starved` as their
exception and nothing weaker: a handler that needs an entry runs no other handler,
completions that arrive do not change which one it is (`StillHandling`), and the thread
that would make room waits for the worker to sleep. The only way on is a chunk whose
rest needs no answer.

`ResamplerProofs` proves, for all constants that satisfy `ResamplerAssumption`:

| theorem | statement |
| --- | --- |
| `ResamplerTyped` | `Spec => []TypeOK` |
| `HistoryIsTheStream` | `Spec => []HistoryIsStream` |
| `LagIsBounded` | `Spec => []LagBounded` |
| `NoFuture` | `Spec => []NoFutureSamples` |
| `ReadsOwnStream` | `Spec => [](outs <= LastingOuts(rate) => ReadsTheStream)` |

Each of the first three is inductive together with the types. `HistoryIsStream`
needs only the case split of the code: a packet shorter than the history shifts it,
a longer one replaces it. `LagBounded` rests on `PacketAdvance`: a packet of `m`
samples moves the position by its outputs times the step minus `m` samples, and as
both quotients are rounded down that is at most 0, and at least minus one step (if
the outputs were rounded) minus one unit per output. `NoFutureSamples` follows from
its upper half: the position never exceeds the first one, so the last window of a
packet ends at least the initial delay before its end, and `DelayCovers` says that
the delay is half a window. Quotients are kept behind `Floor`, about which the
lemmas `Quotient` and `Cancel` say all that is used.

`ReadsTheStream` does not hold for ever: what `LagBounded` allows adds up, which is
the finding of section 4. `ReadsOwnStream` says how long it holds, for all rates and
packets: for `LastingOuts(rate)` outputs. What the history holds behind the longest
window (`Reach`) is the room for the lag, and an output loses at most one fixed-point
unit while packets come out even, so that is as many outputs as that room has units
(`FirstWindowInside`): with the code's 2^32 units a sample, years of audio.

`AssemblerProofs` proves, for all constants that satisfy the assumption of `Assembler`,
so for buffers, chunks and messages of any length:

| theorem | statement |
| --- | --- |
| `MessagesAreInOrder` | `Spec => []HandledInOrder` |
| `NoneIsPending` | `Spec => []NothingPending` |
| `BytesAreKept` | `Spec => []NoByteLost` |
| `SmallFits` | `Spec => []SmallNeverOverflows` |
| `StreamIsDelivered` | `Spec => ImplementsDelivery` |

One inductive invariant, `AsmInv`, carries the first four: until a chunk is dropped the
buffer is a piece of the client's stream, it begins where a message begins, and the
messages before that are exactly those that were handled. While the loop runs the parse
offset is at the start of a message too; when it has ended, what is left is less than
one message, which is why a stream of small ones never fills the buffer.

The refinement needs one thing that `AsmInv` does not say: a session that was given up
without losing anything stands before an invalid message, for good (`Refused`).
`SeesTheNext` is its centre: while nothing was dropped, the header at the parse offset is
that of the message `Delivery` has due, so a dispatch is `Deliver` and a rejection is
`Refuse`, and as the message a refused connection has due stays invalid, nothing behind
it is dispatched; behind a dropped chunk both become steps of "lost", because
`RepliesError` keeps a closing session silent.

`SessionProofs` proves, for any set of START payloads (every codec, number of channels and
rate) and of INPUT payloads (whatever they declare), and all sizes that satisfy
`SessionAssumption`, `LayoutAssumption` and `RoomAssumption`:

| theorem | statement |
| --- | --- |
| `BuffersAreParsed` | `Spec => []ParsesEveryBuffer` |
| `NoAccessOutside` | `Spec => []AccessesInside` |
| `VadStateIsKept` | `Spec => []VadStateIntact` |
| `VadIsRunOnce` | `Spec => []VadRunsOnce` |
| `RepliesCarryOwnAudio` | `Spec => []OutputIsOwn` |
| `FittingAnswered` | `Spec => []FittingIsAnswered` |

`SessionInv` says for each stage of the pipeline where its buffers are. Its centre is
the inequality `curr + 2 * HdrIn <= start + 2 * offset`: decoding takes at most twice
what the parser has consumed, headers paying for alignment, so a payload of `plen`
bytes never takes more than twice that, however many buffers it is cut into. With
`RoomAssumption`, every access that the code makes without a check is inside for
`Workable` settings; that premise is the exact limit of what is proved of accesses, and
`AudioOwn` and `FitSoFar` have it too. Beyond two channels the claim is false (section 4). A length
that wraps the parser's 32-bit check passes it, and `BufferInside` shows that then the
arena refuses it. The other four properties are each inductive with `SessionInv` and a
part that says what holds in mid-pipeline: `WritesBehind` (everything is written behind
`start`) for the VAD state; `VadSoFar` (whether it ran on the input, and that a
probability of -1 tells that it did not) for the VAD; `AudioOwn` (the bytes that later
stages read are of this INPUT, through mixing, resampling and the move to the front) for
the audio; `FitSoFar` (the number of samples, and the room left for the encoder) for
the answer. `VadRunsOnce` has an exception for unknown output codecs because the proof
needs it: a packet that is downsampled to nothing reports that the VAD did not run when it
did, with an empty reply for the known codecs, but with the work area for those.

`ClientProofs` proves, for any number of connections, messages and workers, and any cut
of the replies into reads:

| theorem | statement |
| --- | --- |
| `RepliesAreCounted` | `Spec => []CountsReplies` |

`ReplyInv` accounts for every piece a worker sends: it was counted, it is in `read_buf`,
or it is on the wire, in order; and if one reply was sent short, from then on headers and
payloads are taken for each other, which spoils one count and ends the parsing. The second
half of the theorem, `ArrivedAreCounted`, needs besides that between two callbacks
`read_buf` holds less than one reply (`LessThanOne`):
`CompleteIs` says that the parser stops only where the next header, or the payload behind
it, has not arrived, and `Taken` that removing what was counted leaves one piece at most.
Hence what was counted is half of what has arrived, rounded down.

`SupervisorProofs` proves, for all constants that satisfy `SupervisorAssumption`,
so for any number of workers, cores, failing forks and crashes:

| theorem | statement |
| --- | --- |
| `TypesAreCorrect` | `Spec => []TypeOK` |
| `SupervisorIsLast` | `Spec => []SupervisorLast` |
| `GovernorsAreRestored` | `Spec => []GovernorRestored` |
| `ApartAreRestored` | `CoresApart => (Spec => []SharedRestored)` |
| `SupervisorWaitsExactly` | `Spec => []WaitIsExact` |

`SupervisorLast` follows from `LastInv`: `active_workers` and the number of reaped
workers add up to `num_workers`, nobody is reaped before the wait loop, and the
supervisor exits at zero only. Hence all `num_workers` were reaped, which is also
why it never exits once a fork has failed (`AllGoneIsDone`). `WaitIsExact` says that
outright: it counts each turn of the fork loop as a worker or as a failure, so that
`active_workers` exceeds the workers left by the failures, for good. `GovernorRestored` is a
statement about cores and their workers when those are gone; what makes it inductive is
`Answered`, about every moment: a core whose governor is not the original one has a worker
that answers for it, because it has changed it and is still there, crashed, failed to
write, or found it changed. A step lets nobody stop answering, except by restoring what it
found; and that is the original one or makes the next worker answer (`StillAnswered`).
Nothing is assumed of the core mask. `CoresApart`, that it names no core twice (the parser
does not check it), is what removes the last of the four reasons: then a worker finds the
original governor as nobody else changes it (`FindsOriginal`), which is `ApartAreRestored`
(`SharedRestored`, without that reason, is stated in `SupervisorProofs` and only proved).

**Assumptions.** The named assumptions of the modules only, and `CoresApart` in the one theorem
that states it: sizes are natural numbers, slots and descriptors are not `None`; the resampler's rates
are positive and differ, and its output rate is at most one sample of the fixed-point scale
(2^32); a chunk of the client's input is no longer than the input; and the room of the
arena, which follows from server.h:10, 52 and 76. TLC evaluates them in every run.

**Not proved, only model-checked.** Liveness, as it needs fairness and with it ENABLED:
the five properties of `Scheduling` with `~>`, `SignalledIsReaped` and
`AllForkedIsDone` of `Supervisor`, all of `Client` but `CountsReplies`. Of what they rest
on, the safety half is proved where it can be said as a bound or a stability: `ClosingIssuesNothing`, `StarvationLasts`, `WaitIsExact`. Every
safety property that a passing run checks is proved, `ReadsTheStream` for as long as it lasts.

## 6. What is not modelled, and why

* Set-up in `mach_server_init` and the socket options: straight-line code that
  either succeeds or ends the worker (`InitServer` keeps that outcome).
* Most of the repository by length. 9764 of some 16000 lines are the resampler's
  coefficient table, 1300 more the network's weights and training data: constants of
  arithmetic that is left out. Of what remains, the filter and network kernels are
  per-sample arithmetic, and the client's report is formatting.
* Short sends in `MachServer`. The code treats a send that completes with fewer bytes
  than asked as complete, and so does the model; `Client` has what that does to the
  receiver.
* The client's second input file (it advances beside the first and follows the same
  rule), output files, statistics, percentiles and report; a failed allocation; a
  signal in the middle of a callback, which closes handles the callback then uses.
* `resample_l16` (resample.c:68) and its coefficients, which only unit tests call; a
  packet longer than the output buffer the caller reserves (it reserves enough).
* The search for the SQPOLL thread in /proc and its ten attempts.
* A READ completion with data but without a buffer (server.c:749): the kernel
  does not produce it for a buffer-select read.
* An error of `io_uring_wait_cqe` other than EINTR, which ends the loop.
* The core-mask parser, thread affinity and priorities, the DMA latency file.
* Sequence numbers, PING and DISCOVER as messages of their own: in `MachServer`
  they are replies like any other. Replies are sent unlinked, so their order on
  the wire is the kernel's; the sequence number is what a client matches them by.
* What a program does after undefined behaviour: `Session` stops there (`Undefined`). The
  number the client reads from memory nobody wrote is a choice of the model (`Readings`).
* Codecs, mixer, filter and network arithmetic: pure per-sample functions,
  floating-point in part, outside TLC's reach.
* Logging and statistics; the audio engine, a stub.

## 7. Plan

Done: `MachServer`, `SessionLifecycle`, `Scheduling`, `Assembler`, `Session` (with the
parser and the arena), `Resampler`, `Supervisor`, `Client`, and proofs of all their
safety properties: `MachServerProofs`, `SessionUpkeepProofs`, `ResourceProofs`,
`AssemblerProofs`, `SessionProofs`, `ResamplerProofs`, `SupervisorProofs`,
`ClientProofs`.

Two abstract specifications, `SessionLifecycle` and `Delivery`, are shown to be
implemented, by TLC and by proof. Left, in this order:

1. The safety part of the other liveness arguments, as bounds that no other step moves
   away from: the entries a worker spins for, the chunks a read has still to deliver, the
   handles the client has still to close.
2. `Delivery` composed with `Session` (the INPUTs that are dispatched are those it
   handles), and `Client` composed with both in place of its environment.
