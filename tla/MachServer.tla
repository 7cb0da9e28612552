------------------------------ MODULE MachServer ------------------------------
(***************************************************************************)
(* One worker process of MachAudio: the io_uring event loop of             *)
(* src/src/core/server.c, the sessions it allocates and frees, and the     *)
(* ring it shares with the kernel.                                         *)
(*                                                                         *)
(* The worker is a single thread.  It peeks a batch of completions and     *)
(* handles them one by one; each handler may prepare submissions, which    *)
(* become visible to the kernel only at the next io_uring_submit (inside   *)
(* every send, and at the end of the batch).  Meanwhile the kernel (the    *)
(* SQPOLL thread and the network) consumes visible submissions, resolving  *)
(* the descriptor number of each one at that moment, and posts             *)
(* completions.  Clients connect, send data and go away at any time.       *)
(*                                                                         *)
(* process_client_read is one step per message: what a received chunk      *)
(* makes the worker do is "queue a reply" (any answered message), "reject  *)
(* the stream" (an invalid header, or an assembly-buffer overflow), or     *)
(* nothing (a partial or a silent message, or a reply get_write_response   *)
(* has no memory for).  The bytes themselves are abstracted.               *)
(***************************************************************************)
EXTENDS Naturals, Sequences, FiniteSets

CONSTANTS
    Sessions,     \* addresses a MachSession can be allocated at
    Conns,        \* connections clients make; each connects at most once
    Fds,          \* descriptor numbers accept can return
    Buffers,      \* the registered receive buffers (NUM_BUFFERS)
    None,         \* "no descriptor / buffer / session / connection"
    PoolSize,     \* MAX_CONCURRENT_WRITES
    HeapSize,     \* bound: WriteResponses malloc can provide to one session
    BatchMax,     \* completions peeked at once (64 in the code)
    QD,           \* entries of the submission ring
    MaxMsgs,      \* bound: replies one received chunk can cause
    MaxChunks     \* bound: chunks one client sends

ASSUME ServerAssumption ==
    /\ None \notin Sessions \cup Conns \cup Fds \cup Buffers
    /\ PoolSize \in Nat \ {0}
    /\ HeapSize \in Nat
    /\ BatchMax \in Nat \ {0}
    /\ QD \in Nat \ {0, 1}
    /\ MaxMsgs \in Nat
    /\ MaxChunks \in Nat

VARIABLES
    running,      \* server->running
    pc,           \* where the worker is in mach_server_start
    batch,        \* completions of the peeked batch still to be handled
    cur,          \* the READ completion process_client_read works on
    live,         \* sessions allocated and not freed
    sess,         \* the fields of each MachSession
    fdtab,        \* the process's descriptor table: descriptor -> connection
    sq,           \* submission ring, oldest first
    submitted,    \* how many of sq the kernel may see
    flight,       \* requests the kernel is executing, with the file they hold
    cq,           \* completion ring, oldest first
    bring,        \* receive buffers the kernel may fill
    cst,          \* state of each client connection
    left          \* chunks each client has yet to deliver

worker == <<running, pc, batch, cur>>
memory == <<live, sess, bring>>
ring   == <<sq, submitted, flight, cq>>
client == <<cst, left>>
vars   == <<worker, memory, fdtab, ring, client>>

-------------------------------------------------------------------------------
(***************************************************************************)
(* Requests and ring entries.  A request is the IoRequest whose address    *)
(* travels through the ring as user data: two of the server, one read      *)
(* request per session, one per WriteResponse.  WriteResponses             *)
(* 1..PoolSize are the session's pool, the others come from malloc.        *)
(***************************************************************************)
Pool  == 1..PoolSize
Heap  == (PoolSize + 1)..(PoolSize + HeapSize)
WrIds == Pool \cup Heap

AcceptReq      == [op |-> "accept", ses |-> None, wr |-> 0]
SignalReq      == [op |-> "signal", ses |-> None, wr |-> 0]
ReadReq(s)     == [op |-> "read",   ses |-> s,    wr |-> 0]
WriteReq(s, w) == [op |-> "write",  ses |-> s,    wr |-> w]

Requests == {AcceptReq, SignalReq} \cup {ReadReq(s) : s \in Sessions}
              \cup {WriteReq(s, w) : s \in Sessions, w \in WrIds}

Sqe    == [req : Requests, fd : Fds \cup {None}]
Flight == [req : Requests, conn : Conns \cup {None}]
Cqe    == [req : Requests, res : {"ok", "data", "nobufs", "end", "err"},
           more : BOOLEAN, buf : Buffers \cup {None}, fd : Fds \cup {None}]

\* A completion that ends its request and carries neither buffer nor descriptor.
Done(r, res) == [req |-> r, res |-> res, more |-> FALSE, buf |-> None, fd |-> None]

Session == [fd : Fds \cup {None}, conn : Conns \cup {None}, closing : BOOLEAN,
            recv : BOOLEAN, pw : Nat, inuse : SUBSET WrIds]

\* The memory of a session that is not allocated, and of a new one.  "conn" is
\* a history variable: the connection the session was accepted for.
FreeSession == [fd |-> None, conn |-> None, closing |-> FALSE, recv |-> FALSE,
                pw |-> 0, inuse |-> {}]
NewSession(fd) == [FreeSession EXCEPT !.fd = fd, !.conn = fdtab[fd], !.recv = TRUE]

NoRead == [ses |-> None, more |-> FALSE, buf |-> None, n |-> 0]

Init ==
    /\ running = TRUE /\ pc = "wait" /\ batch = 0 /\ cur = NoRead
    /\ live = {} /\ sess = [s \in Sessions |-> FreeSession]
    /\ bring = Buffers
    /\ fdtab = [f \in Fds |-> None]
    /\ sq = << [req |-> AcceptReq, fd |-> None], [req |-> SignalReq, fd |-> None] >>
    /\ submitted = 2 /\ flight = {} /\ cq = << >>
    /\ cst = [c \in Conns |-> "new"] /\ left = [c \in Conns |-> MaxChunks]

-------------------------------------------------------------------------------
(***************************************************************************)
(* The worker.                                                             *)
(***************************************************************************)

\* safe_get_sqe: with the ring full, the worker flushes it and yields until
\* the kernel has taken an entry.
HasSqe == Len(sq) < QD

\* Prepare a submission without making it visible.
Prepare(req, fd) ==
    /\ HasSqe
    /\ sq' = Append(sq, [req |-> req, fd |-> fd])
    /\ UNCHANGED submitted

\* Prepare a submission and flush the ring.
Submit(req, fd) ==
    /\ HasSqe
    /\ sq' = Append(sq, [req |-> req, fd |-> fd])
    /\ submitted' = Len(sq) + 1

\* get_write_response: the first free slot of the pool, else one from malloc;
\* empty when malloc fails.
FreeSlots(s) == Pool \ sess[s].inuse
FirstSlotAlways(s) == {1}                   \* mutant: in_use is not looked at
GetWriteResponse(s) ==
    IF FreeSlots(s) # {}
    THEN {w \in FreeSlots(s) : \A v \in FreeSlots(s) : w <= v}
    ELSE Heap \ sess[s].inuse

\* cleanup_session_if_needed(s), where S is what the handler has left in *s:
\* with no send outstanding the descriptor is closed, and with no read either
\* the session is freed.
CloseDueAtOnce(S) == S.closing                      \* mutant: sends ignored
CloseDue(S) == S.closing /\ S.pw = 0
FreeDueAtOnce(S) == TRUE                            \* mutant: the read ignored
FreeDue(S) == ~S.recv
KeepFd(S) == S                                      \* mutant: fd not reset
ForgetFd(S) == [S EXCEPT !.fd = None]
Cleanup(s, S) ==
    IF CloseDue(S)
    THEN /\ fdtab' = [f \in Fds |-> IF f = S.fd THEN None ELSE fdtab[f]]
         /\ IF FreeDue(S)
            THEN /\ sess' = [sess EXCEPT ![s] = FreeSession]
                 /\ live' = live \ {s}
            ELSE /\ sess' = [sess EXCEPT ![s] = ForgetFd(S)]
                 /\ UNCHANGED live
    ELSE /\ sess' = [sess EXCEPT ![s] = S]
         /\ UNCHANGED <<fdtab, live>>

\* io_uring_buf_ring_add + advance, for a completion that carries a buffer.
ReturnUnlessClosing(b) ==                           \* mutant: lost on overflow
    bring' = IF pc = "read" /\ sess[cur.ses].closing THEN bring
             ELSE bring \cup ({b} \ {None})
ReturnBuffer(b) == bring' = bring \cup ({b} \ {None})

\* The next completion of the batch, which the handler consumes.
Handling(op) == pc = "batch" /\ batch > 0 /\ cq # << >> /\ Head(cq).req.op = op
Consume == batch' = batch - 1 /\ cq' = Tail(cq)

\* Where a handler asks for a submission entry and the ring is full: flush.
NeedsSqe == \/ pc \in {"read", "rearm"}
            \/ Handling("accept") /\ Head(cq).fd # None /\ ~(Sessions \subseteq live)
            \/ Handling("read") /\ Head(cq).res = "nobufs"
SpinWithoutFlush == FALSE                           \* mutant: only yields
SpinForSqe ==
    /\ NeedsSqe /\ ~HasSqe /\ submitted < Len(sq)
    /\ submitted' = Len(sq)
    /\ UNCHANGED <<worker, memory, fdtab, sq, flight, cq, client>>

\* The top of the loop: wait for a completion, peek a batch.
PeekBatch ==
    /\ pc = "wait" /\ running /\ cq # << >>
    /\ pc' = "batch"
    /\ batch' = IF Len(cq) < BatchMax THEN Len(cq) ELSE BatchMax
    /\ UNCHANGED <<running, cur, memory, fdtab, ring, client>>

\* IO_OP_SIGNAL: mach_server_stop; the rest of the batch is still handled.
HandleSignal ==
    /\ Handling("signal") /\ Consume
    /\ running' = FALSE
    /\ UNCHANGED <<pc, cur, memory, fdtab, sq, submitted, flight, client>>

\* The accept is armed again after every completion, while running.
RearmIfAccepted(fd) == IF running /\ fd # None THEN "rearm" ELSE "batch"  \* mutant
AfterAccept(fd) == IF running THEN "rearm" ELSE "batch"

\* IO_OP_ACCEPT: allocate a session and arm its first read; close the
\* descriptor when there is no memory; nothing when the accept failed.
HandleAccept ==
    /\ Handling("accept") /\ Consume
    /\ pc' = AfterAccept(Head(cq).fd)
    /\ LET fd == Head(cq).fd IN
       \/ /\ fd = None
          /\ UNCHANGED <<live, sess, fdtab, sq, submitted>>
       \/ /\ fd # None /\ Sessions \subseteq live
          /\ fdtab' = [fdtab EXCEPT ![fd] = None]
          /\ UNCHANGED <<live, sess, sq, submitted>>
       \/ /\ fd # None
          /\ \E s \in Sessions \ live :
                /\ live' = live \cup {s}
                /\ sess' = [sess EXCEPT ![s] = NewSession(fd)]
                /\ Prepare(ReadReq(s), fd)
          /\ UNCHANGED fdtab
    /\ UNCHANGED <<running, cur, bring, flight, client>>

\* The end of the ACCEPT handler: accept again while running.
RearmAccept ==
    /\ pc = "rearm" /\ pc' = "batch"
    /\ Prepare(AcceptReq, None)
    /\ UNCHANGED <<running, batch, cur, memory, fdtab, flight, cq, client>>

\* The session of a READ completion, after recv_active was cleared if the
\* completion is the request's last.
NeverCleared(c) == sess[c.req.ses]                  \* mutant: recv_active stays
AfterRead(c) == IF c.more THEN sess[c.req.ses]
                ELSE [sess[c.req.ses] EXCEPT !.recv = FALSE]

\* IO_OP_READ, end of stream or error: give the buffer back and close.
HandleReadEnd ==
    /\ Handling("read") /\ Consume
    /\ LET c == Head(cq) IN
       /\ c.res = "end"
       /\ ReturnBuffer(c.buf)
       /\ Cleanup(c.req.ses, [AfterRead(c) EXCEPT !.closing = TRUE])
    /\ UNCHANGED <<running, pc, cur, sq, submitted, flight, client>>

\* IO_OP_READ, -ENOBUFS: arm the read again, whatever the session's state.
HandleReadNoBufs ==
    /\ Handling("read") /\ Consume
    /\ LET c == Head(cq) IN
       /\ c.res = "nobufs"
       /\ sess' = [sess EXCEPT ![c.req.ses] = [AfterRead(c) EXCEPT !.recv = TRUE]]
       /\ Prepare(ReadReq(c.req.ses), sess[c.req.ses].fd)
    /\ UNCHANGED <<running, pc, cur, live, bring, fdtab, flight, client>>

\* IO_OP_READ, data: enter process_client_read.
HandleReadData ==
    /\ Handling("read") /\ Consume
    /\ LET c == Head(cq) IN
       /\ c.res = "data"
       /\ sess' = [sess EXCEPT ![c.req.ses] = AfterRead(c)]
       /\ cur' = [ses |-> c.req.ses, more |-> c.more, buf |-> c.buf, n |-> 0]
    /\ pc' = "read"
    /\ UNCHANGED <<running, live, bring, fdtab, sq, submitted, flight, client>>

\* A message that is answered: take a WriteResponse, send it, count it.
\* A closing session answers nothing.
AlwaysAnswers(s) == TRUE                            \* mutant: no closing check
Answers(s) == ~sess[s].closing
NotCounted(s, w) ==                                 \* mutant: no pending_writes++
    [sess[s] EXCEPT !.inuse = @ \cup {w}]
Sending(s, w) == [sess[s] EXCEPT !.inuse = @ \cup {w}, !.pw = @ + 1]
Reply ==
    /\ pc = "read" /\ cur.n < MaxMsgs /\ Answers(cur.ses)
    /\ \E w \in GetWriteResponse(cur.ses) :
          /\ sess' = [sess EXCEPT ![cur.ses] = Sending(cur.ses, w)]
          /\ Submit(WriteReq(cur.ses, w), sess[cur.ses].fd)
    /\ cur' = [cur EXCEPT !.n = @ + 1]
    /\ UNCHANGED <<running, pc, batch, live, bring, fdtab, flight, cq, client>>

\* The stream is given up: the session starts closing.  An invalid header is
\* preceded by an error reply (Reply); an overflow, or an error reply there was
\* no memory for, is not.
Reject ==
    /\ pc = "read" /\ ~sess[cur.ses].closing
    /\ sess' = [sess EXCEPT ![cur.ses].closing = TRUE]
    /\ UNCHANGED <<worker, live, bring, fdtab, ring, client>>

\* The end of process_client_read and of the READ handler: give the buffer
\* back; arm the read again if it ended and the session stays open; clean up a
\* closing session.
AlwaysEnded == TRUE                                 \* mutant: armed twice
NeverEnded == FALSE                                 \* mutant: never armed again
ReadEnded == ~cur.more
FinishRead ==
    /\ pc = "read" /\ pc' = "batch" /\ cur' = NoRead
    /\ ReturnBuffer(cur.buf)
    /\ LET s == cur.ses IN
       \/ /\ ~sess[s].closing /\ ~ReadEnded
          /\ UNCHANGED <<live, sess, fdtab, sq, submitted>>
       \/ /\ ~sess[s].closing /\ ReadEnded
          /\ sess' = [sess EXCEPT ![s].recv = TRUE]
          /\ Prepare(ReadReq(s), sess[s].fd)
          /\ UNCHANGED <<live, fdtab>>
       \/ /\ sess[s].closing
          /\ Cleanup(s, sess[s])
          /\ UNCHANGED <<sq, submitted>>
    /\ UNCHANGED <<running, batch, flight, cq, client>>

\* IO_OP_WRITE: uncount the send, close on error, free the WriteResponse.
Sent(c) == [sess[c.req.ses] EXCEPT !.pw = @ - 1,
                                   !.closing = @ \/ c.res = "err",
                                   !.inuse = @ \ {c.req.wr}]
HandleWriteNoCleanup ==                             \* mutant: no cleanup
    /\ Handling("write") /\ Consume
    /\ sess' = [sess EXCEPT ![Head(cq).req.ses] = Sent(Head(cq))]
    /\ UNCHANGED <<running, pc, cur, live, fdtab, bring, sq, submitted, flight, client>>
HandleWrite ==
    /\ Handling("write") /\ Consume
    /\ Cleanup(Head(cq).req.ses, Sent(Head(cq)))
    /\ UNCHANGED <<running, pc, cur, bring, sq, submitted, flight, client>>

\* The end of the batch: io_uring_cq_advance and io_uring_submit.
EndBatch ==
    /\ pc = "batch" /\ batch = 0
    /\ pc' = "wait"
    /\ submitted' = Len(sq)
    /\ UNCHANGED <<running, batch, cur, memory, fdtab, sq, flight, cq, client>>

\* The loop ends; io_uring_queue_exit drops whatever is still in the ring.
\* The rings keep their last contents, but nothing happens to them any more.
ExitDue == ~running
Exit ==
    /\ pc = "wait" /\ ExitDue
    /\ pc' = "exited"
    /\ UNCHANGED <<running, batch, cur, memory, fdtab, ring, client>>

Worker == \/ SpinForSqe \/ PeekBatch \/ HandleSignal \/ HandleAccept
          \/ RearmAccept \/ HandleReadEnd \/ HandleReadNoBufs \/ HandleReadData
          \/ Reply \/ Reject \/ FinishRead \/ HandleWrite \/ EndBatch \/ Exit

-------------------------------------------------------------------------------
(***************************************************************************)
(* The kernel's side of the ring.                                          *)
(***************************************************************************)
Post(c) == cq' = Append(cq, c)

\* The oldest visible submission is taken; a read or a send resolves its
\* descriptor now, and fails if it is not open.
Take ==
    /\ pc # "exited" /\ submitted > 0 /\ sq # << >>
    /\ sq' = Tail(sq) /\ submitted' = submitted - 1
    /\ LET e == Head(sq)
           file == IF e.fd = None THEN None ELSE fdtab[e.fd]
       IN IF e.req.op \in {"read", "write"} /\ file = None
          THEN /\ Post(Done(e.req, IF e.req.op = "read" THEN "end" ELSE "err"))
               /\ UNCHANGED flight
          ELSE /\ flight' = flight \cup {[req |-> e.req, conn |-> file]}
               /\ UNCHANGED cq
    /\ UNCHANGED <<worker, memory, fdtab, client>>

\* A signal is readable from the signalfd.
Signal ==
    /\ pc # "exited"
    /\ \E f \in flight : /\ f.req = SignalReq
                         /\ flight' = flight \ {f}
                         /\ Post(Done(SignalReq, "ok"))
    /\ UNCHANGED <<worker, memory, fdtab, sq, submitted, client>>

\* A connection is accepted, or cannot be: the descriptor table is full.
Accept(c) ==
    /\ pc # "exited" /\ cst[c] = "backlog"
    /\ \E f \in flight :
          /\ f.req = AcceptReq
          /\ flight' = flight \ {f}
          /\ \/ \E d \in Fds :
                   /\ fdtab[d] = None
                   /\ fdtab' = [fdtab EXCEPT ![d] = c]
                   /\ cst' = [cst EXCEPT ![c] = "up"]
                   /\ Post([Done(AcceptReq, "ok") EXCEPT !.fd = d])
             \/ /\ \A d \in Fds : fdtab[d] # None
                /\ Post(Done(AcceptReq, "err"))
                /\ UNCHANGED <<fdtab, cst>>
    /\ UNCHANGED <<worker, memory, sq, submitted, left>>

\* A multishot read completes once more: with data in a buffer of the ring
\* (and possibly for the last time), with -ENOBUFS, or because the peer is gone.
Recv(s) ==
    /\ pc # "exited"
    /\ \E f \in flight :
          /\ f.req = ReadReq(s)
          /\ \/ /\ left[f.conn] > 0
                /\ \E b \in bring, more \in BOOLEAN :
                      /\ Post([Done(f.req, "data") EXCEPT !.buf = b, !.more = more])
                      /\ bring' = bring \ {b}
                      /\ flight' = IF more THEN flight ELSE flight \ {f}
                /\ left' = [left EXCEPT ![f.conn] = @ - 1]
             \/ /\ left[f.conn] > 0 /\ bring = {}
                /\ Post(Done(f.req, "nobufs"))
                /\ flight' = flight \ {f}
                /\ UNCHANGED <<bring, left>>
             \/ /\ cst[f.conn] = "gone"
                /\ \E b \in bring \cup {None} :
                      /\ Post([Done(f.req, "end") EXCEPT !.buf = b])
                      /\ bring' = bring \ {b}
                /\ flight' = flight \ {f}
                /\ UNCHANGED left
    /\ UNCHANGED <<worker, live, sess, fdtab, sq, submitted, cst>>

\* A send completes, in full or in part, or fails because the peer is gone.
Send(s, w) ==
    /\ pc # "exited"
    /\ \E f \in flight :
          /\ f.req = WriteReq(s, w)
          /\ flight' = flight \ {f}
          /\ \/ Post(Done(f.req, "ok"))
             \/ cst[f.conn] = "gone" /\ Post(Done(f.req, "err"))
    /\ UNCHANGED <<worker, memory, fdtab, sq, submitted, client>>

-------------------------------------------------------------------------------
(***************************************************************************)
(* The clients.  One that leaves while still in the backlog looks to the   *)
(* worker like one that leaves right after it was accepted.                *)
(***************************************************************************)
Connect(c) ==
    /\ pc # "exited" /\ cst[c] = "new"
    /\ cst' = [cst EXCEPT ![c] = "backlog"]
    /\ UNCHANGED <<worker, memory, fdtab, ring, left>>

Leave(c) ==
    /\ pc # "exited" /\ cst[c] = "up"
    /\ cst' = [cst EXCEPT ![c] = "gone"]
    /\ UNCHANGED <<worker, memory, fdtab, ring, left>>

\* The worker process is gone.
Terminated == pc = "exited" /\ UNCHANGED vars

Next ==
    \/ Worker
    \/ Take \/ Signal
    \/ \E c \in Conns : Accept(c) \/ Connect(c) \/ Leave(c)
    \/ \E s \in Sessions : Recv(s) \/ \E w \in WrIds : Send(s, w)
    \/ Terminated

Spec == Init /\ [][Next]_vars

\* The worker thread and the kernel make progress; a peer reads what it is sent.
ServerFairness ==
    /\ WF_vars(Worker) /\ WF_vars(Take)
    /\ \A c \in Conns : WF_vars(Accept(c))
    /\ \A s \in Sessions : /\ WF_vars(Recv(s))
                           /\ \A w \in WrIds : WF_vars(Send(s, w))

FairSpec == Spec /\ ServerFairness

-------------------------------------------------------------------------------
(***************************************************************************)
(* Properties.                                                             *)
(***************************************************************************)

\* Every variable has its type; in particular pending_writes never goes below
\* zero (server.c:775) and the kernel never sees more entries than there are.
TypeOK ==
    /\ running \in BOOLEAN
    /\ pc \in {"wait", "batch", "read", "rearm", "exited"}
    /\ batch \in Nat
    /\ cur \in [ses : Sessions \cup {None}, more : BOOLEAN,
               buf : Buffers \cup {None}, n : Nat]
    /\ pc = "read" => cur.ses \in Sessions
    /\ live \subseteq Sessions
    /\ sess \in [Sessions -> Session]
    /\ fdtab \in [Fds -> Conns \cup {None}]
    /\ sq \in Seq(Sqe)
    /\ submitted \in 0..Len(sq)
    /\ flight \subseteq Flight
    /\ cq \in Seq(Cqe)
    /\ bring \subseteq Buffers
    /\ cst \in [Conns -> {"new", "backlog", "up", "gone"}]
    /\ left \in [Conns -> Nat]

\* Where a request can be: submitted but not taken, executing, or completed for
\* good but not handled.  (A read with data may also be completed "with more".)
HasReq(q, r)   == \E i \in 1..Len(q) : q[i].req = r
HasFinal(q, r) == \E i \in 1..Len(q) : q[i].req = r /\ ~q[i].more
HasMore(q, r)  == \E i \in 1..Len(q) : q[i].req = r /\ q[i].more

InSq(r)     == HasReq(sq, r)
InFlight(r) == \E f \in flight : f.req = r
InCq(r)     == HasFinal(cq, r)
Outstanding(r) == InSq(r) \/ InFlight(r) \/ InCq(r)

\* No completion, executing request or submission ever refers to a session
\* that cleanup_session_if_needed has freed (server.c:84-96): its address comes
\* back as user data and would be dereferenced.
NoDanglingRequest ==
    /\ \A i \in 1..Len(sq) : sq[i].req.ses \in live \cup {None}
    /\ \A f \in flight : f.req.ses \in live \cup {None}
    /\ \A i \in 1..Len(cq) : cq[i].req.ses \in live \cup {None}
    /\ pc = "read" => cur.ses \in live

\* pending_writes counts the sends that are outstanding, and a WriteResponse
\* is in use exactly while its send is: no slot is reused under a send and none
\* is lost (server.c:98-127, 772-788).
WritesAccounted ==
    \A s \in Sessions :
        /\ sess[s].pw = Cardinality(sess[s].inuse)
        /\ \A w \in WrIds : w \in sess[s].inuse <=> Outstanding(WriteReq(s, w))

\* recv_active says whether the session's one multishot read is outstanding
\* (server.c:704-706, 730-733, 752-761): two would interleave one stream.
ReadAccounted ==
    \A s \in live : sess[s].recv <=> Outstanding(ReadReq(s))

\* No request is in two places, or twice in one, at once; a completion "with
\* more" is data of a read that goes on, and nothing of a read completes after
\* its last completion.
DistinctReqs(q)  == \A i, j \in 1..Len(q) : q[i].req = q[j].req => i = j
FinalIsLast(q)   == \A i, j \in 1..Len(q) : q[i].req = q[j].req /\ i < j => q[i].more
RequestsUnique ==
    /\ DistinctReqs(sq)
    /\ \A f, g \in flight : f.req = g.req => f = g
    /\ FinalIsLast(cq)
    /\ \A i \in 1..Len(cq) : cq[i].more => cq[i].res = "data"
    /\ \A r \in Requests :
          /\ ~(InSq(r) /\ InFlight(r))
          /\ ~(InCq(r) /\ (InSq(r) \/ InFlight(r)))
          /\ HasMore(cq, r) => r.op = "read" /\ (InFlight(r) \/ InCq(r))

\* Between two handlers, a session that is not closing has its read armed:
\* otherwise it would never hear from its client again.
NeverDeaf ==
    pc # "read" => \A s \in live : sess[s].closing \/ sess[s].recv

\* Between two handlers, a closing session with nothing outstanding has been
\* freed, and one that waits only for its read has closed its descriptor:
\* every handler that makes the condition true runs the cleanup.
NoForgottenSession ==
    pc # "read" =>
        \A s \in live : sess[s].closing /\ sess[s].pw = 0
                           => sess[s].recv /\ sess[s].fd = None

\* What a closing session waits for only gets less: it issues no request, but the
\* read that ends for want of a buffer again (server.c:129-131, 728-739, 754-767),
\* so nothing puts its end off.
ClosingIssuesNothing ==
    [][\A s \in live : sess[s].closing =>
           \A r \in Requests : r.ses = s /\ Outstanding(r)' => Outstanding(r)]_vars

\* A receive buffer is in the ring, or in exactly one unhandled completion:
\* none is leaked and none is filled again while it is being read
\* (server.c:402-410, 714-723).
BuffersAccounted ==
    \A b \in Buffers :
        LET holders == {i \in 1..Len(cq) : cq[i].buf = b}
        IN Cardinality(holders) + (IF b \in bring THEN 1 ELSE 0)
                                + (IF pc = "read" /\ cur.buf = b THEN 1 ELSE 0) = 1

\* An open descriptor belongs to exactly one session, or to an accept that is
\* not handled yet: none is leaked, none is closed by two sessions.
DescriptorsAccounted ==
    \A d \in Fds :
        LET owners  == {s \in live : sess[s].fd = d}
            holders == {i \in 1..Len(cq) : cq[i].fd = d}
        IN Cardinality(owners) + Cardinality(holders)
             = (IF fdtab[d] = None THEN 0 ELSE 1)

\* A reply goes to the client whose request it answers: when the kernel takes
\* a send, its descriptor still is the session's own connection.
RepliesReachTheirClient ==
    /\ \A i \in 1..Len(sq) : sq[i].req.op = "write" =>
          /\ sq[i].fd # None
          /\ fdtab[sq[i].fd] = sess[sq[i].req.ses].conn
    /\ \A f \in flight : f.req.op = "write" => f.conn = sess[f.req.ses].conn

\* The bytes a session processes come from the connection it was accepted for
\* (docs/protocol.md:167).  VIOLATED: a read that was prepared but not yet taken
\* keeps the number of a descriptor the worker closes meanwhile.
ReadsOwnConnection ==
    \A f \in flight : f.req.op = "read" => f.conn = sess[f.req.ses].conn

\* A file is closed for its client when neither the descriptor table nor an
\* executing request holds it.
Referenced(c) == \/ \E d \in Fds : fdtab[d] = c
                 \/ \E f \in flight : f.conn = c

\* A session that gives its client up disconnects it (server.c:169,
\* "Disconnecting.").  VIOLATED under FairSpec: close() does not end the
\* multishot read, which keeps the connection open until the client hangs up.
DisconnectsWhenClosing ==
    \A c \in Conns :
        (\E s \in live : sess[s].conn = c /\ sess[s].closing)
            ~> (~Referenced(c) \/ pc = "exited")

-------------------------------------------------------------------------------
(***************************************************************************)
(* The inductive invariant behind NoDanglingRequest.  ReadAccounted and    *)
(* WritesAccounted tie recv_active and the write slots to the requests in  *)
(* the rings, RequestsUnique makes "the last completion" meaningful, and   *)
(* the rest says what a session is outside its lifetime and what the       *)
(* worker knows in the middle of a handler.                                *)
(***************************************************************************)
FreeIsBlank  == \A s \in Sessions : s \notin live => sess[s] = FreeSession
ReadsMatch   == \A s \in Sessions : sess[s].recv <=> Outstanding(ReadReq(s))
MidRead      == pc = "read" => cur.ses \in live /\ (sess[cur.ses].recv <=> cur.more)
MidAccept    == pc = "rearm" => ~Outstanding(AcceptReq)

LifetimeInv ==
    /\ TypeOK /\ FreeIsBlank /\ WritesAccounted /\ ReadsMatch /\ RequestsUnique
    /\ MidRead /\ MidAccept

-------------------------------------------------------------------------------
(***************************************************************************)
(* The worker implements SessionLifecycle.                                 *)
(***************************************************************************)
Phase(s) == CASE s \notin live -> "free"
              [] s \in live /\ ~sess[s].closing -> "open"
              [] s \in live /\ sess[s].closing /\ sess[s].fd # None -> "draining"
              [] OTHER -> "lingering"

Lifecycle == INSTANCE SessionLifecycle
                WITH phase <- [s \in Sessions |-> Phase(s)],
                     owed  <- [s \in Sessions |-> sess[s].pw]

\* Every step of a handler is a step of the lifecycle of one session, or none:
\* a descriptor is closed only when nothing is owed, and memory is reused only
\* by a new connection.
ImplementsLifecycle == Lifecycle!Spec
===============================================================================
