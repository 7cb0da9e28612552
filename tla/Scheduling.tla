------------------------------ MODULE Scheduling ------------------------------
(***************************************************************************)
(* A worker and the SQPOLL thread that takes its submissions, with the     *)
(* priorities the supervisor gives the two (src/src/main.c,                *)
(* tune_sqpoll_thread).  With a real-time priority above 1 the SQPOLL      *)
(* thread runs one step below the worker and is pinned to the worker's     *)
(* core: it gets the core only while the worker sleeps, and sched_yield()  *)
(* in safe_get_sqe yields to no lower priority.                            *)
(*                                                                         *)
(* MachServer lets the kernel take a submission at any time.  Here it does *)
(* so only when the scheduler lets it, and the liveness of the worker is   *)
(* stated for both ways of starting the server.                            *)
(***************************************************************************)
EXTENDS MachServer

VARIABLE outranks    \* the worker outranks its SQPOLL thread on their core

svars == <<vars, outranks>>

SInit == Init /\ outranks \in BOOLEAN

\* The worker sleeps in io_uring_wait_cqe: no completion is there to handle.
Asleep == pc = "wait" /\ running /\ cq = << >>

\* The SQPOLL thread is given the core: at once if it has one of its own or
\* the priority of an ordinary thread next to ordinary threads.
PollerRuns == outranks => Asleep

\* safe_get_sqe would go round without the ring getting any emptier:
\* everything is flushed, and the thread that would take it does not run.
Starved == outranks /\ NeedsSqe /\ ~HasSqe /\ submitted = Len(sq)
SpinInVain == Starved /\ UNCHANGED vars

SNext ==
    /\ \/ Worker
       \/ PollerRuns /\ Take
       \/ SpinInVain
       \/ Signal
       \/ \E c \in Conns : Accept(c) \/ Connect(c) \/ Leave(c)
       \/ \E s \in Sessions : Recv(s) \/ \E w \in WrIds : Send(s, w)
       \/ Terminated
    /\ UNCHANGED outranks

\* The worker runs, except that one in need of an entry it cannot get may spin
\* for good (a received chunk need not be answered: then it goes on).  The
\* SQPOLL thread runs when it is given the core, and the kernel completes what
\* it can complete.
SFairness ==
    /\ WF_svars(~Starved /\ Worker /\ UNCHANGED outranks)
    /\ WF_svars(PollerRuns /\ Take /\ UNCHANGED outranks)
    /\ \A c \in Conns : WF_svars(Accept(c) /\ UNCHANGED outranks)
    /\ \A s \in Sessions :
          /\ WF_svars(Recv(s) /\ UNCHANGED outranks)
          /\ \A w \in WrIds : WF_svars(Send(s, w) /\ UNCHANGED outranks)

SSpec == SInit /\ [][SNext]_svars /\ SFairness

-------------------------------------------------------------------------------
(***************************************************************************)
(* Properties.  Each says where priorities that starve the SQPOLL thread   *)
(* are the exception.                                                      *)
(***************************************************************************)

\* A worker that outranks its SQPOLL thread and needs an entry of the full,
\* flushed ring needs it for good, whatever completes meanwhile: no other handler
\* runs, and the thread never gets the core (main.c:47-50, server.c:24-32).  Only
\* inside process_client_read may it go on, if the rest is not answered.
StarvationLasts == [][Starved => Starved' \/ FinishRead]_svars

\* A handler that finds the submission ring full gets its entry in the end
\* (server.c:24-32): the flush makes every entry visible and the SQPOLL thread
\* takes them.  The exception is a worker that outranks that thread
\* (main.c:47-50): then it spins for good.
SpinEnds ==
    (NeedsSqe /\ ~HasSqe) ~> (HasSqe \/ ~NeedsSqe \/ []Starved)

\* A closing session is freed, unless its read still executes on a connection
\* whose client has not hung up: everything else outstanding completes by
\* itself, and the last completion cleans up (server.c:84-96, 708-711, 763-767,
\* 787-788).
AwaitsHangup(s) == \E f \in flight : f.req = ReadReq(s) /\ cst[f.conn] = "up"
ClosingIsFreed ==
    \A s \in Sessions :
        (s \in live /\ sess[s].closing)
            ~> (s \notin live \/ AwaitsHangup(s) \/ pc = "exited" \/ []Starved)

\* A client waiting in the backlog is accepted, unless the worker stops or has
\* no descriptor left: the accept is armed again after every completion, a
\* failed one included (server.c:642-697).
BacklogIsServed ==
    \A c \in Conns :
        cst[c] = "backlog"
            ~> (cst[c] = "up" \/ ~running \/ []Starved \/ \A d \in Fds : fdtab[d] # None)

\* Data an open session's client has sent is read in the end, through buffer
\* exhaustion and reads that end early (server.c:728-739, 752-761).
DataIsRead ==
    \A s \in Sessions, c \in Conns :
        (s \in live /\ sess[s].conn = c /\ ~sess[s].closing /\ left[c] > 0)
            ~> (\/ left[c] = 0 \/ s \notin live \/ sess[s].closing
                \/ pc = "exited" \/ []Starved)

\* Once a signal has been posted, the worker exits, whatever is outstanding
\* (server.c:599-621, 634-641, 799-800): it works off the completions that arrived
\* first, with the entries of the submission ring they need, and the rest of the batch.
StopsWhenSignalled == HasReq(cq, SignalReq) ~> (pc = "exited" \/ []Starved)
===============================================================================
