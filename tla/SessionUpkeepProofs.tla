-------------------------- MODULE SessionUpkeepProofs --------------------------
(***************************************************************************)
(* Proofs about MachServer: the handlers leave every session with its read *)
(* armed, or closing and cleaned up as far as it can be.  Whatever the     *)
(* sizes, no live session is ever deaf or forgotten.                       *)
(***************************************************************************)
EXTENDS MachServerProofs

\* How a handler leaves a session: listening unless it closes; and if it closes
\* with nothing left to send, waiting for its read alone, its descriptor closed.
Tended(S) ==
    /\ S.closing \/ S.recv
    /\ S.closing /\ S.pw = 0 => S.recv /\ S.fd = None

\* The descriptor is given up only at the end.
Grounded(S) == S.fd = None => S.closing /\ S.pw = 0

\* The session process_client_read works on is exempt until FinishRead.
AtRest(s) == pc = "read" => s # cur.ses

Upkeep == \A s \in live : (AtRest(s) => Tended(sess[s])) /\ Grounded(sess[s])

UpkeepInv == LifetimeInv /\ Upkeep

-------------------------------------------------------------------------------
\* A step that changes nothing a session says of itself.
LEMMA UpkeepKept ==
    ASSUME Upkeep, UNCHANGED <<live, sess>>,
           pc' = "read" => pc = "read" /\ cur'.ses = cur.ses,
           pc = "read" => pc' = "read"
    PROVE  Upkeep'
  BY DEF Upkeep, AtRest

\* A step that changes one session, s, and leaves the others alone.
LEMMA UpkeepOfOne ==
    ASSUME Upkeep, NEW s, live' \subseteq live \cup {s},
           \A u \in live' \ {s} : sess'[u] = sess[u],
           pc = "read" => cur.ses = s, pc' = "read" => cur'.ses = s,
           s \in live' => (pc' = "read" \/ Tended(sess'[s])) /\ Grounded(sess'[s])
    PROVE  Upkeep'
<1> SUFFICES ASSUME NEW u \in live'
             PROVE  (AtRest(u)' => Tended(sess'[u])) /\ Grounded(sess'[u])
  BY DEF Upkeep
<1>1. CASE u = s
  BY <1>1 DEF AtRest
<1>2. CASE u # s
  <2>1. u \in live /\ AtRest(u) /\ sess'[u] = sess[u]
    BY <1>2 DEF AtRest
  <2> QED
    BY <2>1 DEF Upkeep
<1> QED
  BY <1>1, <1>2

\* cleanup_session_if_needed leaves a session tended (server.c:84-96).
LEMMA CleanupTends ==
    ASSUME sess \in [Sessions -> Session], live \subseteq Sessions, NEW s \in live,
           NEW S \in Session, Cleanup(s, S), S.closing \/ S.recv, Grounded(S)
    PROVE  /\ live' \subseteq live
           /\ \A u \in live' \ {s} : sess'[u] = sess[u]
           /\ s \in live' => Tended(sess'[s]) /\ Grounded(sess'[s])
<1>1. CASE CloseDue(S) /\ FreeDue(S)
  BY <1>1 DEF Cleanup
<1>2. CASE CloseDue(S) /\ ~FreeDue(S)
  <2>1. live' = live /\ sess' = [sess EXCEPT ![s] = ForgetFd(S)]
    BY <1>2 DEF Cleanup
  <2>2. /\ ForgetFd(S).closing = S.closing /\ ForgetFd(S).recv = S.recv
        /\ ForgetFd(S).pw = S.pw /\ ForgetFd(S).fd = None
    BY DEF ForgetFd, Session
  <2>3. Tended(ForgetFd(S)) /\ Grounded(ForgetFd(S))
    BY <1>2, <2>2 DEF CloseDue, FreeDue, Tended, Grounded
  <2> QED
    BY <2>1, <2>3
<1>3. CASE ~CloseDue(S)
  <2>1. live' = live /\ sess' = [sess EXCEPT ![s] = S]
    BY <1>3 DEF Cleanup
  <2>2. Tended(S)
    BY <1>3 DEF CloseDue, Tended
  <2> QED
    BY <2>1, <2>2
<1> QED
  BY <1>1, <1>2, <1>3

LEMMA UpkeepParts ==
    UpkeepInv => /\ LifetimeInv /\ Upkeep /\ TypeOK /\ Kept
                 /\ sess \in [Sessions -> Session] /\ live \subseteq Sessions
  BY Parts DEF UpkeepInv, TypeOK

-------------------------------------------------------------------------------
(***************************************************************************)
(* One lemma per handler that touches a session.                           *)
(***************************************************************************)
LEMMA UpkeepByAccept == UpkeepInv /\ HandleAccept => Upkeep'
<1> SUFFICES ASSUME UpkeepInv, HandleAccept PROVE Upkeep'
  OBVIOUS
<1>1. pc = "batch" /\ pc' \in {"rearm", "batch"}
  BY DEF HandleAccept, Handling, AfterAccept
<1>2. CASE UNCHANGED <<live, sess>>
  BY <1>1, <1>2, UpkeepParts, UpkeepKept
<1>3. ASSUME NEW s \in Sessions \ live, NEW fd, fd # None, live' = live \cup {s},
             sess' = [sess EXCEPT ![s] = NewSession(fd)]
      PROVE  Upkeep'
  <2>1. /\ NewSession(fd).fd = fd /\ NewSession(fd).recv = TRUE
        /\ NewSession(fd).closing = FALSE
    BY DEF NewSession, FreeSession
  <2>2. Tended(NewSession(fd)) /\ Grounded(NewSession(fd))
    BY <1>3, <2>1 DEF Tended, Grounded
  <2>3. sess'[s] = NewSession(fd) /\ \A u \in live' \ {s} : sess'[u] = sess[u]
    BY <1>3, UpkeepParts
  <2> QED
    BY <1>1, <1>3, <2>2, <2>3, UpkeepParts, UpkeepOfOne
<1> QED
  BY <1>2, <1>3 DEF HandleAccept

LEMMA UpkeepByRead ==
    UpkeepInv /\ (HandleReadEnd \/ HandleReadNoBufs \/ HandleReadData) => Upkeep'
<1> SUFFICES ASSUME UpkeepInv, HandleReadEnd \/ HandleReadNoBufs \/ HandleReadData
             PROVE  Upkeep'
  OBVIOUS
<1>1. PICK s : s = Head(cq).req.ses
  OBVIOUS
<1>2. PICK S : S = AfterRead(Head(cq))
  OBVIOUS
<1>3. Handling("read") /\ Consume
  BY DEF HandleReadEnd, HandleReadNoBufs, HandleReadData
<1>4. s \in live /\ s \in Sessions /\ pc = "batch" /\ S \in Session /\ S.pw = sess[s].pw
  BY <1>1, <1>2, <1>3, UpkeepParts, ReadHandled
<1>5. S.closing = sess[s].closing /\ S.fd = sess[s].fd
  <2>1. PICK R \in Session : R = sess[s]
    BY <1>4, UpkeepParts
  <2>2. S = IF Head(cq).more THEN R ELSE [R EXCEPT !.recv = FALSE]
    BY <1>1, <1>2, <2>1 DEF AfterRead
  <2> QED
    BY <2>1, <2>2 DEF Session
<1>6. Tended(sess[s]) /\ Grounded(sess[s]) /\ Grounded(S)
  BY <1>4, <1>5, UpkeepParts DEF Upkeep, AtRest, Grounded
<1>7. CASE HandleReadEnd
  <2>1. PICK C : C = [S EXCEPT !.closing = TRUE]
    OBVIOUS
  <2>2. C \in Session /\ C.closing /\ C.fd = S.fd /\ C.pw = S.pw
    BY <1>4, <2>1 DEF Session
  <2>3. pc' = pc /\ Cleanup(s, C)
    BY <1>1, <1>2, <1>7, <2>1 DEF HandleReadEnd
  <2>4. Grounded(C)
    BY <1>6, <2>2 DEF Grounded
  <2>5. /\ live' \subseteq live /\ \A u \in live' \ {s} : sess'[u] = sess[u]
        /\ s \in live' => Tended(sess'[s]) /\ Grounded(sess'[s])
    BY <1>4, <2>2, <2>3, <2>4, UpkeepParts, CleanupTends
  <2> QED
    BY <1>4, <2>3, <2>5, UpkeepParts, UpkeepOfOne
<1>8. CASE HandleReadNoBufs
  <2>1. PICK C : C = [S EXCEPT !.recv = TRUE]
    OBVIOUS
  <2>2. C.recv /\ C.closing = S.closing /\ C.fd = S.fd /\ C.pw = S.pw
    BY <1>4, <2>1 DEF Session
  <2>3. pc' = pc /\ live' = live /\ sess' = [sess EXCEPT ![s] = C]
    BY <1>1, <1>2, <1>8, <2>1 DEF HandleReadNoBufs
  <2>4. Tended(C) /\ Grounded(C)
    BY <1>4, <1>5, <1>6, <2>2 DEF Tended, Grounded
  <2>5. sess'[s] = C /\ \A u \in live' \ {s} : sess'[u] = sess[u]
    BY <1>4, <2>3, UpkeepParts
  <2> QED
    BY <1>4, <2>3, <2>4, <2>5, UpkeepParts, UpkeepOfOne
<1>9. CASE HandleReadData
  <2>1. /\ pc' = "read" /\ cur'.ses = s /\ live' = live
        /\ sess' = [sess EXCEPT ![s] = S]
    BY <1>1, <1>2, <1>9 DEF HandleReadData
  <2>2. sess'[s] = S /\ \A u \in live' \ {s} : sess'[u] = sess[u]
    BY <1>4, <2>1, UpkeepParts
  <2> QED
    BY <1>4, <1>6, <2>1, <2>2, UpkeepParts, UpkeepOfOne
<1> QED
  BY <1>7, <1>8, <1>9

LEMMA UpkeepByReply == UpkeepInv /\ (Reply \/ Reject) => Upkeep'
<1> SUFFICES ASSUME UpkeepInv, Reply \/ Reject PROVE Upkeep'
  OBVIOUS
<1>1. PICK s : s = cur.ses
  OBVIOUS
<1>2. pc = "read" /\ pc' = "read" /\ live' = live /\ cur'.ses = s /\ ~sess[s].closing
  BY <1>1, UpkeepParts DEF Reply, Reject, Answers, worker, TypeOK
<1>3. s \in live /\ s \in Sessions /\ sess[s] \in Session
  BY <1>1, <1>2, UpkeepParts DEF Kept, MidRead
<1>4. Grounded(sess[s])
  BY <1>3, UpkeepParts DEF Upkeep
<1>5. PICK R \in Session : R = sess[s]
  BY <1>3
<1>6. ASSUME NEW S, sess' = [sess EXCEPT ![s] = S], S.fd = R.fd
      PROVE  Upkeep'
  <2>1. sess'[s] = S /\ \A u \in live' \ {s} : sess'[u] = sess[u]
    BY <1>2, <1>3, <1>6, UpkeepParts
  <2>2. Grounded(S)
    BY <1>2, <1>4, <1>5, <1>6 DEF Grounded
  <2> QED
    BY <1>1, <1>2, <2>1, <2>2, UpkeepParts, UpkeepOfOne
<1>7. CASE Reply
  <2>1. PICK w : sess' = [sess EXCEPT ![s] = Sending(s, w)]
    BY <1>1, <1>7 DEF Reply
  <2>2. Sending(s, w) = [R EXCEPT !.inuse = R.inuse \cup {w}, !.pw = R.pw + 1]
    BY <1>5 DEF Sending, Session
  <2>3. Sending(s, w).fd = R.fd
    BY <2>2 DEF Session
  <2> QED
    BY <1>6, <2>1, <2>3
<1>8. CASE Reject
  <2>1. sess' = [sess EXCEPT ![s] = [R EXCEPT !.closing = TRUE]]
    BY <1>1, <1>5, <1>8 DEF Reject
  <2>2. [R EXCEPT !.closing = TRUE].fd = R.fd
    BY DEF Session
  <2> QED
    BY <1>6, <2>1, <2>2
<1> QED
  BY <1>7, <1>8

LEMMA UpkeepByFinishRead == UpkeepInv /\ FinishRead => Upkeep'
<1> SUFFICES ASSUME UpkeepInv, FinishRead PROVE Upkeep'
  OBVIOUS
<1>1. PICK s : s = cur.ses
  OBVIOUS
<1>2. /\ pc = "read" /\ pc' = "batch"
      /\ \/ ~sess[s].closing /\ cur.more /\ UNCHANGED <<live, sess>>
         \/ ~sess[s].closing /\ sess' = [sess EXCEPT ![s].recv = TRUE] /\ UNCHANGED live
         \/ sess[s].closing /\ Cleanup(s, sess[s])
  BY <1>1 DEF FinishRead, ReadEnded
<1>3. /\ s \in live /\ s \in Sessions /\ sess[s] \in Session /\ Grounded(sess[s])
      /\ sess[s].recv <=> cur.more
  BY <1>1, <1>2, UpkeepParts DEF Kept, MidRead, Upkeep
<1>4. CASE ~sess[s].closing /\ cur.more /\ UNCHANGED <<live, sess>>
  <2>1. Tended(sess'[s])
    BY <1>3, <1>4 DEF Tended
  <2> QED
    BY <1>1, <1>2, <1>3, <1>4, <2>1, UpkeepParts, UpkeepOfOne
<1>5. CASE ~sess[s].closing /\ sess' = [sess EXCEPT ![s].recv = TRUE] /\ UNCHANGED live
  <2>1. PICK S : S = [sess[s] EXCEPT !.recv = TRUE]
    OBVIOUS
  <2>2. S.recv /\ S.closing = sess[s].closing /\ S.fd = sess[s].fd /\ S.pw = sess[s].pw
    BY <1>3, <2>1 DEF Session
  <2>3. Tended(S) /\ Grounded(S)
    BY <1>3, <1>5, <2>2 DEF Tended, Grounded
  <2>4. sess'[s] = S /\ \A u \in live' \ {s} : sess'[u] = sess[u]
    BY <1>3, <1>5, <2>1, UpkeepParts
  <2> QED
    BY <1>1, <1>2, <1>5, <2>3, <2>4, UpkeepParts, UpkeepOfOne
<1>6. CASE sess[s].closing /\ Cleanup(s, sess[s])
  <2>1. PICK S \in Session : S = sess[s]
    BY <1>3
  <2>2. Cleanup(s, S) /\ S.closing /\ Grounded(S)
    BY <1>3, <1>6, <2>1
  <2>3. /\ live' \subseteq live /\ \A u \in live' \ {s} : sess'[u] = sess[u]
        /\ s \in live' => Tended(sess'[s]) /\ Grounded(sess'[s])
    BY <1>3, <2>2, UpkeepParts, CleanupTends
  <2> QED
    BY <1>1, <1>2, <2>3, UpkeepParts, UpkeepOfOne
<1> QED
  BY <1>2, <1>4, <1>5, <1>6

LEMMA UpkeepByWrite == UpkeepInv /\ HandleWrite => Upkeep'
<1> SUFFICES ASSUME UpkeepInv, HandleWrite PROVE Upkeep'
  OBVIOUS
<1>1. PICK c : c = Head(cq)
  OBVIOUS
<1>2. PICK s : s = c.req.ses
  OBVIOUS
<1>3. PICK S : S = Sent(c)
  OBVIOUS
<1>4. Handling("write") /\ Consume /\ pc = "batch" /\ pc' = pc /\ Cleanup(s, S)
  BY <1>1, <1>2, <1>3 DEF HandleWrite, Handling
<1>5. s \in live /\ s \in Sessions /\ sess[s].pw - 1 \in Nat /\ c.req.wr \in WrIds
  BY <1>1, <1>2, <1>4, UpkeepParts, SentWasCounted
<1>6. PICK R \in Session : R = sess[s]
  BY <1>5, UpkeepParts
<1>7. Tended(R) /\ Grounded(R)
  BY <1>4, <1>5, <1>6, UpkeepParts DEF Upkeep, AtRest
<1>8. S = [R EXCEPT !.pw = R.pw - 1, !.closing = R.closing \/ c.res = "err",
                    !.inuse = R.inuse \ {c.req.wr}]
  BY <1>2, <1>3, <1>6 DEF Sent, Session
<1>9. S \in Session /\ S.recv = R.recv /\ S.fd = R.fd /\ (R.closing => S.closing)
      /\ R.pw # 0
  <2>1. S \in Session
    BY <1>5, <1>6, <1>8 DEF Session
  <2>2. S.recv = R.recv /\ S.fd = R.fd /\ (R.closing => S.closing)
    BY <1>8 DEF Session
  <2>3. R.pw # 0
    BY <1>5, <1>6
  <2> QED
    BY <2>1, <2>2, <2>3
<1>10. (S.closing \/ S.recv) /\ Grounded(S)
  BY <1>7, <1>9 DEF Tended, Grounded
<1>11. /\ live' \subseteq live /\ \A u \in live' \ {s} : sess'[u] = sess[u]
       /\ s \in live' => Tended(sess'[s]) /\ Grounded(sess'[s])
  BY <1>4, <1>5, <1>9, <1>10, UpkeepParts, CleanupTends
<1> QED
  BY <1>4, <1>5, <1>11, UpkeepParts, UpkeepOfOne

\* The other steps leave the sessions, and the one being read, alone.
LEMMA UpkeepByOthers ==
    UpkeepInv /\ \/ SpinForSqe \/ PeekBatch \/ HandleSignal \/ RearmAccept \/ EndBatch
                 \/ Exit \/ Environment \/ UNCHANGED vars
      => Upkeep'
<1> SUFFICES ASSUME UpkeepInv,
                    \/ SpinForSqe \/ PeekBatch \/ HandleSignal \/ RearmAccept \/ EndBatch
                    \/ Exit \/ Environment \/ UNCHANGED vars
             PROVE  Upkeep'
  OBVIOUS
<1>1. CASE SpinForSqe \/ PeekBatch \/ HandleSignal \/ RearmAccept \/ EndBatch \/ Exit
  <2>1. /\ UNCHANGED <<live, sess>> /\ UNCHANGED cur
        /\ pc' = "read" <=> pc = "read"
    BY <1>1 DEF SpinForSqe, PeekBatch, HandleSignal, Handling, RearmAccept, EndBatch, Exit,
       worker, memory
  <2> QED
    BY <2>1, UpkeepParts, UpkeepKept
<1>2. CASE Environment \/ UNCHANGED vars
  <2>1. UNCHANGED <<live, sess, pc, cur>>
    BY <1>2 DEF Environment, Take, Signal, Accept, Connect, Leave, Recv, Send, vars,
       worker, memory
  <2> QED
    BY <2>1, UpkeepParts, UpkeepKept
<1> QED
  BY <1>1, <1>2

LEMMA UpkeepByAll == UpkeepInv /\ [Next]_vars => Upkeep'
<1> SUFFICES ASSUME UpkeepInv, [Next]_vars PROVE Upkeep'
  OBVIOUS
<1>1. CASE HandleAccept
  BY <1>1, UpkeepByAccept
<1>2. CASE HandleReadEnd \/ HandleReadNoBufs \/ HandleReadData
  BY <1>2, UpkeepByRead
<1>3. CASE Reply \/ Reject
  BY <1>3, UpkeepByReply
<1>4. CASE FinishRead
  BY <1>4, UpkeepByFinishRead
<1>5. CASE HandleWrite
  BY <1>5, UpkeepByWrite
<1>6. CASE \/ SpinForSqe \/ PeekBatch \/ HandleSignal \/ RearmAccept \/ EndBatch \/ Exit
           \/ Environment \/ UNCHANGED vars
  BY <1>6, UpkeepByOthers
<1> QED
  BY <1>1, <1>2, <1>3, <1>4, <1>5, <1>6 DEF Next, Worker, Environment, Terminated

LEMMA UpkeepStep == UpkeepInv /\ [Next]_vars => UpkeepInv'
  BY LifetimeStep, UpkeepByAll DEF UpkeepInv

LEMMA UpkeepInit == Init => UpkeepInv
<1> SUFFICES ASSUME Init PROVE UpkeepInv
  OBVIOUS
<1>1. live = {}
  BY DEF Init
<1> QED
  BY <1>1, LifetimeInit DEF UpkeepInv, Upkeep

LEMMA UpkeepInvariant == Spec => []UpkeepInv
  BY UpkeepInit, UpkeepStep, PTL DEF Spec

-------------------------------------------------------------------------------
\* Between two handlers, a session that is not closing has its read armed: it
\* always hears from its client again (server.c:730-733, 752-761).
THEOREM NeverIsDeaf == Spec => []NeverDeaf
<1>1. UpkeepInv => NeverDeaf
  BY DEF UpkeepInv, Upkeep, AtRest, Tended, NeverDeaf
<1> QED
  BY <1>1, UpkeepInvariant, PTL

\* Between two handlers, a closing session with nothing outstanding has been
\* freed, and one that waits only for its read has closed its descriptor
\* (server.c:84-96 and each of its callers).
THEOREM NoneIsForgotten == Spec => []NoForgottenSession
<1>1. UpkeepInv => NoForgottenSession
  BY DEF UpkeepInv, Upkeep, AtRest, Tended, NoForgottenSession
<1> QED
  BY <1>1, UpkeepInvariant, PTL

-------------------------------------------------------------------------------
(***************************************************************************)
(* The worker implements SessionLifecycle: every step of the worker, the   *)
(* kernel or a client is a move of one session, or leaves all of them      *)
(* where they are.                                                         *)
(***************************************************************************)

\* The phase of a live session whose record is S.
PhaseOf(S) == IF ~S.closing THEN "open" ELSE IF S.fd # None THEN "draining" ELSE "lingering"

\* What the abstract specification lets one session do, from phase p with n
\* replies owed to phase q with m.
Moves(p, n, q, m) ==
    \/ p = "free" /\ q = "open" /\ m = n
    \/ p = "open" /\ q = "open" /\ m = n + 1
    \/ /\ p \in {"open", "draining"} /\ n > 0 /\ m = n - 1
       /\ (p = "open" /\ q = "open") \/ q \in Lifecycle!GiveUpFrom(n - 1)
    \/ p \in {"open", "draining"} /\ q \in Lifecycle!GiveUpFrom(n) /\ m = n
    \/ p = "lingering" /\ q = "free" /\ m = n
    \/ q = p /\ m = n

LEMMA PhaseCases ==
    ASSUME NEW s
    PROVE  /\ s \notin live => Phase(s) = "free"
           /\ s \in live => Phase(s) = PhaseOf(sess[s])
  BY DEF Phase, PhaseOf

LEMMA PhaseCasesNext ==
    ASSUME NEW s
    PROVE  /\ s \notin live' => Phase(s)' = "free"
           /\ s \in live' => Phase(s)' = PhaseOf(sess'[s])
  BY DEF Phase, PhaseOf

-------------------------------------------------------------------------------
\* A step in which one session moves and the others stay is a step of the
\* abstract specification.
LEMMA OneMoves ==
    ASSUME NEW s \in Sessions,
           \A u \in Sessions \ {s} : Phase(u)' = Phase(u) /\ sess'[u].pw = sess[u].pw,
           Moves(Phase(s), sess[s].pw, Phase(s)', sess'[s].pw)
    PROVE  [Lifecycle!Next]_(Lifecycle!vars)
<1>1. PICK p : p = [u \in Sessions |-> Phase(u)]
  OBVIOUS
<1>2. PICK q : q = [u \in Sessions |-> Phase(u)']
  OBVIOUS
<1>3. PICK n : n = [u \in Sessions |-> sess[u].pw]
  OBVIOUS
<1>4. PICK m : m = [u \in Sessions |-> sess'[u].pw]
  OBVIOUS
<1>5. q = [p EXCEPT ![s] = q[s]] /\ m = [n EXCEPT ![s] = m[s]]
  BY <1>1, <1>2, <1>3, <1>4
<1>6. Moves(p[s], n[s], q[s], m[s])
  BY <1>1, <1>2, <1>3, <1>4
<1>7. /\ q[s] = p[s] => q = p
      /\ m[s] = n[s] => m = n
  BY <1>1, <1>2, <1>3, <1>4
<1>8. \/ q = p /\ m = n
      \/ p[s] = "free" /\ q = [p EXCEPT ![s] = "open"] /\ m = n
      \/ p[s] = "open" /\ m = [n EXCEPT ![s] = n[s] + 1] /\ q = p
      \/ /\ p[s] \in {"open", "draining"} /\ n[s] > 0 /\ m = [n EXCEPT ![s] = n[s] - 1]
         /\ \/ p[s] = "open" /\ q = p
            \/ \E r \in Lifecycle!GiveUpFrom(n[s] - 1) : q = [p EXCEPT ![s] = r]
      \/ /\ p[s] \in {"open", "draining"} /\ m = n
         /\ \E r \in Lifecycle!GiveUpFrom(n[s]) : q = [p EXCEPT ![s] = r]
      \/ p[s] = "lingering" /\ q = [p EXCEPT ![s] = "free"] /\ m = n
  BY <1>5, <1>6, <1>7 DEF Moves
<1> QED
  BY <1>1, <1>2, <1>3, <1>4, <1>8
     DEF Lifecycle!Next, Lifecycle!vars, Lifecycle!Open, Lifecycle!Queue,
         Lifecycle!Deliver, Lifecycle!GiveUp, Lifecycle!Free

LEMMA NoneMoves ==
    ASSUME UNCHANGED <<live, sess>>
    PROVE  [Lifecycle!Next]_(Lifecycle!vars)
<1>1. \A u \in Sessions : Phase(u)' = Phase(u) /\ sess'[u].pw = sess[u].pw
  BY DEF Phase
<1> QED
  BY <1>1 DEF Lifecycle!vars

\* A step that leaves the records of the other sessions alone.
LEMMA MovesAlone ==
    ASSUME NEW s \in Sessions, live' \ {s} = live \ {s},
           \A u \in Sessions \ {s} : sess'[u] = sess[u],
           Moves(Phase(s), sess[s].pw, Phase(s)', sess'[s].pw)
    PROVE  [Lifecycle!Next]_(Lifecycle!vars)
<1>1. \A u \in Sessions \ {s} : Phase(u)' = Phase(u) /\ sess'[u].pw = sess[u].pw
  BY PhaseCases, PhaseCasesNext
<1> QED
  BY <1>1, OneMoves

\* What cleanup_session_if_needed does to a session's phase (server.c:84-96).
LEMMA CleanupMoves ==
    ASSUME TypeOK, NEW s \in live, NEW S \in Session, Cleanup(s, S), Grounded(S)
    PROVE  /\ s \in Sessions /\ live' \ {s} = live \ {s}
           /\ \A u \in Sessions \ {s} : sess'[u] = sess[u]
           /\ sess'[s].pw = S.pw
           /\ S.closing => Phase(s)' \in Lifecycle!GiveUpFrom(S.pw)
           /\ S.closing /\ S.fd = None => Phase(s)' \in {"lingering", "free"}
           /\ ~S.closing => Phase(s)' = "open"
<1>0. s \in Sessions /\ sess \in [Sessions -> Session]
  BY DEF TypeOK
<1>1. CASE CloseDue(S) /\ FreeDue(S)
  <2>1. live' = live \ {s} /\ sess' = [sess EXCEPT ![s] = FreeSession]
    BY <1>1 DEF Cleanup
  <2>2. S.closing /\ S.pw = 0 /\ FreeSession.pw = 0
    BY <1>1 DEF CloseDue, FreeSession
  <2>3. Phase(s)' = "free"
    BY <2>1, PhaseCasesNext
  <2> QED
    BY <1>0, <2>1, <2>2, <2>3 DEF Lifecycle!GiveUpFrom
<1>2. CASE CloseDue(S) /\ ~FreeDue(S)
  <2>1. live' = live /\ sess' = [sess EXCEPT ![s] = ForgetFd(S)]
    BY <1>2 DEF Cleanup
  <2>2. /\ S.closing /\ S.pw = 0 /\ ForgetFd(S).closing
        /\ ForgetFd(S).pw = 0 /\ ForgetFd(S).fd = None
    BY <1>2 DEF CloseDue, ForgetFd, Session
  <2>3. Phase(s)' = "lingering"
    BY <1>0, <2>1, <2>2, PhaseCasesNext DEF PhaseOf
  <2> QED
    BY <1>0, <2>1, <2>2, <2>3 DEF Lifecycle!GiveUpFrom
<1>3. CASE ~CloseDue(S)
  <2>1. live' = live /\ sess' = [sess EXCEPT ![s] = S]
    BY <1>3 DEF Cleanup
  <2>2. Phase(s)' = PhaseOf(S)
    BY <1>0, <2>1, PhaseCasesNext
  <2>3. S.closing => S.fd # None /\ S.pw # 0
    BY <1>3 DEF CloseDue, Grounded
  <2> QED
    BY <1>0, <2>1, <2>2, <2>3 DEF PhaseOf, Lifecycle!GiveUpFrom
<1> QED
  BY <1>1, <1>2, <1>3

-------------------------------------------------------------------------------
(***************************************************************************)
(* One lemma per handler that touches a session.                           *)
(***************************************************************************)
LEMMA AcceptMoves ==
    UpkeepInv /\ HandleAccept => [Lifecycle!Next]_(Lifecycle!vars)
<1> SUFFICES ASSUME UpkeepInv, HandleAccept PROVE [Lifecycle!Next]_(Lifecycle!vars)
  OBVIOUS
<1>1. CASE UNCHANGED <<live, sess>>
  BY <1>1, NoneMoves
<1>2. ASSUME NEW s \in Sessions \ live, NEW fd, live' = live \cup {s},
             sess' = [sess EXCEPT ![s] = NewSession(fd)]
      PROVE  [Lifecycle!Next]_(Lifecycle!vars)
  <2>1. sess[s].pw = 0
    BY <1>2, UpkeepParts DEF LifetimeInv, FreeIsBlank, FreeSession
  <2>2. NewSession(fd).pw = 0 /\ NewSession(fd).closing = FALSE
    BY DEF NewSession, FreeSession
  <2>3. sess'[s] = NewSession(fd) /\ \A u \in Sessions \ {s} : sess'[u] = sess[u]
    BY <1>2, UpkeepParts
  <2>4. Phase(s) = "free" /\ Phase(s)' = "open"
    BY <1>2, <2>2, <2>3, PhaseCases, PhaseCasesNext DEF PhaseOf
  <2> QED
    BY <1>2, <2>1, <2>2, <2>3, <2>4, MovesAlone DEF Moves
<1> QED
  BY <1>1, <1>2 DEF HandleAccept

LEMMA ReadMoves ==
    UpkeepInv /\ (HandleReadEnd \/ HandleReadNoBufs \/ HandleReadData)
      => [Lifecycle!Next]_(Lifecycle!vars)
<1> SUFFICES ASSUME UpkeepInv, HandleReadEnd \/ HandleReadNoBufs \/ HandleReadData
             PROVE  [Lifecycle!Next]_(Lifecycle!vars)
  OBVIOUS
<1>1. PICK s : s = Head(cq).req.ses
  OBVIOUS
<1>2. PICK S : S = AfterRead(Head(cq))
  OBVIOUS
<1>3. Handling("read") /\ Consume /\ pc = "batch"
  BY DEF HandleReadEnd, HandleReadNoBufs, HandleReadData, Handling
<1>4. s \in live /\ s \in Sessions /\ S \in Session /\ S.pw = sess[s].pw
  BY <1>1, <1>2, <1>3, UpkeepParts, ReadHandled
<1>5. S.closing = sess[s].closing /\ S.fd = sess[s].fd
  <2>1. PICK R \in Session : R = sess[s]
    BY <1>4, UpkeepParts
  <2>2. S = IF Head(cq).more THEN R ELSE [R EXCEPT !.recv = FALSE]
    BY <1>1, <1>2, <2>1 DEF AfterRead
  <2> QED
    BY <2>1, <2>2 DEF Session
<1>6. Grounded(sess[s]) /\ Phase(s) = PhaseOf(sess[s])
  BY <1>4, UpkeepParts, PhaseCases DEF Upkeep
<1>7. CASE HandleReadEnd
  <2>1. PICK C : C = [S EXCEPT !.closing = TRUE]
    OBVIOUS
  <2>2. C \in Session /\ C.closing /\ C.fd = S.fd /\ C.pw = S.pw
    BY <1>4, <2>1 DEF Session
  <2>3. Cleanup(s, C)
    BY <1>1, <1>2, <1>7, <2>1 DEF HandleReadEnd
  <2>4. Grounded(C)
    BY <1>5, <1>6, <2>2, <1>4 DEF Grounded
  <2>5. /\ live' \ {s} = live \ {s} /\ \A u \in Sessions \ {s} : sess'[u] = sess[u]
        /\ sess'[s].pw = sess[s].pw
        /\ Phase(s)' \in Lifecycle!GiveUpFrom(sess[s].pw)
        /\ sess[s].fd = None => Phase(s)' \in {"lingering", "free"}
    BY <1>4, <1>5, <2>2, <2>3, <2>4, UpkeepParts, CleanupMoves
  <2>6. Moves(Phase(s), sess[s].pw, Phase(s)', sess'[s].pw)
    BY <1>6, <2>5 DEF Moves, PhaseOf
  <2> QED
    BY <1>4, <2>5, <2>6, MovesAlone
<1>8. ASSUME NEW C, live' = live, sess' = [sess EXCEPT ![s] = C],
             C.closing = S.closing, C.fd = S.fd, C.pw = S.pw
      PROVE  [Lifecycle!Next]_(Lifecycle!vars)
  <2>1. sess'[s] = C /\ \A u \in Sessions \ {s} : sess'[u] = sess[u]
    BY <1>4, <1>8, UpkeepParts
  <2>2. Phase(s)' = Phase(s)
    BY <1>4, <1>5, <1>6, <1>8, <2>1, PhaseCasesNext DEF PhaseOf
  <2> QED
    BY <1>4, <1>8, <2>1, <2>2, MovesAlone DEF Moves
<1>9. CASE HandleReadNoBufs
  <2>1. PICK C : C = [S EXCEPT !.recv = TRUE]
    OBVIOUS
  <2>2. C.closing = S.closing /\ C.fd = S.fd /\ C.pw = S.pw
    BY <1>4, <2>1 DEF Session
  <2>3. live' = live /\ sess' = [sess EXCEPT ![s] = C]
    BY <1>1, <1>2, <1>9, <2>1 DEF HandleReadNoBufs
  <2> QED
    BY <1>8, <2>2, <2>3
<1>10. CASE HandleReadData
  <2>1. live' = live /\ sess' = [sess EXCEPT ![s] = S]
    BY <1>1, <1>2, <1>10 DEF HandleReadData
  <2> QED
    BY <1>8, <2>1
<1> QED
  BY <1>7, <1>9, <1>10

LEMMA ReplyMoves ==
    UpkeepInv /\ (Reply \/ Reject) => [Lifecycle!Next]_(Lifecycle!vars)
<1> SUFFICES ASSUME UpkeepInv, Reply \/ Reject PROVE [Lifecycle!Next]_(Lifecycle!vars)
  OBVIOUS
<1>1. PICK s : s = cur.ses
  OBVIOUS
<1>2. pc = "read" /\ live' = live /\ ~sess[s].closing
  BY <1>1 DEF Reply, Reject, Answers
<1>3. s \in live /\ s \in Sessions /\ sess[s] \in Session
  BY <1>1, <1>2, UpkeepParts DEF Kept, MidRead
<1>4. PICK R \in Session : R = sess[s]
  BY <1>3
<1>5. Grounded(R) /\ R.fd # None /\ Phase(s) = "open"
  BY <1>2, <1>3, <1>4, UpkeepParts, PhaseCases DEF Upkeep, Grounded, PhaseOf
<1>6. CASE Reply
  <2>1. PICK w : sess' = [sess EXCEPT ![s] = Sending(s, w)]
    BY <1>1, <1>6 DEF Reply
  <2>2. Sending(s, w) = [R EXCEPT !.inuse = R.inuse \cup {w}, !.pw = R.pw + 1]
    BY <1>4 DEF Sending, Session
  <2>3. Sending(s, w).closing = R.closing /\ Sending(s, w).pw = R.pw + 1
    BY <2>2 DEF Session
  <2>4. sess'[s] = Sending(s, w) /\ \A u \in Sessions \ {s} : sess'[u] = sess[u]
    BY <1>3, <2>1, UpkeepParts
  <2>5. Phase(s)' = "open"
    BY <1>2, <1>3, <1>4, <2>3, <2>4, PhaseCasesNext DEF PhaseOf
  <2> QED
    BY <1>2, <1>3, <1>4, <1>5, <2>3, <2>4, <2>5, MovesAlone DEF Moves
<1>7. CASE Reject
  <2>1. PICK S : S = [R EXCEPT !.closing = TRUE]
    OBVIOUS
  <2>2. S.closing /\ S.pw = R.pw /\ S.fd = R.fd
    BY <1>4, <2>1 DEF Session
  <2>3. sess' = [sess EXCEPT ![s] = S]
    BY <1>1, <1>4, <1>7, <2>1 DEF Reject
  <2>4. sess'[s] = S /\ \A u \in Sessions \ {s} : sess'[u] = sess[u]
    BY <1>3, <2>3, UpkeepParts
  <2>5. Phase(s)' = "draining"
    BY <1>2, <1>3, <1>5, <2>2, <2>4, PhaseCasesNext DEF PhaseOf
  <2>6. "draining" \in Lifecycle!GiveUpFrom(R.pw)
    BY DEF Lifecycle!GiveUpFrom
  <2> QED
    BY <1>2, <1>3, <1>4, <1>5, <2>2, <2>4, <2>5, <2>6, MovesAlone DEF Moves
<1> QED
  BY <1>6, <1>7

LEMMA FinishReadMoves ==
    UpkeepInv /\ FinishRead => [Lifecycle!Next]_(Lifecycle!vars)
<1> SUFFICES ASSUME UpkeepInv, FinishRead PROVE [Lifecycle!Next]_(Lifecycle!vars)
  OBVIOUS
<1>1. PICK s : s = cur.ses
  OBVIOUS
<1>2. /\ pc = "read"
      /\ \/ UNCHANGED <<live, sess>>
         \/ sess' = [sess EXCEPT ![s].recv = TRUE] /\ UNCHANGED live
         \/ sess[s].closing /\ Cleanup(s, sess[s])
  BY <1>1 DEF FinishRead
<1>3. s \in live /\ s \in Sessions /\ sess[s] \in Session /\ Grounded(sess[s])
      /\ Phase(s) = PhaseOf(sess[s])
  BY <1>1, <1>2, UpkeepParts, PhaseCases DEF Kept, MidRead, Upkeep
<1>4. CASE UNCHANGED <<live, sess>>
  BY <1>4, NoneMoves
<1>5. CASE sess' = [sess EXCEPT ![s].recv = TRUE] /\ UNCHANGED live
  <2>1. PICK S : S = [sess[s] EXCEPT !.recv = TRUE]
    OBVIOUS
  <2>2. S.closing = sess[s].closing /\ S.fd = sess[s].fd /\ S.pw = sess[s].pw
    BY <1>3, <2>1 DEF Session
  <2>3. sess'[s] = S /\ \A u \in Sessions \ {s} : sess'[u] = sess[u]
    BY <1>3, <1>5, <2>1, UpkeepParts
  <2>4. Phase(s)' = Phase(s)
    BY <1>3, <1>5, <2>2, <2>3, PhaseCasesNext DEF PhaseOf
  <2> QED
    BY <1>3, <1>5, <2>2, <2>3, <2>4, MovesAlone DEF Moves
<1>6. CASE sess[s].closing /\ Cleanup(s, sess[s])
  <2>1. /\ live' \ {s} = live \ {s} /\ \A u \in Sessions \ {s} : sess'[u] = sess[u]
        /\ sess'[s].pw = sess[s].pw
        /\ Phase(s)' \in Lifecycle!GiveUpFrom(sess[s].pw)
        /\ sess[s].fd = None => Phase(s)' \in {"lingering", "free"}
    BY <1>3, <1>6, UpkeepParts, CleanupMoves
  <2>2. Moves(Phase(s), sess[s].pw, Phase(s)', sess'[s].pw)
    BY <1>3, <2>1 DEF Moves, PhaseOf
  <2> QED
    BY <1>3, <2>1, <2>2, MovesAlone
<1> QED
  BY <1>2, <1>4, <1>5, <1>6

LEMMA WriteMoves ==
    UpkeepInv /\ HandleWrite => [Lifecycle!Next]_(Lifecycle!vars)
<1> SUFFICES ASSUME UpkeepInv, HandleWrite PROVE [Lifecycle!Next]_(Lifecycle!vars)
  OBVIOUS
<1>1. PICK c : c = Head(cq)
  OBVIOUS
<1>2. PICK s : s = c.req.ses
  OBVIOUS
<1>3. PICK S : S = Sent(c)
  OBVIOUS
<1>4. Handling("write") /\ Consume /\ Cleanup(s, S)
  BY <1>1, <1>2, <1>3 DEF HandleWrite
<1>5. s \in live /\ s \in Sessions /\ sess[s].pw - 1 \in Nat /\ c.req.wr \in WrIds
  BY <1>1, <1>2, <1>4, UpkeepParts, SentWasCounted
<1>6. PICK R \in Session : R = sess[s]
  BY <1>5, UpkeepParts
<1>7. Grounded(R) /\ Phase(s) = PhaseOf(R) /\ R.pw \in Nat \ {0}
  <2>1. R.pw \in Nat
    BY DEF Session
  <2> QED
    BY <1>5, <1>6, <2>1, UpkeepParts, PhaseCases DEF Upkeep
<1>8. S = [R EXCEPT !.pw = R.pw - 1, !.closing = R.closing \/ c.res = "err",
                    !.inuse = R.inuse \ {c.req.wr}]
  BY <1>2, <1>3, <1>6 DEF Sent, Session
<1>9. S \in Session
  BY <1>5, <1>6, <1>8 DEF Session
<1>10. S.pw = R.pw - 1 /\ S.fd = R.fd /\ (R.closing => S.closing)
  BY <1>8 DEF Session
<1>11. R.fd # None /\ Grounded(S)
  BY <1>7, <1>10 DEF Grounded
<1>12. /\ live' \ {s} = live \ {s} /\ \A u \in Sessions \ {s} : sess'[u] = sess[u]
       /\ sess'[s].pw = S.pw
       /\ S.closing => Phase(s)' \in Lifecycle!GiveUpFrom(S.pw)
       /\ ~S.closing => Phase(s)' = "open"
  BY <1>4, <1>5, <1>9, <1>11, UpkeepParts, CleanupMoves
<1>13. Moves(Phase(s), sess[s].pw, Phase(s)', sess'[s].pw)
  BY <1>6, <1>7, <1>10, <1>11, <1>12 DEF Moves, PhaseOf
<1> QED
  BY <1>5, <1>12, <1>13, MovesAlone

LEMMA OthersMoveNone ==
    ASSUME \/ SpinForSqe \/ PeekBatch \/ HandleSignal \/ RearmAccept \/ EndBatch
           \/ Exit \/ Environment \/ UNCHANGED vars
    PROVE  [Lifecycle!Next]_(Lifecycle!vars)
<1>1. UNCHANGED <<live, sess>>
  BY DEF SpinForSqe, PeekBatch, HandleSignal, RearmAccept, EndBatch, Exit, Environment,
     Take, Signal, Accept, Connect, Leave, Recv, Send, vars, memory
<1> QED
  BY <1>1, NoneMoves

-------------------------------------------------------------------------------
\* The worker implements the lifecycle of its sessions: a session closes its
\* descriptor only when it owes no reply, queues none once it is given up, and
\* its memory is reused only by a new connection (server.c:84-96, 634-668,
\* 696-790).
THEOREM LifecycleIsImplemented == Spec => ImplementsLifecycle
<1>1. Init => Lifecycle!Init
  <2> SUFFICES ASSUME Init PROVE Lifecycle!Init
    OBVIOUS
  <2>1. live = {} /\ sess = [s \in Sessions |-> FreeSession]
    BY DEF Init
  <2>2. \A s \in Sessions : Phase(s) = "free" /\ sess[s].pw = 0
    BY <2>1, PhaseCases DEF FreeSession
  <2> QED
    BY <2>2 DEF Lifecycle!Init
<1>2. UpkeepInv /\ [Next]_vars => [Lifecycle!Next]_(Lifecycle!vars)
  <2> SUFFICES ASSUME UpkeepInv, [Next]_vars PROVE [Lifecycle!Next]_(Lifecycle!vars)
    OBVIOUS
  <2>1. CASE HandleAccept
    BY <2>1, AcceptMoves
  <2>2. CASE HandleReadEnd \/ HandleReadNoBufs \/ HandleReadData
    BY <2>2, ReadMoves
  <2>3. CASE Reply \/ Reject
    BY <2>3, ReplyMoves
  <2>4. CASE FinishRead
    BY <2>4, FinishReadMoves
  <2>5. CASE HandleWrite
    BY <2>5, WriteMoves
  <2>6. CASE \/ SpinForSqe \/ PeekBatch \/ HandleSignal \/ RearmAccept \/ EndBatch \/ Exit
             \/ Environment \/ UNCHANGED vars
    BY <2>6, OthersMoveNone
  <2> QED
    BY <2>1, <2>2, <2>3, <2>4, <2>5, <2>6 DEF Next, Worker, Environment, Terminated
<1> QED
  BY <1>1, <1>2, UpkeepInvariant, PTL DEF Spec, ImplementsLifecycle, Lifecycle!Spec

-------------------------------------------------------------------------------
(***************************************************************************)
(* What a closing session waits for only gets less.                        *)
(***************************************************************************)
\* A session whose record goes from S to R has not asked for anything new.
AsksNothing(S, R) == (R.recv => S.recv) /\ R.inuse \subseteq S.inuse

\* cleanup_session_if_needed never asks (server.c:84-96).
LEMMA CleanupAsksNothing ==
    ASSUME sess \in [Sessions -> Session], NEW s \in Sessions, NEW S \in Session, Cleanup(s, S)
    PROVE  /\ AsksNothing(S, sess'[s])
           /\ \A u \in Sessions \ {s} : sess'[u] = sess[u]
<1>1. AsksNothing(S, FreeSession) /\ AsksNothing(S, S)
  BY DEF AsksNothing, FreeSession
<1>2. AsksNothing(S, ForgetFd(S))
  <2>1. ForgetFd(S).recv = S.recv /\ ForgetFd(S).inuse = S.inuse
    BY DEF ForgetFd, Session
  <2> QED
    BY <2>1 DEF AsksNothing
<1>3. PICK R : sess' = [sess EXCEPT ![s] = R] /\ R \in {S, FreeSession, ForgetFd(S)}
  BY DEF Cleanup
<1> QED
  BY <1>1, <1>2, <1>3

\* One session, s, changes; it is not closing, or it asks for nothing.
LEMMA AsksOfOne ==
    ASSUME NEW s, NEW u, u # s => sess'[u] = sess[u],
           u = s => AsksNothing(sess[s], sess'[s])
    PROVE  AsksNothing(sess[u], sess'[u])
<1>1. AsksNothing(sess[u], sess[u])
  BY DEF AsksNothing
<1> QED
  BY <1>1

LEMMA ClosingAsksByRead ==
    ASSUME UpkeepInv, HandleReadEnd \/ HandleReadNoBufs \/ HandleReadData, NEW u \in live
    PROVE  AsksNothing(sess[u], sess'[u])
<1>1. PICK s : s = Head(cq).req.ses
  OBVIOUS
<1>2. PICK S : S = AfterRead(Head(cq))
  OBVIOUS
<1>3. Handling("read") /\ Consume
  BY DEF HandleReadEnd, HandleReadNoBufs, HandleReadData
<1>4. /\ s \in Sessions /\ S \in Session /\ S.inuse = sess[s].inuse
      /\ (S.recv <=> Head(cq).more) /\ Outstanding(ReadReq(s))
  BY <1>1, <1>2, <1>3, UpkeepParts, ReadHandled
<1>5. sess[s].recv /\ sess \in [Sessions -> Session] /\ u \in Sessions
  BY <1>4, UpkeepParts DEF LifetimeInv, ReadsMatch
<1>6. CASE HandleReadEnd
  <2>1. PICK C : C = [S EXCEPT !.closing = TRUE]
    OBVIOUS
  <2>2. C \in Session /\ C.recv = S.recv /\ C.inuse = S.inuse
    BY <1>4, <2>1 DEF Session
  <2>3. Cleanup(s, C)
    BY <1>1, <1>2, <1>6, <2>1 DEF HandleReadEnd
  <2>4. AsksNothing(C, sess'[s]) /\ \A v \in Sessions \ {s} : sess'[v] = sess[v]
    BY <1>4, <1>5, <2>2, <2>3, CleanupAsksNothing
  <2>5. AsksNothing(sess[s], sess'[s])
    BY <1>4, <1>5, <2>2, <2>4 DEF AsksNothing
  <2> QED
    BY <1>5, <2>4, <2>5, AsksOfOne
<1>7. ASSUME NEW C, C.inuse = S.inuse, sess' = [sess EXCEPT ![s] = C]
      PROVE  AsksNothing(sess[u], sess'[u])
  <2>1. sess'[s] = C /\ (u # s => sess'[u] = sess[u])
    BY <1>4, <1>5, <1>7
  <2>2. AsksNothing(sess[s], sess'[s])
    BY <1>4, <1>5, <1>7, <2>1 DEF AsksNothing
  <2> QED
    BY <2>1, <2>2, AsksOfOne
<1>8. CASE HandleReadNoBufs
  <2>1. PICK C : C = [S EXCEPT !.recv = TRUE]
    OBVIOUS
  <2>2. C.inuse = S.inuse
    BY <1>4, <2>1 DEF Session
  <2>3. sess' = [sess EXCEPT ![s] = C]
    BY <1>1, <1>2, <1>8, <2>1 DEF HandleReadNoBufs
  <2> QED
    BY <1>7, <2>2, <2>3
<1>9. CASE HandleReadData
  <2>1. sess' = [sess EXCEPT ![s] = S]
    BY <1>1, <1>2, <1>9 DEF HandleReadData
  <2> QED
    BY <1>7, <2>1
<1> QED
  BY <1>6, <1>8, <1>9

LEMMA ClosingAsks ==
    ASSUME UpkeepInv, [Next]_vars, NEW u \in live, sess[u].closing
    PROVE  AsksNothing(sess[u], sess'[u])
<1>0. u \in Sessions /\ sess \in [Sessions -> Session] /\ live \subseteq Sessions
  BY UpkeepParts
<1>1. ASSUME sess'[u] = sess[u] PROVE AsksNothing(sess[u], sess'[u])
  BY <1>1 DEF AsksNothing
<1>2. CASE \/ SpinForSqe \/ PeekBatch \/ HandleSignal \/ RearmAccept \/ EndBatch \/ Exit
           \/ Environment \/ UNCHANGED vars
  <2>1. CASE SpinForSqe \/ PeekBatch \/ HandleSignal \/ RearmAccept \/ EndBatch \/ Exit
    BY <1>1, <2>1 DEF SpinForSqe, PeekBatch, HandleSignal, RearmAccept, EndBatch, Exit, memory
  <2>2. CASE Environment \/ UNCHANGED vars
    BY <1>1, <2>2 DEF Environment, Take, Signal, Accept, Connect, Leave, Recv, Send, vars, memory
  <2> QED
    BY <1>2, <2>1, <2>2
<1>3. CASE HandleAccept
  <2>1. sess' = sess \/ \E s \in Sessions \ live : \E R : sess' = [sess EXCEPT ![s] = R]
    BY <1>3 DEF HandleAccept
  <2> QED
    BY <1>0, <1>1, <2>1
<1>4. CASE HandleReadEnd \/ HandleReadNoBufs \/ HandleReadData
  BY <1>4, ClosingAsksByRead
<1>5. CASE Reply \/ Reject
  <2>1. ~sess[cur.ses].closing /\ \E R : sess' = [sess EXCEPT ![cur.ses] = R]
    BY <1>5 DEF Reply, Reject, Answers
  <2>2. u # cur.ses
    BY <2>1
  <2> QED
    BY <1>0, <1>1, <2>1, <2>2
<1>6. CASE FinishRead
  <2>1. PICK s : s = cur.ses
    OBVIOUS
  <2>2. /\ pc = "read"
        /\ \/ ~sess[s].closing /\ \E R : sess' = [sess EXCEPT ![s] = R]
           \/ sess' = sess
           \/ Cleanup(s, sess[s])
    BY <1>6, <2>1 DEF FinishRead
  <2>3. s \in Sessions
    BY <2>1, <2>2, UpkeepParts DEF TypeOK
  <2>4. CASE ~sess[s].closing /\ \E R : sess' = [sess EXCEPT ![s] = R]
    BY <1>0, <1>1, <2>3, <2>4
  <2>5. CASE Cleanup(s, sess[s])
    BY <1>0, <2>3, <2>5, CleanupAsksNothing, AsksOfOne
  <2> QED
    BY <1>1, <2>2, <2>4, <2>5
<1>7. CASE HandleWrite
  <2>1. PICK c : c = Head(cq)
    OBVIOUS
  <2>2. PICK s : s = c.req.ses
    OBVIOUS
  <2>3. PICK S : S = Sent(c)
    OBVIOUS
  <2>4. Handling("write") /\ Consume /\ Cleanup(s, S)
    BY <1>7, <2>1, <2>2, <2>3 DEF HandleWrite
  <2>5. s \in Sessions /\ sess[s].pw - 1 \in Nat /\ c.req.wr \in WrIds
    BY <1>0, <2>1, <2>2, <2>4, UpkeepParts, SentWasCounted
  <2>6. PICK R \in Session : R = sess[s]
    BY <1>0, <2>5
  <2>7. S = [R EXCEPT !.pw = R.pw - 1, !.closing = R.closing \/ c.res = "err",
                      !.inuse = R.inuse \ {c.req.wr}]
    BY <2>2, <2>3, <2>6 DEF Sent, Session
  <2>8. S \in Session
    BY <2>5, <2>6, <2>7 DEF Session
  <2>9. S.recv = R.recv /\ S.inuse \subseteq R.inuse
    BY <2>7 DEF Session
  <2>10. AsksNothing(S, sess'[s]) /\ \A v \in Sessions \ {s} : sess'[v] = sess[v]
    BY <1>0, <2>4, <2>5, <2>8, CleanupAsksNothing
  <2>11. AsksNothing(sess[s], sess'[s])
    BY <2>6, <2>9, <2>10 DEF AsksNothing
  <2> QED
    BY <1>0, <2>10, <2>11, AsksOfOne
<1> QED
  BY <1>2, <1>3, <1>4, <1>5, <1>6, <1>7 DEF Next, Worker, Environment, Terminated

\* THEOREM: a closing session issues no request but a read that ended for want of
\* a buffer: nothing puts the end of what it waits for off (server.c:129-131,
\* 728-739, 754-767).
THEOREM ClosingIssuesNoRequest == Spec => ClosingIssuesNothing
<1>1. UpkeepInv /\ UpkeepInv' /\ [Next]_vars =>
          [\A s \in live : sess[s].closing =>
              \A r \in Requests : r.ses = s /\ Outstanding(r)' => Outstanding(r)]_vars
  <2> SUFFICES ASSUME UpkeepInv, UpkeepInv', [Next]_vars, NEW s \in live, sess[s].closing,
                      NEW r \in Requests, r.ses = s, Outstanding(r)'
               PROVE  Outstanding(r)
    OBVIOUS
  <2>1. AsksNothing(sess[s], sess'[s]) /\ s \in Sessions
    BY ClosingAsks, UpkeepParts
  <2>2. /\ sess[s].recv <=> Outstanding(ReadReq(s))
        /\ \A w \in WrIds : w \in sess[s].inuse <=> Outstanding(WriteReq(s, w))
    BY <2>1 DEF UpkeepInv, LifetimeInv, ReadsMatch, WritesAccounted
  <2>3. /\ sess'[s].recv <=> Outstanding(ReadReq(s))'
        /\ \A w \in WrIds : w \in sess'[s].inuse <=> Outstanding(WriteReq(s, w))'
    BY <2>1 DEF UpkeepInv, LifetimeInv, ReadsMatch, WritesAccounted
  <2>4. CASE r = ReadReq(s)
    BY <2>1, <2>2, <2>3, <2>4 DEF AsksNothing
  <2>5. ASSUME NEW w \in WrIds, r = WriteReq(s, w) PROVE Outstanding(r)
    BY <2>1, <2>2, <2>3, <2>5 DEF AsksNothing
  <2>6. r = ReadReq(s) \/ \E w \in WrIds : r = WriteReq(s, w)
    <3>1. s # None
      BY <2>1, ServerAssumption
    <3>2. r.op \in {"read", "write"}
      BY <3>1, KindOf DEF AcceptReq, SignalReq
    <3> QED
      BY <3>2, KindOf
  <2> QED
    BY <2>4, <2>5, <2>6
<1> QED
  BY <1>1, UpkeepInvariant, PTL DEF Spec, ClosingIssuesNothing
===============================================================================
