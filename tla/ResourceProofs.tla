---------------------------- MODULE ResourceProofs ----------------------------
(***************************************************************************)
(* Proofs about what a worker holds: an open descriptor has one owner,     *)
(* which is a session or an accept that is not handled yet, so a send      *)
(* never goes to somebody else's connection; every registered receive      *)
(* buffer is in one place; and the core it may share with the thread that  *)
(* takes its submissions (Scheduling).                                     *)
(***************************************************************************)
EXTENDS SessionUpkeepProofs, Scheduling

\* Accepts that completed and are not handled, and the descriptors they carry.
Holds(q, d)    == \E i \in 1..Len(q) : q[i].fd = d
AcceptsOnly(q) == \A i \in 1..Len(q) : q[i].fd # None => q[i].req = AcceptReq

HeldIsOpen   == \A d \in Fds : Holds(cq, d) => /\ fdtab[d] # None
                                               /\ \A s \in live : sess[s].fd # d
OwnedIsOwn   == \A s \in live : sess[s].fd # None =>
                   fdtab[sess[s].fd] = sess[s].conn /\ sess[s].conn # None
OwnersDiffer == \A s, u \in live : sess[s].fd = sess[u].fd /\ sess[s].fd # None => s = u
NoneLeaked   == \A d \in Fds : fdtab[d] # None =>
                   Holds(cq, d) \/ \E s \in live : sess[s].fd = d

Table    == HeldIsOpen /\ OwnedIsOwn /\ OwnersDiffer /\ NoneLeaked
TableInv == UpkeepInv /\ AcceptsOnly(cq) /\ Table

-------------------------------------------------------------------------------
(***************************************************************************)
(* The completion ring.                                                    *)
(***************************************************************************)
LEMMA HoldsAppend ==
    ASSUME NEW T, NEW q \in Seq(T), NEW e \in T
    PROVE  /\ \A d : Holds(Append(q, e), d) <=> Holds(q, d) \/ e.fd = d
           /\ AcceptsOnly(q) /\ (e.fd # None => e.req = AcceptReq) => AcceptsOnly(Append(q, e))
<1>1. /\ Append(q, e) \in Seq(T) /\ Len(Append(q, e)) = Len(q) + 1 /\ Len(q) \in Nat
      /\ \A i \in 1..Len(q) : Append(q, e)[i] = q[i]
      /\ Append(q, e)[Len(q) + 1] = e
  OBVIOUS
<1> QED
  BY <1>1 DEF Holds, AcceptsOnly

LEMMA HoldsTail ==
    ASSUME NEW T, NEW q \in Seq(T), q # << >>
    PROVE  /\ \A d : Holds(q, d) <=> Holds(Tail(q), d) \/ Head(q).fd = d
           /\ AcceptsOnly(q) => /\ AcceptsOnly(Tail(q))
                                /\ Head(q).fd # None => Head(q).req = AcceptReq
<1>1. /\ Tail(q) \in Seq(T) /\ Len(q) \in Nat \ {0}
      /\ Head(q) = q[1] /\ Len(Tail(q)) = Len(q) - 1
      /\ \A i \in 1..(Len(q) - 1) : Tail(q)[i] = q[i + 1]
  OBVIOUS
<1>2. ASSUME NEW d, Holds(q, d), Head(q).fd # d PROVE Holds(Tail(q), d)
  <2>1. PICK i \in 1..Len(q) : q[i].fd = d
    BY <1>2 DEF Holds
  <2>2. i # 1 /\ i - 1 \in 1..(Len(q) - 1)
    BY <1>1, <1>2, <2>1
  <2>3. Tail(q)[i - 1].fd = d
    BY <1>1, <2>1, <2>2
  <2> QED
    BY <1>1, <2>2, <2>3 DEF Holds
<1>3. ASSUME NEW d, Holds(Tail(q), d) \/ Head(q).fd = d PROVE Holds(q, d)
  BY <1>1, <1>3 DEF Holds
<1>4. ASSUME AcceptsOnly(q)
      PROVE  AcceptsOnly(Tail(q)) /\ (Head(q).fd # None => Head(q).req = AcceptReq)
  BY <1>1, <1>4 DEF AcceptsOnly
<1> QED
  BY <1>2, <1>3, <1>4

LEMMA TableParts ==
    TableInv => /\ UpkeepInv /\ LifetimeInv /\ TypeOK /\ RequestsUnique /\ AcceptsOnly(cq) /\ Table
                /\ sess \in [Sessions -> Session] /\ live \subseteq Sessions
                /\ fdtab \in [Fds -> Conns \cup {None}] /\ cq \in Seq(Cqe)
  BY UpkeepParts DEF TableInv, Kept, TypeOK

\* Only an accept's completion carries a descriptor; handling another changes
\* nothing about who holds one.
LEMMA HandledOther ==
    ASSUME TableInv, NEW op \in {"read", "write", "signal"}, Handling(op), Consume
    PROVE  /\ AcceptsOnly(cq')
           /\ \A d \in Fds : Holds(cq', d) <=> Holds(cq, d)
<1>1. cq # << >> /\ cq' = Tail(cq) /\ Head(cq).req.op = op
  BY DEF Handling, Consume
<1>2. /\ \A d : Holds(cq, d) <=> Holds(cq', d) \/ Head(cq).fd = d
      /\ AcceptsOnly(cq') /\ (Head(cq).fd # None => Head(cq).req = AcceptReq)
  BY <1>1, TableParts, HoldsTail
<1>3. Head(cq).fd = None
  BY <1>1, <1>2, RequestKinds
<1> QED
  BY <1>2, <1>3, ServerAssumption

-------------------------------------------------------------------------------
(***************************************************************************)
(* How a step may change the table.                                        *)
(***************************************************************************)
LEMMA TableKept ==
    ASSUME Table, UNCHANGED <<live, fdtab>>,
           \A s \in live : sess'[s].fd = sess[s].fd /\ sess'[s].conn = sess[s].conn,
           \A d \in Fds : Holds(cq', d) <=> Holds(cq, d)
    PROVE  Table'
<1>1. HeldIsOpen' /\ OwnedIsOwn'
  BY DEF Table, HeldIsOpen, OwnedIsOwn
<1>2. OwnersDiffer' /\ NoneLeaked'
  BY DEF Table, OwnersDiffer, NoneLeaked
<1> QED
  BY <1>1, <1>2 DEF Table

\* cleanup_session_if_needed closes the session's own descriptor, at most once
\* (server.c:86-89).
LEMMA TableCleanup ==
    ASSUME Table, sess \in [Sessions -> Session], live \subseteq Sessions, NEW s \in live,
           NEW S \in Session, S.fd = sess[s].fd, S.conn = sess[s].conn, Cleanup(s, S),
           \A d \in Fds : Holds(cq', d) <=> Holds(cq, d)
    PROVE  Table'
<1>1. CASE ~CloseDue(S)
  <2>1. UNCHANGED <<live, fdtab>> /\ sess' = [sess EXCEPT ![s] = S]
    BY <1>1 DEF Cleanup
  <2>2. \A u \in live : sess'[u].fd = sess[u].fd /\ sess'[u].conn = sess[u].conn
    BY <2>1
  <2> QED
    BY <2>1, <2>2, TableKept
<1>2. CASE CloseDue(S)
  <2>1. fdtab' = [f \in Fds |-> IF f = sess[s].fd THEN None ELSE fdtab[f]]
    BY <1>2 DEF Cleanup
  <2>2. /\ live' \in {live, live \ {s}}
        /\ \A u \in live \ {s} : sess'[u] = sess[u]
        /\ s \in live' => sess'[s].fd = None
    <3>1. CASE FreeDue(S)
      BY <1>2, <3>1 DEF Cleanup
    <3>2. CASE ~FreeDue(S)
      <4>1. live' = live /\ sess' = [sess EXCEPT ![s] = ForgetFd(S)]
        BY <1>2, <3>2 DEF Cleanup
      <4>2. ForgetFd(S).fd = None
        BY DEF ForgetFd, Session
      <4> QED
        BY <4>1, <4>2
    <3> QED
      BY <3>1, <3>2
  <2>3. \A u \in live' : sess'[u].fd # None => u \in live \ {s} /\ sess'[u] = sess[u]
    BY <2>2
  <2>4. \A u \in live \ {s} : sess[u].fd # None => sess[u].fd # sess[s].fd
    BY DEF Table, OwnersDiffer
  <2>5. \A u \in live : sess[u].fd \in Fds \cup {None}
    BY DEF Session
  <2>6. HeldIsOpen'
    <3> SUFFICES ASSUME NEW d \in Fds, Holds(cq, d)
                 PROVE  fdtab'[d] # None /\ \A u \in live' : sess'[u].fd # d
      BY DEF HeldIsOpen
    <3>1. fdtab[d] # None /\ \A u \in live : sess[u].fd # d
      BY DEF Table, HeldIsOpen
    <3>2. d # None
      BY ServerAssumption
    <3> QED
      BY <2>1, <2>3, <3>1, <3>2
  <2>7. OwnedIsOwn'
    <3> SUFFICES ASSUME NEW u \in live', sess'[u].fd # None
                 PROVE  fdtab'[sess'[u].fd] = sess'[u].conn /\ sess'[u].conn # None
      BY DEF OwnedIsOwn
    <3>1. u \in live \ {s} /\ sess'[u] = sess[u] /\ sess[u].fd # sess[s].fd /\ sess[u].fd \in Fds
      BY <2>3, <2>4, <2>5
    <3>2. fdtab[sess[u].fd] = sess[u].conn /\ sess[u].conn # None
      BY <3>1 DEF Table, OwnedIsOwn
    <3> QED
      BY <2>1, <3>1, <3>2
  <2>8. OwnersDiffer'
    BY <2>3 DEF Table, OwnersDiffer
  <2>9. NoneLeaked'
    <3> SUFFICES ASSUME NEW d \in Fds, fdtab'[d] # None
                 PROVE  Holds(cq, d) \/ \E u \in live' : sess'[u].fd = d
      BY DEF NoneLeaked
    <3>1. d # sess[s].fd /\ fdtab[d] # None
      BY <2>1
    <3>2. Holds(cq, d) \/ \E u \in live : sess[u].fd = d
      BY <3>1 DEF Table, NoneLeaked
    <3> QED
      BY <2>2, <3>1, <3>2
  <2> QED
    BY <2>6, <2>7, <2>8, <2>9 DEF Table
<1> QED
  BY <1>1, <1>2

-------------------------------------------------------------------------------
(***************************************************************************)
(* The handlers.                                                           *)
(***************************************************************************)
\* What the rings hold after a step, besides who owns what.
Goal == AcceptsOnly(cq') /\ Table'

\* An accept that completed is the only one, so none is left in the ring.
LEMMA OneAccept ==
    ASSUME TableInv, Handling("accept"), Consume
    PROVE  /\ Head(cq).fd \in Fds \cup {None}
           /\ AcceptsOnly(cq') /\ \A d \in Fds : ~Holds(cq', d)
           /\ \A d \in Fds : Holds(cq, d) <=> d = Head(cq).fd
<1>1. cq # << >> /\ cq' = Tail(cq) /\ Head(cq).req.op = "accept"
  BY DEF Handling, Consume
<1>2. /\ Head(cq) \in Cqe /\ Head(cq).req \in Requests
      /\ Head(cq).more => Head(cq).req.op = "read"
      /\ ~Head(cq).more => ~HasFinal(cq', Head(cq).req) /\ ~HasMore(cq', Head(cq).req)
  BY <1>1, TableParts, Consumed
<1>3. Head(cq).req = AcceptReq /\ ~HasFinal(cq', AcceptReq) /\ ~HasMore(cq', AcceptReq)
  BY <1>1, <1>2, KindOf
<1>4. /\ \A d : Holds(cq, d) <=> Holds(cq', d) \/ Head(cq).fd = d
      /\ AcceptsOnly(cq')
  BY <1>1, TableParts, HoldsTail
<1>5. \A d \in Fds : ~Holds(cq', d)
  <2>1. \A i \in 1..Len(cq') : cq'[i].req # AcceptReq
    BY <1>3 DEF HasFinal, HasMore
  <2> QED
    BY <1>4, <2>1, ServerAssumption DEF AcceptsOnly, Holds
<1> QED
  BY <1>2, <1>4, <1>5 DEF Cqe

LEMMA TableByAccept == TableInv /\ HandleAccept => Goal
<1> SUFFICES ASSUME TableInv, HandleAccept PROVE Goal
  OBVIOUS
<1>1. PICK fd : fd = Head(cq).fd
  OBVIOUS
<1>2. /\ fd \in Fds \cup {None} /\ AcceptsOnly(cq') /\ \A d \in Fds : ~Holds(cq', d)
      /\ \A d \in Fds : Holds(cq, d) <=> d = fd
  BY <1>1, OneAccept DEF HandleAccept
<1>3. HeldIsOpen'
  BY <1>2 DEF HeldIsOpen
<1>4. /\ HeldIsOpen /\ OwnedIsOwn /\ OwnersDiffer /\ NoneLeaked
      /\ \A u \in live : sess[u].fd \in Fds \cup {None}
  BY TableParts DEF Table, Session
<1>5. CASE fd = None /\ UNCHANGED <<live, sess, fdtab>>
  BY <1>2, <1>3, <1>4, <1>5, ServerAssumption DEF Goal, Table, OwnedIsOwn, OwnersDiffer, NoneLeaked
<1>6. CASE fd # None /\ fdtab' = [fdtab EXCEPT ![fd] = None] /\ UNCHANGED <<live, sess>>
  <2>1. \A d \in Fds : fdtab'[d] = IF d = fd THEN None ELSE fdtab[d]
    BY <1>6, TableParts
  <2>2. \A u \in live : sess[u].fd # fd
    BY <1>2, <1>4, <1>6 DEF HeldIsOpen
  <2>3. OwnedIsOwn' /\ OwnersDiffer'
    BY <1>4, <1>6, <2>1, <2>2 DEF OwnedIsOwn, OwnersDiffer
  <2>4. NoneLeaked'
    BY <1>2, <1>4, <1>6, <2>1 DEF NoneLeaked
  <2> QED
    BY <1>2, <1>3, <2>3, <2>4 DEF Goal, Table
<1>7. ASSUME NEW s \in Sessions \ live, fd # None, live' = live \cup {s}, fdtab' = fdtab,
             sess' = [sess EXCEPT ![s] = NewSession(fd)]
      PROVE  Goal
  <2>1. NewSession(fd).fd = fd /\ NewSession(fd).conn = fdtab[fd]
    BY DEF NewSession, FreeSession
  <2>2. /\ sess'[s].fd = fd /\ sess'[s].conn = fdtab[fd]
        /\ \A u \in live : sess'[u] = sess[u]
    BY <1>7, <2>1, TableParts
  <2>3. fdtab[fd] # None /\ \A u \in live : sess[u].fd # fd
    BY <1>2, <1>4, <1>7 DEF HeldIsOpen
  <2>4. OwnedIsOwn'
    BY <1>4, <1>7, <2>2, <2>3 DEF OwnedIsOwn
  <2>5. OwnersDiffer'
    BY <1>4, <1>7, <2>2, <2>3 DEF OwnersDiffer
  <2>6. NoneLeaked'
    BY <1>2, <1>4, <1>7, <2>2 DEF NoneLeaked
  <2> QED
    BY <1>2, <1>3, <2>4, <2>5, <2>6 DEF Goal, Table
<1> QED
  BY <1>1, <1>5, <1>6, <1>7 DEF HandleAccept

\* What a READ or WRITE handler has left in a session before the cleanup.
LEMMA SameFile ==
    ASSUME TableInv, NEW op \in {"read", "write"}, Handling(op), Consume,
           NEW S, op = "write" => S = Sent(Head(cq)),
           op = "read" => S \in {AfterRead(Head(cq)),
                                [AfterRead(Head(cq)) EXCEPT !.closing = TRUE],
                                [AfterRead(Head(cq)) EXCEPT !.recv = TRUE]}
    PROVE  /\ Head(cq).req.ses \in live
           /\ S \in Session
           /\ S.fd = sess[Head(cq).req.ses].fd /\ S.conn = sess[Head(cq).req.ses].conn
<1>1. PICK s : s = Head(cq).req.ses
  OBVIOUS
<1>2. CASE op = "read"
  <2>1. s \in Sessions /\ s \in live /\ AfterRead(Head(cq)) \in Session
    BY <1>1, <1>2, TableParts, ReadHandled
  <2>2. PICK R \in Session : R = sess[s]
    BY <2>1, TableParts
  <2>3. AfterRead(Head(cq)) = IF Head(cq).more THEN R ELSE [R EXCEPT !.recv = FALSE]
    BY <1>1, <2>2 DEF AfterRead
  <2>4. PICK A \in Session : A = AfterRead(Head(cq))
    BY <2>1
  <2>5. A.fd = R.fd /\ A.conn = R.conn
    BY <2>3, <2>4 DEF Session
  <2>6. S = A \/ S = [A EXCEPT !.closing = TRUE] \/ S = [A EXCEPT !.recv = TRUE]
    BY <1>2, <2>4
  <2>7. S \in Session /\ S.fd = A.fd /\ S.conn = A.conn
    BY <2>6 DEF Session
  <2> QED
    BY <1>1, <2>1, <2>2, <2>5, <2>7
<1>3. CASE op = "write"
  <2>1. /\ s \in live /\ s \in Sessions /\ sess[s].pw - 1 \in Nat
        /\ Head(cq).req.wr \in WrIds
    BY <1>1, <1>3, TableParts, SentWasCounted
  <2>2. PICK R \in Session : R = sess[s]
    BY <2>1, TableParts
  <2>3. S = [R EXCEPT !.pw = R.pw - 1, !.closing = R.closing \/ Head(cq).res = "err",
                      !.inuse = R.inuse \ {Head(cq).req.wr}]
    BY <1>1, <1>3, <2>2 DEF Sent, Session
  <2>4. S \in Session
    BY <2>1, <2>2, <2>3 DEF Session
  <2>5. S.fd = R.fd /\ S.conn = R.conn
    BY <2>3 DEF Session
  <2> QED
    BY <1>1, <2>1, <2>2, <2>4, <2>5
<1> QED
  BY <1>2, <1>3

LEMMA TableByReadOrWrite ==
    TableInv /\ (HandleReadEnd \/ HandleReadNoBufs \/ HandleReadData \/ HandleWrite) => Goal
<1> SUFFICES ASSUME TableInv,
                    HandleReadEnd \/ HandleReadNoBufs \/ HandleReadData \/ HandleWrite
             PROVE  Goal
  OBVIOUS
<1>1. PICK s : s = Head(cq).req.ses
  OBVIOUS
<1>2. Consume /\ (Handling("read") \/ Handling("write"))
  BY DEF HandleReadEnd, HandleReadNoBufs, HandleReadData, HandleWrite
<1>3. AcceptsOnly(cq') /\ \A d \in Fds : Holds(cq', d) <=> Holds(cq, d)
  BY <1>2, HandledOther
<1>4. CASE HandleReadEnd
  <2>1. PICK S : S = [AfterRead(Head(cq)) EXCEPT !.closing = TRUE]
    OBVIOUS
  <2>2. Handling("read") /\ Consume /\ Cleanup(s, S)
    BY <1>1, <1>4, <2>1 DEF HandleReadEnd
  <2>3. s \in live /\ S \in Session /\ S.fd = sess[s].fd /\ S.conn = sess[s].conn
    BY <1>1, <2>1, <2>2, SameFile
  <2> QED
    BY <1>3, <2>2, <2>3, TableParts, TableCleanup DEF Goal
<1>5. CASE HandleWrite
  <2>1. PICK S : S = Sent(Head(cq))
    OBVIOUS
  <2>2. Handling("write") /\ Consume /\ Cleanup(s, S)
    BY <1>1, <1>5, <2>1 DEF HandleWrite
  <2>3. s \in live /\ S \in Session /\ S.fd = sess[s].fd /\ S.conn = sess[s].conn
    BY <1>1, <2>1, <2>2, SameFile
  <2> QED
    BY <1>3, <2>2, <2>3, TableParts, TableCleanup DEF Goal
<1>6. CASE HandleReadNoBufs \/ HandleReadData
  <2>1. Handling("read") /\ Consume /\ UNCHANGED <<live, fdtab>>
    BY <1>6 DEF HandleReadNoBufs, HandleReadData
  <2>2. PICK S \in {AfterRead(Head(cq)), [AfterRead(Head(cq)) EXCEPT !.recv = TRUE]} :
           sess' = [sess EXCEPT ![s] = S]
    BY <1>1, <1>6 DEF HandleReadNoBufs, HandleReadData
  <2>3. s \in live /\ S.fd = sess[s].fd /\ S.conn = sess[s].conn
    BY <1>1, <2>1, <2>2, SameFile
  <2>4. \A u \in live : sess'[u].fd = sess[u].fd /\ sess'[u].conn = sess[u].conn
    BY <2>2, <2>3, TableParts
  <2> QED
    BY <1>3, <2>1, <2>4, TableParts, TableKept DEF Goal
<1> QED
  BY <1>4, <1>5, <1>6

\* process_client_read: replying and rejecting change no descriptor; its end
\* may close the session's.
LEMMA TableByProcess == TableInv /\ (Reply \/ Reject \/ FinishRead) => Goal
<1> SUFFICES ASSUME TableInv, Reply \/ Reject \/ FinishRead PROVE Goal
  OBVIOUS
<1>1. PICK s : s = cur.ses
  OBVIOUS
<1>2. pc = "read" /\ UNCHANGED cq
  BY DEF Reply, Reject, FinishRead, ring
<1>3. s \in live /\ s \in Sessions /\ sess[s] \in Session
  BY <1>1, <1>2, TableParts, UpkeepParts DEF Kept, MidRead
<1>4. PICK R \in Session : R = sess[s]
  BY <1>3
<1>5. AcceptsOnly(cq') /\ \A d \in Fds : Holds(cq', d) <=> Holds(cq, d)
  BY <1>2, TableParts
<1>6. ASSUME NEW S, UNCHANGED <<live, fdtab>>, sess' = [sess EXCEPT ![s] = S],
             S.fd = R.fd, S.conn = R.conn
      PROVE  Goal
  <2>1. \A u \in live : sess'[u].fd = sess[u].fd /\ sess'[u].conn = sess[u].conn
    BY <1>3, <1>4, <1>6, TableParts
  <2> QED
    BY <1>5, <1>6, <2>1, TableParts, TableKept DEF Goal
<1>7. CASE Reply
  <2>1. PICK w : sess' = [sess EXCEPT ![s] = Sending(s, w)]
    BY <1>1, <1>7 DEF Reply
  <2>2. Sending(s, w) = [R EXCEPT !.inuse = R.inuse \cup {w}, !.pw = R.pw + 1]
    BY <1>4 DEF Sending, Session
  <2>3. Sending(s, w).fd = R.fd /\ Sending(s, w).conn = R.conn
    BY <2>2 DEF Session
  <2> QED
    BY <1>6, <1>7, <2>1, <2>3 DEF Reply
<1>8. CASE Reject
  <2>1. sess' = [sess EXCEPT ![s] = [R EXCEPT !.closing = TRUE]]
    BY <1>1, <1>4, <1>8 DEF Reject
  <2>2. [R EXCEPT !.closing = TRUE].fd = R.fd /\ [R EXCEPT !.closing = TRUE].conn = R.conn
    BY DEF Session
  <2> QED
    BY <1>6, <1>8, <2>1, <2>2 DEF Reject
<1>9. CASE FinishRead
  <2>1. CASE UNCHANGED <<live, sess, fdtab>>
    BY <1>5, <2>1, TableParts, TableKept DEF Goal
  <2>2. CASE sess' = [sess EXCEPT ![s].recv = TRUE] /\ UNCHANGED <<live, fdtab>>
    <3>1. sess' = [sess EXCEPT ![s] = [R EXCEPT !.recv = TRUE]]
      BY <1>4, <2>2
    <3>2. [R EXCEPT !.recv = TRUE].fd = R.fd /\ [R EXCEPT !.recv = TRUE].conn = R.conn
      BY DEF Session
    <3> QED
      BY <1>6, <2>2, <3>1, <3>2
  <2>3. CASE Cleanup(s, sess[s])
    <3>1. Cleanup(s, R) /\ R.fd = sess[s].fd /\ R.conn = sess[s].conn
      BY <1>4, <2>3
    <3> QED
      BY <1>3, <1>5, <3>1, TableParts, TableCleanup DEF Goal
  <2> QED
    BY <1>1, <1>9, <2>1, <2>2, <2>3 DEF FinishRead
<1> QED
  BY <1>7, <1>8, <1>9

-------------------------------------------------------------------------------
(***************************************************************************)
(* The environment, and the steps that touch no descriptor.                *)
(***************************************************************************)
LEMMA TableByLoop ==
    TableInv /\ \/ SpinForSqe \/ PeekBatch \/ RearmAccept \/ EndBatch \/ Exit \/ HandleSignal
                \/ UNCHANGED vars
      => Goal
<1> SUFFICES ASSUME TableInv,
                    \/ SpinForSqe \/ PeekBatch \/ RearmAccept \/ EndBatch \/ Exit \/ HandleSignal
                    \/ UNCHANGED vars
             PROVE  Goal
  OBVIOUS
<1>1. UNCHANGED <<live, sess, fdtab>>
  BY DEF SpinForSqe, PeekBatch, RearmAccept, EndBatch, Exit, HandleSignal, vars, memory
<1>2. AcceptsOnly(cq') /\ \A d \in Fds : Holds(cq', d) <=> Holds(cq, d)
  <2>1. CASE HandleSignal
    BY <2>1, HandledOther DEF HandleSignal
  <2>2. CASE ~HandleSignal
    <3>1. UNCHANGED cq
      BY <2>2 DEF SpinForSqe, PeekBatch, RearmAccept, EndBatch, Exit, vars, ring
    <3> QED
      BY <3>1, TableParts
  <2> QED
    BY <2>1, <2>2
<1> QED
  BY <1>1, <1>2, TableParts, TableKept DEF Goal

\* The kernel posts a completion; only an accept's carries a descriptor.
LEMMA TablePosted ==
    ASSUME TableInv, UNCHANGED <<live, sess, fdtab>>, NEW e \in Cqe, e.fd = None,
           cq' = Append(cq, e)
    PROVE  Goal
<1>1. /\ \A d : Holds(cq', d) <=> Holds(cq, d) \/ e.fd = d
      /\ AcceptsOnly(cq')
  BY TableParts, HoldsAppend
<1>2. \A d \in Fds : Holds(cq', d) <=> Holds(cq, d)
  BY <1>1, ServerAssumption
<1> QED
  BY <1>1, <1>2, TableParts, TableKept DEF Goal

LEMMA DoneHasNoFd ==
    ASSUME NEW r \in Requests, NEW res \in {"ok", "data", "nobufs", "end", "err"}
    PROVE  /\ Done(r, res) \in Cqe /\ Done(r, res).fd = None
           /\ \A b \in Buffers \cup {None} :
                 LET e == [Done(r, res) EXCEPT !.buf = b]
                 IN e \in Cqe /\ e.fd = None
           /\ \A b \in Buffers, m \in BOOLEAN :
                 LET e == [Done(r, res) EXCEPT !.buf = b, !.more = m]
                 IN e \in Cqe /\ e.fd = None
  BY DEF Done, Cqe

LEMMA TableBySystemAccept ==
    ASSUME TableInv, NEW c \in Conns, Accept(c)
    PROVE  Goal
<1>1. UNCHANGED <<live, sess>>
  BY DEF Accept, memory
<1>2. AcceptReq \in Requests
  BY RequestKinds
<1>3. CASE Post(Done(AcceptReq, "err")) /\ UNCHANGED fdtab
  <2>1. PICK e : e = Done(AcceptReq, "err")
    OBVIOUS
  <2>2. e \in Cqe /\ e.fd = None
    BY <1>2, <2>1, DoneHasNoFd
  <2> QED
    BY <1>1, <1>3, <2>1, <2>2, TablePosted DEF Post
<1>4. ASSUME NEW d \in Fds, fdtab[d] = None, fdtab' = [fdtab EXCEPT ![d] = c],
             Post([Done(AcceptReq, "ok") EXCEPT !.fd = d])
      PROVE  Goal
  <2>1. PICK e : e = [Done(AcceptReq, "ok") EXCEPT !.fd = d]
    OBVIOUS
  <2>2. e \in Cqe /\ e.fd = d /\ e.req = AcceptReq
    BY <1>2, <2>1 DEF Done, Cqe
  <2>3. cq' = Append(cq, e)
    BY <1>4, <2>1 DEF Post
  <2>4. /\ \A x : Holds(cq', x) <=> Holds(cq, x) \/ x = d
        /\ AcceptsOnly(cq')
    BY <2>2, <2>3, TableParts, HoldsAppend
  <2>5. \A x \in Fds : fdtab'[x] = IF x = d THEN c ELSE fdtab[x]
    BY <1>4, TableParts
  <2>6. c # None
    BY ServerAssumption
  <2>7. /\ HeldIsOpen /\ OwnedIsOwn /\ OwnersDiffer /\ NoneLeaked
        /\ \A u \in live : sess[u].fd \in Fds \cup {None}
    BY TableParts DEF Table, Session
  <2>8. d # None /\ \A u \in live : sess[u].fd # d
    BY <1>4, <2>7, ServerAssumption DEF OwnedIsOwn
  <2>9. HeldIsOpen'
    BY <1>1, <2>4, <2>5, <2>6, <2>7, <2>8 DEF HeldIsOpen
  <2>10. OwnedIsOwn' /\ OwnersDiffer'
    BY <1>1, <2>5, <2>7, <2>8 DEF OwnedIsOwn, OwnersDiffer
  <2>11. NoneLeaked'
    BY <1>1, <2>4, <2>5, <2>7 DEF NoneLeaked
  <2> QED
    BY <2>4, <2>9, <2>10, <2>11 DEF Goal, Table
<1> QED
  BY <1>3, <1>4 DEF Accept

LEMMA TableByEnvironment == TableInv /\ Environment => Goal
<1> SUFFICES ASSUME TableInv, Environment PROVE Goal
  OBVIOUS
<1>0. ASSUME UNCHANGED <<live, sess, fdtab, cq>> PROVE Goal
  BY <1>0, TableParts, TableKept DEF Goal
<1>1. CASE Take
  <2>1. UNCHANGED <<live, sess, fdtab>>
    BY <1>1 DEF Take, memory
  <2>2. CASE UNCHANGED cq
    BY <1>0, <2>1, <2>2
  <2>3. ASSUME NEW res \in {"end", "err"}, cq' = Append(cq, Done(Head(sq).req, res))
        PROVE  Goal
    <3>1. Head(sq).req \in Requests
      <4>1. sq \in Seq(Sqe) /\ sq # << >>
        BY <1>1, TableParts DEF Take, TypeOK
      <4>2. Head(sq) \in Sqe
        BY <4>1
      <4> QED
        BY <4>2 DEF Sqe
    <3>2. PICK e : e = Done(Head(sq).req, res)
      OBVIOUS
    <3>3. e \in Cqe /\ e.fd = None
      BY <3>1, <3>2, DoneHasNoFd
    <3> QED
      BY <2>1, <2>3, <3>2, <3>3, TablePosted
  <2>4. \/ UNCHANGED cq
        \/ cq' = Append(cq, Done(Head(sq).req, "end"))
        \/ cq' = Append(cq, Done(Head(sq).req, "err"))
    BY <1>1 DEF Take, Post
  <2> QED
    BY <2>2, <2>3, <2>4
<1>2. CASE Signal
  <2>1. UNCHANGED <<live, sess, fdtab>> /\ cq' = Append(cq, Done(SignalReq, "ok"))
    BY <1>2 DEF Signal, Post, memory
  <2>2. PICK e : e = Done(SignalReq, "ok")
    OBVIOUS
  <2>3. e \in Cqe /\ e.fd = None
    BY <2>2, RequestKinds, DoneHasNoFd
  <2> QED
    BY <2>1, <2>2, <2>3, TablePosted
<1>3. ASSUME NEW c \in Conns, Accept(c) PROVE Goal
  BY <1>3, TableBySystemAccept
<1>4. ASSUME NEW c \in Conns, Connect(c) \/ Leave(c) PROVE Goal
  BY <1>0, <1>4 DEF Connect, Leave, memory, ring
<1>5. ASSUME NEW s \in Sessions, Recv(s) PROVE Goal
  <2>1. UNCHANGED <<live, sess, fdtab>> /\ bring \subseteq Buffers /\ ReadReq(s) \in Requests
    BY <1>5, TableParts, RequestKinds DEF Recv, TypeOK
  <2>2. \/ \E b \in Buffers, m \in BOOLEAN :
               cq' = Append(cq, [Done(ReadReq(s), "data") EXCEPT !.buf = b, !.more = m])
        \/ cq' = Append(cq, Done(ReadReq(s), "nobufs"))
        \/ \E b \in Buffers \cup {None} :
               cq' = Append(cq, [Done(ReadReq(s), "end") EXCEPT !.buf = b])
    BY <1>5, <2>1 DEF Recv, Post
  <2>3. PICK e \in Cqe : e.fd = None /\ cq' = Append(cq, e)
    BY <2>1, <2>2, DoneHasNoFd
  <2> QED
    BY <2>1, <2>3, TablePosted
<1>6. ASSUME NEW s \in Sessions, NEW w \in WrIds, Send(s, w) PROVE Goal
  <2>1. UNCHANGED <<live, sess, fdtab>> /\ WriteReq(s, w) \in Requests
    BY <1>6, RequestKinds DEF Send, memory
  <2>2. \/ cq' = Append(cq, Done(WriteReq(s, w), "ok"))
        \/ cq' = Append(cq, Done(WriteReq(s, w), "err"))
    BY <1>6 DEF Send, Post
  <2>3. PICK e \in Cqe : e.fd = None /\ cq' = Append(cq, e)
    BY <2>1, <2>2, DoneHasNoFd
  <2> QED
    BY <2>1, <2>3, TablePosted
<1> QED
  BY <1>1, <1>2, <1>3, <1>4, <1>5, <1>6 DEF Environment

LEMMA TableStep == TableInv /\ [Next]_vars => TableInv'
<1> SUFFICES ASSUME TableInv, [Next]_vars PROVE TableInv'
  OBVIOUS
<1>1. UpkeepInv'
  BY UpkeepStep DEF TableInv
<1>2. Goal
  <2>1. CASE HandleAccept
    BY <2>1, TableByAccept
  <2>2. CASE HandleReadEnd \/ HandleReadNoBufs \/ HandleReadData \/ HandleWrite
    BY <2>2, TableByReadOrWrite
  <2>3. CASE Reply \/ Reject \/ FinishRead
    BY <2>3, TableByProcess
  <2>4. CASE \/ SpinForSqe \/ PeekBatch \/ RearmAccept \/ EndBatch \/ Exit \/ HandleSignal
             \/ UNCHANGED vars
    BY <2>4, TableByLoop
  <2>5. CASE Environment
    BY <2>5, TableByEnvironment
  <2> QED
    BY <2>1, <2>2, <2>3, <2>4, <2>5 DEF Next, Worker, Environment, Terminated
<1> QED
  BY <1>1, <1>2 DEF Goal, TableInv

LEMMA TableInit == Init => TableInv
<1> SUFFICES ASSUME Init PROVE TableInv
  OBVIOUS
<1>1. live = {} /\ cq = << >> /\ fdtab = [f \in Fds |-> None]
  BY DEF Init
<1>2. AcceptsOnly(cq) /\ \A d \in Fds : ~Holds(cq, d)
  BY <1>1 DEF AcceptsOnly, Holds
<1> QED
  BY <1>1, <1>2, UpkeepInit DEF TableInv, Table, HeldIsOpen, OwnedIsOwn, OwnersDiffer, NoneLeaked

LEMMA TableInvariant == Spec => []TableInv
  BY TableInit, TableStep, PTL DEF Spec

\* An open descriptor belongs to exactly one session, or to an accept that is
\* not handled yet, and a closed one to nobody: none is leaked, none is closed
\* twice (server.c:84-96, 634-668).
THEOREM DescriptorsAreAccounted == Spec => []DescriptorsAccounted
<1>1. TableInv => DescriptorsAccounted
  <2> SUFFICES ASSUME TableInv, NEW d \in Fds
               PROVE  Cardinality({s \in live : sess[s].fd = d})
                        + Cardinality({i \in 1..Len(cq) : cq[i].fd = d})
                      = (IF fdtab[d] = None THEN 0 ELSE 1)
    BY DEF DescriptorsAccounted
  <2>1. PICK owners : owners = {s \in live : sess[s].fd = d}
    OBVIOUS
  <2>2. PICK holders : holders = {i \in 1..Len(cq) : cq[i].fd = d}
    OBVIOUS
  <2>3. HeldIsOpen /\ OwnedIsOwn /\ OwnersDiffer /\ NoneLeaked /\ d # None
    BY TableParts, ServerAssumption DEF Table
  <2>4. Holds(cq, d) <=> holders # {}
    BY <2>2 DEF Holds
  <2>5. \A i, j \in holders : i = j
    <3> SUFFICES ASSUME NEW i \in holders, NEW j \in holders, i < j PROVE FALSE
      BY <2>2
    <3>1. cq[i].req = AcceptReq /\ cq[j].req = AcceptReq /\ i \in 1..Len(cq) /\ j \in 1..Len(cq)
      BY <2>2, <2>3, TableParts DEF AcceptsOnly
    <3>2. cq[i].more
      BY <3>1, TableParts DEF RequestsUnique, FinalIsLast
    <3>3. HasMore(cq, AcceptReq)
      BY <3>1, <3>2 DEF HasMore
    <3> QED
      BY <3>3, RequestKinds, TableParts DEF RequestsUnique
  <2>6. \A s, u \in owners : s = u
    BY <2>1, <2>3 DEF OwnersDiffer
  <2>7. Cardinality(owners) + Cardinality(holders) = IF fdtab[d] = None THEN 0 ELSE 1
    <3>1. CASE fdtab[d] = None
      <4>1. owners = {} /\ holders = {}
        BY <2>1, <2>3, <2>4, <3>1 DEF HeldIsOpen, OwnedIsOwn
      <4>2. Cardinality(owners) = 0 /\ Cardinality(holders) = 0
        BY <4>1, FS_EmptySet
      <4> QED
        BY <3>1, <4>2
    <3>2. CASE fdtab[d] # None /\ holders # {}
      <4>1. owners = {}
        BY <2>1, <2>3, <2>4, <3>2 DEF HeldIsOpen
      <4>2. PICK i : i \in holders
        BY <3>2
      <4>3. holders = {i}
        BY <2>5, <4>2
      <4>4. Cardinality(owners) = 0 /\ Cardinality(holders) = 1
        BY <4>1, <4>3, FS_EmptySet, FS_Singleton
      <4> QED
        BY <3>2, <4>4
    <3>3. CASE fdtab[d] # None /\ holders = {}
      <4>1. PICK s \in live : sess[s].fd = d
        BY <2>3, <2>4, <3>3 DEF NoneLeaked
      <4>2. s \in owners
        BY <2>1, <4>1
      <4>3. owners = {s}
        BY <2>6, <4>2
      <4>4. Cardinality(owners) = 1 /\ Cardinality(holders) = 0
        BY <3>3, <4>3, FS_EmptySet, FS_Singleton
      <4> QED
        BY <3>3, <4>4
    <3> QED
      BY <3>1, <3>2, <3>3
  <2> QED
    BY <2>1, <2>2, <2>7, Zenon
<1> QED
  BY <1>1, TableInvariant, PTL

-------------------------------------------------------------------------------
(***************************************************************************)
(* Replies.  A send that is prepared carries its session's descriptor,     *)
(* which is closed only when no send is left, and one that executes holds  *)
(* the session's connection.                                               *)
(***************************************************************************)
Prepared(e) == e.req.op = "write" => e.fd = sess[e.req.ses].fd
Executes(f) == f.req.op = "write" => f.conn = sess[f.req.ses].conn
Addressed   == /\ \A i \in 1..Len(sq) : Prepared(sq[i])
               /\ \A f \in flight : Executes(f)
ReplyInv    == TableInv /\ Addressed

\* A session with a send that is not handled yet is alive, keeps its
\* descriptor, and that is its connection's.
Owed == \A s \in Sessions, w \in WrIds :
           Outstanding(WriteReq(s, w)) =>
               /\ s \in live /\ sess[s].fd # None /\ fdtab[sess[s].fd] = sess[s].conn
               /\ sess[s].conn # None

LEMMA SendsAreOwed == TableInv => Owed
<1> SUFFICES ASSUME TableInv, NEW s \in Sessions, NEW w \in WrIds, Outstanding(WriteReq(s, w))
             PROVE  /\ s \in live /\ sess[s].fd # None /\ fdtab[sess[s].fd] = sess[s].conn
                    /\ sess[s].conn # None
  BY DEF Owed
<1>1. /\ s \in live /\ w \in sess[s].inuse /\ sess[s].pw = Cardinality(sess[s].inuse)
      /\ sess[s] \in Session
  BY TableParts, UpkeepParts, RecordedIsLive, AccountsSay DEF Kept
<1>2. IsFiniteSet(sess[s].inuse)
  BY <1>1, WriteIdsFinite, FS_Subset DEF Session
<1>3. sess[s].pw # 0
  BY <1>1, <1>2, FS_EmptySet
<1>4. sess[s].fd # None
  BY <1>1, <1>3, TableParts, UpkeepParts DEF Upkeep, Grounded
<1> QED
  BY <1>1, <1>4, TableParts DEF Table, OwnedIsOwn

\* The same, for the sends of a ring.
LEMMA RingSends ==
    ASSUME TableInv
    PROVE  /\ \A i \in 1..Len(sq) : sq[i] \in Sqe /\ (sq[i].req.op = "write" =>
                 \E s \in Sessions, w \in WrIds : sq[i].req = WriteReq(s, w) /\ InSq(WriteReq(s, w)))
           /\ \A f \in flight : f.req.op = "write" =>
                 \E s \in Sessions, w \in WrIds : f.req = WriteReq(s, w) /\ InFlight(WriteReq(s, w))
<1>1. ASSUME NEW i \in 1..Len(sq)
      PROVE  sq[i] \in Sqe /\ (sq[i].req.op = "write" =>
                 \E s \in Sessions, w \in WrIds : sq[i].req = WriteReq(s, w) /\ InSq(WriteReq(s, w)))
  <2>1. sq[i] \in Sqe
    BY TableParts DEF TypeOK
  <2>2. sq[i].req \in Requests /\ InSq(sq[i].req)
    BY <2>1 DEF Sqe, InSq, HasReq
  <2> QED
    BY <2>1, <2>2, KindOf
<1>2. ASSUME NEW f \in flight, f.req.op = "write"
      PROVE  \E s \in Sessions, w \in WrIds : f.req = WriteReq(s, w) /\ InFlight(WriteReq(s, w))
  <2>1. f.req \in Requests /\ InFlight(f.req)
    BY TableParts DEF TypeOK, Flight, InFlight
  <2> QED
    BY <1>2, <2>1, KindOf
<1> QED
  BY <1>1, <1>2

\* A handler that prepares nothing, or one submission which is properly
\* addressed, and changes a session's descriptor only by closing it.
LEMMA AddressedByWorker ==
    ASSUME ReplyInv, TableInv', Owed', UNCHANGED flight,
           \A u \in live : u \in live' => /\ sess'[u].conn = sess[u].conn
                                         /\ sess'[u].fd \in {sess[u].fd, None},
           \/ UNCHANGED sq
           \/ \E e \in Sqe : /\ sq' = Append(sq, e)
                             /\ e.req.op = "write" => e.fd = sess'[e.req.ses].fd
    PROVE  Addressed'
<1>1. /\ sq \in Seq(Sqe) /\ \A i \in 1..Len(sq) : sq[i] \in Sqe
      /\ \A i \in 1..Len(sq) : InSq(sq[i].req)'
  <2>1. sq \in Seq(Sqe) /\ \A i \in 1..Len(sq) : sq[i] \in Sqe
    BY RingSends, TableParts DEF ReplyInv, TypeOK
  <2>2. CASE UNCHANGED sq
    BY <2>1, <2>2 DEF InSq, HasReq
  <2>3. ASSUME NEW e \in Sqe, sq' = Append(sq, e), NEW i \in 1..Len(sq) PROVE InSq(sq[i].req)'
    BY <2>1, <2>3 DEF InSq, HasReq
  <2> QED
    BY <2>1, <2>2, <2>3
<1>2. ASSUME NEW i \in 1..Len(sq), sq[i].req.op = "write"
      PROVE  sq[i].fd = sess'[sq[i].req.ses].fd
  <2>1. PICK s \in Sessions, w \in WrIds : sq[i].req = WriteReq(s, w) /\ InSq(WriteReq(s, w))
    BY <1>2, RingSends DEF ReplyInv
  <2>2. InSq(WriteReq(s, w))' /\ Prepared(sq[i])
    BY <1>1, <2>1 DEF ReplyInv, Addressed
  <2>3. s \in live /\ s \in live' /\ sess'[s].fd # None
    BY <2>1, <2>2, SendsAreOwed DEF ReplyInv, Owed, Outstanding
  <2> QED
    BY <1>2, <2>1, <2>2, <2>3, RequestKinds DEF Prepared
<1>3. \A i \in 1..Len(sq') : sq'[i].req.op = "write" => sq'[i].fd = sess'[sq'[i].req.ses].fd
  <2>1. CASE UNCHANGED sq
    BY <1>2, <2>1
  <2>2. ASSUME NEW e \in Sqe, sq' = Append(sq, e), e.req.op = "write" => e.fd = sess'[e.req.ses].fd,
               NEW i \in 1..Len(sq')
        PROVE  sq'[i].req.op = "write" => sq'[i].fd = sess'[sq'[i].req.ses].fd
    <3>1. (i \in 1..Len(sq) /\ sq'[i] = sq[i]) \/ sq'[i] = e
      BY <1>1, <2>2
    <3> QED
      BY <1>2, <2>2, <3>1
  <2> QED
    BY <2>1, <2>2
<1>4. ASSUME NEW f \in flight', f.req.op = "write"
      PROVE  f.conn = sess'[f.req.ses].conn
  <2>1. PICK s \in Sessions, w \in WrIds : f.req = WriteReq(s, w) /\ InFlight(WriteReq(s, w))
    BY <1>4, RingSends DEF ReplyInv
  <2>2. InFlight(WriteReq(s, w))' /\ Executes(f)
    BY <2>1 DEF ReplyInv, Addressed, InFlight
  <2>3. s \in live /\ s \in live'
    BY <2>1, <2>2, SendsAreOwed DEF ReplyInv, Owed, Outstanding
  <2> QED
    BY <1>4, <2>1, <2>2, <2>3, RequestKinds DEF Executes
<1> QED
  BY <1>3, <1>4 DEF Addressed, Prepared, Executes

LEMMA CleanupFiles ==
    ASSUME sess \in [Sessions -> Session], live \subseteq Sessions, NEW s \in live,
           NEW S \in Session, S.fd = sess[s].fd, S.conn = sess[s].conn, Cleanup(s, S)
    PROVE  \A u \in live : u \in live' => /\ sess'[u].conn = sess[u].conn
                                       /\ sess'[u].fd \in {sess[u].fd, None}
<1>1. CASE CloseDue(S) /\ FreeDue(S)
  BY <1>1 DEF Cleanup
<1>2. CASE CloseDue(S) /\ ~FreeDue(S)
  <2>1. sess' = [sess EXCEPT ![s] = ForgetFd(S)]
    BY <1>2 DEF Cleanup
  <2>2. ForgetFd(S).fd = None /\ ForgetFd(S).conn = S.conn
    BY DEF ForgetFd, Session
  <2> QED
    BY <2>1, <2>2
<1>3. CASE ~CloseDue(S)
  BY <1>3 DEF Cleanup
<1> QED
  BY <1>1, <1>2, <1>3

\* The descriptor and the connection of a session in each handler.
LEMMA FilesKept ==
    TableInv /\ (Worker \/ UNCHANGED vars) =>
        \A u \in live : u \in live' => /\ sess'[u].conn = sess[u].conn
                                    /\ sess'[u].fd \in {sess[u].fd, None}
<1> DEFINE Files == \A u \in live : u \in live' => /\ sess'[u].conn = sess[u].conn
                                                /\ sess'[u].fd \in {sess[u].fd, None}
<1> SUFFICES ASSUME TableInv, Worker \/ UNCHANGED vars PROVE Files
  OBVIOUS
<1>0. ASSUME NEW s \in live, NEW S, S.fd = sess[s].fd, S.conn = sess[s].conn,
             sess' = [sess EXCEPT ![s] = S]
      PROVE  Files
  BY <1>0, TableParts
<1>1. CASE \/ SpinForSqe \/ PeekBatch \/ RearmAccept \/ EndBatch \/ Exit \/ HandleSignal
           \/ UNCHANGED vars
  <2>1. UNCHANGED sess
    BY <1>1 DEF SpinForSqe, PeekBatch, RearmAccept, EndBatch, Exit, HandleSignal, vars, memory
  <2> QED
    BY <2>1
<1>2. CASE HandleAccept
  <2>1. \/ UNCHANGED sess
        \/ \E s \in Sessions \ live : sess' = [sess EXCEPT ![s] = NewSession(Head(cq).fd)]
    BY <1>2 DEF HandleAccept
  <2>2. \A u \in live : sess'[u] = sess[u]
    BY <2>1, TableParts
  <2> QED
    BY <2>2
<1>3. CASE HandleReadEnd \/ HandleReadNoBufs \/ HandleReadData \/ HandleWrite
  <2>1. PICK s : s = Head(cq).req.ses
    OBVIOUS
  <2>2. CASE HandleReadEnd
    <3>1. PICK S : S = [AfterRead(Head(cq)) EXCEPT !.closing = TRUE]
      OBVIOUS
    <3>2. Handling("read") /\ Consume /\ Cleanup(s, S)
      BY <2>1, <2>2, <3>1 DEF HandleReadEnd
    <3>3. s \in live /\ S \in Session /\ S.fd = sess[s].fd /\ S.conn = sess[s].conn
      BY <2>1, <3>1, <3>2, SameFile
    <3> QED
      BY <3>2, <3>3, TableParts, CleanupFiles
  <2>3. CASE HandleWrite
    <3>1. PICK S : S = Sent(Head(cq))
      OBVIOUS
    <3>2. Handling("write") /\ Consume /\ Cleanup(s, S)
      BY <2>1, <2>3, <3>1 DEF HandleWrite
    <3>3. s \in live /\ S \in Session /\ S.fd = sess[s].fd /\ S.conn = sess[s].conn
      BY <2>1, <3>1, <3>2, SameFile
    <3> QED
      BY <3>2, <3>3, TableParts, CleanupFiles
  <2>4. CASE HandleReadNoBufs \/ HandleReadData
    <3>1. Handling("read") /\ Consume
      BY <2>4 DEF HandleReadNoBufs, HandleReadData
    <3>2. PICK S \in {AfterRead(Head(cq)), [AfterRead(Head(cq)) EXCEPT !.recv = TRUE]} :
             sess' = [sess EXCEPT ![s] = S]
      BY <2>1, <2>4 DEF HandleReadNoBufs, HandleReadData
    <3>3. s \in live /\ S.fd = sess[s].fd /\ S.conn = sess[s].conn
      BY <2>1, <3>1, <3>2, SameFile
    <3> QED
      BY <1>0, <3>2, <3>3
  <2> QED
    BY <1>3, <2>2, <2>3, <2>4
<1>4. CASE Reply \/ Reject \/ FinishRead
  <2>1. PICK s : s = cur.ses
    OBVIOUS
  <2>2. s \in live /\ sess[s] \in Session
    BY <1>4, <2>1, TableParts, UpkeepParts DEF Kept, MidRead, Reply, Reject, FinishRead
  <2>3. PICK R \in Session : R = sess[s]
    BY <2>2
  <2>4. CASE Reply
    <3>1. PICK w : sess' = [sess EXCEPT ![s] = Sending(s, w)]
      BY <2>1, <2>4 DEF Reply
    <3>2. Sending(s, w) = [R EXCEPT !.inuse = R.inuse \cup {w}, !.pw = R.pw + 1]
      BY <2>3 DEF Sending, Session
    <3>3. Sending(s, w).fd = R.fd /\ Sending(s, w).conn = R.conn
      BY <3>2 DEF Session
    <3> QED
      BY <1>0, <2>2, <2>3, <3>1, <3>3
  <2>5. CASE Reject
    <3>1. sess' = [sess EXCEPT ![s] = [R EXCEPT !.closing = TRUE]]
      BY <2>1, <2>3, <2>5 DEF Reject
    <3>2. [R EXCEPT !.closing = TRUE].fd = R.fd /\ [R EXCEPT !.closing = TRUE].conn = R.conn
      BY DEF Session
    <3> QED
      BY <1>0, <2>2, <2>3, <3>1, <3>2
  <2>6. CASE FinishRead
    <3>1. CASE sess' = [sess EXCEPT ![s].recv = TRUE]
      <4>1. sess' = [sess EXCEPT ![s] = [R EXCEPT !.recv = TRUE]]
        BY <2>3, <3>1
      <4>2. [R EXCEPT !.recv = TRUE].fd = R.fd /\ [R EXCEPT !.recv = TRUE].conn = R.conn
        BY DEF Session
      <4> QED
        BY <1>0, <2>2, <2>3, <4>1, <4>2
    <3>2. CASE Cleanup(s, sess[s])
      <4>1. Cleanup(s, R) /\ R.fd = sess[s].fd /\ R.conn = sess[s].conn
        BY <2>3, <3>2
      <4> QED
        BY <2>2, <4>1, TableParts, CleanupFiles
    <3>3. CASE UNCHANGED sess
      BY <3>3
    <3> QED
      BY <2>1, <2>6, <3>1, <3>2, <3>3 DEF FinishRead
  <2> QED
    BY <1>4, <2>4, <2>5, <2>6
<1> QED
  BY <1>1, <1>2, <1>3, <1>4 DEF Worker

\* What the handlers submit, and what it is addressed to.
LEMMA SubmitsAddressed ==
    TableInv /\ (Worker \/ UNCHANGED vars) =>
        /\ UNCHANGED flight
        /\ \/ UNCHANGED sq
           \/ \E e \in Sqe : /\ sq' = Append(sq, e)
                             /\ e.req.op = "write" => e.fd = sess'[e.req.ses].fd
<1> DEFINE Submits == \/ UNCHANGED sq
                     \/ \E e \in Sqe : /\ sq' = Append(sq, e)
                                       /\ e.req.op = "write" => e.fd = sess'[e.req.ses].fd
<1> SUFFICES ASSUME TableInv, Worker \/ UNCHANGED vars PROVE UNCHANGED flight /\ Submits
  OBVIOUS
<1>1. UNCHANGED flight
  BY DEF Worker, SpinForSqe, PeekBatch, HandleSignal, HandleAccept, RearmAccept, HandleReadEnd,
     HandleReadNoBufs, HandleReadData, Reply, Reject, FinishRead, HandleWrite, EndBatch, Exit,
     vars, ring
<1>2. ASSUME NEW r \in Requests, NEW fd \in Fds \cup {None}, Prepare(r, fd), r.op # "write"
      PROVE  Submits
  <2>1. PICK e : e = [req |-> r, fd |-> fd]
    OBVIOUS
  <2>2. e \in Sqe /\ e.req.op # "write"
    BY <1>2, <2>1 DEF Sqe
  <2> QED
    BY <1>2, <2>1, <2>2 DEF Prepare
<1>3. CASE \/ SpinForSqe \/ PeekBatch \/ HandleSignal \/ HandleReadEnd \/ HandleReadData
           \/ Reject \/ HandleWrite \/ EndBatch \/ Exit \/ UNCHANGED vars
  BY <1>3 DEF SpinForSqe, PeekBatch, HandleSignal, HandleReadEnd, HandleReadData, Reject,
     HandleWrite, EndBatch, Exit, vars, ring
<1>4. CASE RearmAccept
  BY <1>1, <1>2, <1>4, RequestKinds DEF RearmAccept
<1>5. CASE HandleAccept
  <2>1. \/ UNCHANGED sq
        \/ \E s \in Sessions : Prepare(ReadReq(s), Head(cq).fd)
    BY <1>5 DEF HandleAccept
  <2>2. Head(cq).fd \in Fds \cup {None}
    BY <1>5, OneAccept DEF HandleAccept
  <2> QED
    BY <1>1, <1>2, <2>1, <2>2, RequestKinds
<1>6. CASE HandleReadNoBufs
  <2>1. PICK s : s = Head(cq).req.ses
    OBVIOUS
  <2>2. s \in Sessions
    BY <1>6, <2>1, TableParts, ReadHandled DEF HandleReadNoBufs
  <2>3. sess[s].fd \in Fds \cup {None} /\ Prepare(ReadReq(s), sess[s].fd)
    BY <1>6, <2>1, <2>2, TableParts DEF HandleReadNoBufs, Session
  <2> QED
    BY <1>1, <1>2, <2>2, <2>3, RequestKinds
<1>7. CASE Reply \/ FinishRead
  <2>1. PICK s : s = cur.ses
    OBVIOUS
  <2>2. s \in Sessions /\ sess[s] \in Session
    BY <1>7, <2>1, TableParts DEF Reply, FinishRead, TypeOK
  <2>3. sess[s].fd \in Fds \cup {None}
    BY <2>2 DEF Session
  <2>4. CASE FinishRead
    <3>1. UNCHANGED sq \/ Prepare(ReadReq(s), sess[s].fd)
      BY <2>1, <2>4 DEF FinishRead
    <3> QED
      BY <1>1, <1>2, <2>2, <2>3, <3>1, RequestKinds
  <2>5. CASE Reply
    <3>1. PICK w \in GetWriteResponse(s) :
             /\ sess' = [sess EXCEPT ![s] = Sending(s, w)]
             /\ Submit(WriteReq(s, w), sess[s].fd)
      BY <2>1, <2>5 DEF Reply
    <3>2. PICK e : e = [req |-> WriteReq(s, w), fd |-> sess[s].fd]
      OBVIOUS
    <3>3. WriteReq(s, w) \in Requests
      BY <2>2, <3>1, SlotWasFree, RequestKinds
    <3>4. e \in Sqe /\ e.req.ses = s /\ e.fd = sess[s].fd
      BY <2>3, <3>2, <3>3, RequestKinds DEF Sqe
    <3>5. sess'[s].fd = sess[s].fd
      <4>1. PICK R \in Session : R = sess[s]
        BY <2>2
      <4>2. Sending(s, w) = [R EXCEPT !.inuse = R.inuse \cup {w}, !.pw = R.pw + 1]
        BY <4>1 DEF Sending, Session
      <4>3. Sending(s, w).fd = R.fd
        BY <4>2 DEF Session
      <4> QED
        BY <2>2, <3>1, <4>1, <4>3, TableParts
    <3>6. sq' = Append(sq, e)
      BY <3>1, <3>2 DEF Submit
    <3> QED
      BY <1>1, <3>4, <3>5, <3>6
  <2> QED
    BY <1>7, <2>4, <2>5
<1>8. Submits
  BY <1>3, <1>4, <1>5, <1>6, <1>7 DEF Worker
<1> QED
  BY <1>1, <1>8

\* The kernel resolves a send's descriptor to its session's connection; its
\* other steps address nothing anew.
LEMMA AddressedByEnvironment == ReplyInv /\ Environment => Addressed'
<1> SUFFICES ASSUME ReplyInv, Environment PROVE Addressed'
  OBVIOUS
<1>1. UNCHANGED sess
  BY DEF Environment, Take, Signal, Accept, Connect, Leave, Recv, Send, memory
<1>2. TableInv /\ TypeOK
  BY TableParts DEF ReplyInv
<1>3. CASE Take
  <2>1. PICK e : e = Head(sq)
    OBVIOUS
  <2>2. sq \in Seq(Sqe) /\ sq # << >> /\ sq' = Tail(sq)
    BY <1>2, <1>3 DEF Take, TypeOK
  <2>3. /\ Len(sq) \in Nat \ {0} /\ e = sq[1] /\ Len(sq') = Len(sq) - 1
        /\ \A i \in 1..Len(sq') : sq'[i] = sq[i + 1] /\ i + 1 \in 1..Len(sq)
    BY <2>1, <2>2
  <2>4. \A i \in 1..Len(sq') : sq'[i].req.op = "write" => sq'[i].fd = sess'[sq'[i].req.ses].fd
    BY <1>1, <2>3 DEF ReplyInv, Addressed, Prepared
  <2>5. PICK g : g = [req |-> e.req, conn |-> IF e.fd = None THEN None ELSE fdtab[e.fd]]
    OBVIOUS
  <2>6. flight' \subseteq flight \cup {g} /\ g.req = e.req
    BY <1>3, <2>1, <2>5 DEF Take
  <2>7. ASSUME g.req.op = "write" PROVE g.conn = sess[g.req.ses].conn
    <3>1. PICK s \in Sessions, w \in WrIds : e.req = WriteReq(s, w) /\ InSq(WriteReq(s, w))
      BY <1>2, <2>3, <2>6, <2>7, RingSends
    <3>2. e.fd = sess[s].fd /\ e.req.ses = s
      BY <2>3, <2>6, <2>7, <3>1, RequestKinds DEF ReplyInv, Addressed, Prepared
    <3>3. sess[s].fd # None /\ fdtab[sess[s].fd] = sess[s].conn
      BY <1>2, <3>1, SendsAreOwed DEF Owed, Outstanding
    <3> QED
      BY <2>5, <2>6, <3>2, <3>3
  <2>8. \A f \in flight' : f.req.op = "write" => f.conn = sess'[f.req.ses].conn
    BY <1>1, <2>6, <2>7 DEF ReplyInv, Addressed, Executes
  <2> QED
    BY <2>4, <2>8 DEF Addressed, Prepared, Executes
<1>4. CASE UNCHANGED sq /\ flight' \subseteq flight
  BY <1>1, <1>4 DEF ReplyInv, Addressed, Prepared, Executes
<1>5. Take \/ (UNCHANGED sq /\ flight' \subseteq flight)
  <2>1. ASSUME NEW f, NEW e, Completes(f, e) PROVE UNCHANGED sq /\ flight' \subseteq flight
    BY <2>1 DEF Completes
  <2> QED
    BY <1>2, <2>1, EnvironmentOnRings
<1> QED
  BY <1>3, <1>4, <1>5

LEMMA ReplyStep == ReplyInv /\ [Next]_vars => ReplyInv'
<1> SUFFICES ASSUME ReplyInv, [Next]_vars PROVE ReplyInv'
  OBVIOUS
<1>1. TableInv'
  BY TableStep DEF ReplyInv
<1>2. TableInv' => Owed'
  BY SendsAreOwed, PTL
<1>3. CASE Worker \/ UNCHANGED vars
  <2>1. Addressed'
    BY <1>1, <1>2, <1>3, FilesKept, SubmitsAddressed, AddressedByWorker DEF ReplyInv
  <2> QED
    BY <1>1, <2>1 DEF ReplyInv
<1>4. CASE Environment
  BY <1>1, <1>4, AddressedByEnvironment DEF ReplyInv
<1> QED
  BY <1>3, <1>4 DEF Next, Environment, Terminated

LEMMA ReplyInit == Init => ReplyInv
<1> SUFFICES ASSUME Init PROVE ReplyInv
  OBVIOUS
<1>1. sq = << [req |-> AcceptReq, fd |-> None], [req |-> SignalReq, fd |-> None] >> /\ flight = {}
  BY DEF Init
<1>2. Len(sq) = 2 /\ sq[1].req = AcceptReq /\ sq[2].req = SignalReq
  BY <1>1
<1>3. \A i \in 1..Len(sq) : sq[i].req.op # "write"
  BY <1>2, RequestKinds
<1> QED
  BY <1>1, <1>3, TableInit DEF ReplyInv, Addressed, Prepared

LEMMA ReplyInvariant == Spec => []ReplyInv
  BY ReplyInit, ReplyStep, PTL DEF Spec

\* A reply goes to the client whose request it answers: when the kernel takes
\* a send, its descriptor still is the session's own connection, though the
\* descriptor's number was taken down when the reply was prepared
\* (server.c:98-127, 84-96).
THEOREM RepliesReach == Spec => []RepliesReachTheirClient
<1>1. ReplyInv => RepliesReachTheirClient
  <2> SUFFICES ASSUME ReplyInv PROVE RepliesReachTheirClient
    OBVIOUS
  <2>1. ASSUME NEW i \in 1..Len(sq), sq[i].req.op = "write"
        PROVE  sq[i].fd # None /\ fdtab[sq[i].fd] = sess[sq[i].req.ses].conn
    <3>1. PICK s \in Sessions, w \in WrIds : sq[i].req = WriteReq(s, w) /\ InSq(WriteReq(s, w))
      BY <2>1, RingSends DEF ReplyInv
    <3>2. sess[s].fd # None /\ fdtab[sess[s].fd] = sess[s].conn
      BY <3>1, SendsAreOwed DEF ReplyInv, Owed, Outstanding
    <3> QED
      BY <2>1, <3>1, <3>2, RequestKinds DEF ReplyInv, Addressed, Prepared
  <2> QED
    BY <2>1 DEF RepliesReachTheirClient, ReplyInv, Addressed, Executes
<1> QED
  BY <1>1, ReplyInvariant, PTL

-------------------------------------------------------------------------------
(***************************************************************************)
(* The registered receive buffers.  Each is in the buffer ring, in one     *)
(* completion that is not handled yet, or with process_client_read, and    *)
(* never in two of these places.                                           *)
(***************************************************************************)
Carries(q, b) == \E i \in 1..Len(q) : q[i].buf = b
OneEach(q)    == \A i, j \in 1..Len(q) : q[i].buf = q[j].buf /\ q[i].buf # None => i = j
ReadsOnly(q)  == \A i \in 1..Len(q) :
                    q[i].buf # None => q[i].req.op = "read" /\ q[i].res \in {"data", "end"}
Sound(q)      == OneEach(q) /\ ReadsOnly(q)
InHand(b)     == pc = "read" /\ cur.buf = b

Places == \A b \in Buffers : /\ b \in bring \/ Carries(cq, b) \/ InHand(b)
                             /\ ~(b \in bring /\ Carries(cq, b))
                             /\ ~(b \in bring /\ InHand(b))
                             /\ ~(Carries(cq, b) /\ InHand(b))

Placed    == Sound(cq) /\ Places
BufferInv == LifetimeInv /\ Placed

-------------------------------------------------------------------------------
(***************************************************************************)
(* The completion ring.                                                    *)
(***************************************************************************)
LEMMA CarriesAppend ==
    ASSUME NEW T, NEW q \in Seq(T), NEW e \in T
    PROVE  /\ \A b : Carries(Append(q, e), b) <=> Carries(q, b) \/ e.buf = b
           /\ Sound(q) /\ (e.buf # None => /\ e.req.op = "read" /\ e.res \in {"data", "end"}
                                           /\ ~Carries(q, e.buf))
                => Sound(Append(q, e))
<1>1. /\ Append(q, e) \in Seq(T) /\ Len(Append(q, e)) = Len(q) + 1 /\ Len(q) \in Nat
      /\ \A i \in 1..Len(q) : Append(q, e)[i] = q[i]
      /\ Append(q, e)[Len(q) + 1] = e
  OBVIOUS
<1> QED
  BY <1>1 DEF Carries, Sound, OneEach, ReadsOnly

LEMMA CarriesTail ==
    ASSUME NEW T, NEW q \in Seq(T), q # << >>
    PROVE  /\ \A b : Carries(q, b) <=> Carries(Tail(q), b) \/ Head(q).buf = b
           /\ Sound(q) => /\ Sound(Tail(q))
                          /\ Head(q).buf # None => /\ Head(q).req.op = "read"
                                                   /\ Head(q).res \in {"data", "end"}
                                                   /\ ~Carries(Tail(q), Head(q).buf)
<1>1. /\ Tail(q) \in Seq(T) /\ Len(q) \in Nat \ {0}
      /\ Head(q) = q[1] /\ Len(Tail(q)) = Len(q) - 1
      /\ \A i \in 1..(Len(q) - 1) : Tail(q)[i] = q[i + 1]
  OBVIOUS
<1>2. ASSUME NEW b, Carries(q, b), Head(q).buf # b PROVE Carries(Tail(q), b)
  <2>1. PICK i \in 1..Len(q) : q[i].buf = b
    BY <1>2 DEF Carries
  <2>2. i # 1 /\ i - 1 \in 1..(Len(q) - 1)
    BY <1>1, <1>2, <2>1
  <2>3. Tail(q)[i - 1].buf = b
    BY <1>1, <2>1, <2>2
  <2> QED
    BY <1>1, <2>2, <2>3 DEF Carries
<1>3. ASSUME NEW b, Carries(Tail(q), b) \/ Head(q).buf = b PROVE Carries(q, b)
  BY <1>1, <1>3 DEF Carries
<1>4. ASSUME Sound(q)
      PROVE  /\ Sound(Tail(q))
             /\ Head(q).buf # None => /\ Head(q).req.op = "read"
                                      /\ Head(q).res \in {"data", "end"}
                                      /\ ~Carries(Tail(q), Head(q).buf)
  BY <1>1, <1>4 DEF Sound, OneEach, ReadsOnly, Carries
<1> QED
  BY <1>2, <1>3, <1>4

LEMMA BufferParts ==
    BufferInv => /\ LifetimeInv /\ TypeOK /\ RequestsUnique /\ Sound(cq) /\ Places
                 /\ cq \in Seq(Cqe) /\ bring \subseteq Buffers
  BY Parts DEF BufferInv, Placed, Kept, TypeOK

\* What a handler knows about the buffer of the completion it consumes.
LEMMA HandledBuffer ==
    ASSUME BufferInv, NEW op, Handling(op), Consume
    PROVE  /\ Head(cq).buf \in Buffers \cup {None} /\ Sound(cq')
           /\ \A b : Carries(cq, b) <=> Carries(cq', b) \/ Head(cq).buf = b
           /\ Head(cq).buf # None => /\ op = "read" /\ Head(cq).res \in {"data", "end"}
                                     /\ ~Carries(cq', Head(cq).buf)
           /\ \A b \in Buffers : ~InHand(b)
<1>1. cq # << >> /\ cq' = Tail(cq) /\ Head(cq).req.op = op /\ pc = "batch"
  BY DEF Handling, Consume
<1>2. Head(cq) \in Cqe
  BY <1>1, BufferParts
<1> QED
  BY <1>1, <1>2, BufferParts, CarriesTail DEF Cqe, InHand

-------------------------------------------------------------------------------
(***************************************************************************)
(* The worker.                                                             *)
(***************************************************************************)
LEMMA PlacesKept ==
    ASSUME Places, bring' = bring, \A b \in Buffers : Carries(cq', b) <=> Carries(cq, b),
           \A b \in Buffers : InHand(b)' <=> InHand(b)
    PROVE  Places'
  BY DEF Places

LEMMA PlacedByOtherHandlers ==
    BufferInv /\ (HandleAccept \/ HandleSignal \/ HandleReadNoBufs \/ HandleWrite) => Placed'
<1> SUFFICES ASSUME BufferInv, HandleAccept \/ HandleSignal \/ HandleReadNoBufs \/ HandleWrite
             PROVE  Placed'
  OBVIOUS
<1>1. PICK op : Handling(op) /\ Consume /\ (op # "read" \/ Head(cq).res = "nobufs")
  BY DEF HandleAccept, HandleSignal, HandleReadNoBufs, HandleWrite
<1>2. Head(cq).buf = None /\ Sound(cq') /\ \A b \in Buffers : ~InHand(b)
  BY <1>1, HandledBuffer
<1>3. \A b \in Buffers : Carries(cq', b) <=> Carries(cq, b)
  BY <1>1, <1>2, HandledBuffer, ServerAssumption
<1>4. bring' = bring /\ pc' # "read"
  BY DEF HandleAccept, HandleSignal, HandleReadNoBufs, HandleWrite, Handling, AfterAccept, memory
<1>5. Places'
  BY <1>2, <1>3, <1>4, BufferParts, PlacesKept DEF InHand
<1> QED
  BY <1>2, <1>5 DEF Placed

LEMMA PlacedByReadEnd == BufferInv /\ HandleReadEnd => Placed'
<1> SUFFICES ASSUME BufferInv, HandleReadEnd PROVE Placed'
  OBVIOUS
<1>1. PICK h : h = Head(cq).buf
  OBVIOUS
<1>2. /\ Handling("read") /\ Consume /\ pc' # "read"
      /\ bring' = bring \cup ({h} \ {None})
  BY <1>1 DEF HandleReadEnd, ReturnBuffer, Handling
<1>3. /\ h \in Buffers \cup {None} /\ Sound(cq')
      /\ \A b : Carries(cq, b) <=> Carries(cq', b) \/ h = b
      /\ h # None => ~Carries(cq', h)
      /\ \A b \in Buffers : ~InHand(b)
  BY <1>1, <1>2, HandledBuffer
<1>4. Places'
  <2>1. \A b \in Buffers : ~InHand(b)'
    BY <1>2 DEF InHand
  <2>2. \A b \in Buffers : b # None /\ (b \in bring' <=> b \in bring \/ b = h)
    BY <1>2, ServerAssumption
  <2> QED
    BY <1>3, <2>1, <2>2, BufferParts DEF Places
<1> QED
  BY <1>3, <1>4 DEF Placed

LEMMA PlacedByReadData == BufferInv /\ HandleReadData => Placed'
<1> SUFFICES ASSUME BufferInv, HandleReadData PROVE Placed'
  OBVIOUS
<1>1. PICK h : h = Head(cq).buf
  OBVIOUS
<1>2. Handling("read") /\ Consume /\ pc' = "read" /\ bring' = bring /\ cur'.buf = h
  BY <1>1 DEF HandleReadData
<1>3. /\ Sound(cq')
      /\ \A b : Carries(cq, b) <=> Carries(cq', b) \/ h = b
      /\ h # None => ~Carries(cq', h)
      /\ \A b \in Buffers : ~InHand(b)
  BY <1>1, <1>2, HandledBuffer
<1>4. Places'
  <2>1. \A b \in Buffers : (InHand(b)' <=> b = h) /\ b # None
    BY <1>2, ServerAssumption DEF InHand
  <2> QED
    BY <1>2, <1>3, <2>1, BufferParts DEF Places
<1> QED
  BY <1>3, <1>4 DEF Placed

LEMMA PlacedByFinishRead == BufferInv /\ FinishRead => Placed'
<1> SUFFICES ASSUME BufferInv, FinishRead PROVE Placed'
  OBVIOUS
<1>1. /\ pc = "read" /\ pc' # "read" /\ UNCHANGED cq
      /\ bring' = bring \cup ({cur.buf} \ {None})
  BY DEF FinishRead, ReturnBuffer
<1>2. \A b \in Buffers : (InHand(b) <=> b = cur.buf) /\ ~InHand(b)' /\ b # None
  BY <1>1, ServerAssumption DEF InHand
<1>3. \A b \in Buffers : b \in bring' <=> b \in bring \/ b = cur.buf
  BY <1>1, <1>2
<1>4. Places'
  BY <1>1, <1>2, <1>3, BufferParts DEF Places
<1> QED
  BY <1>1, <1>4, BufferParts DEF Placed

LEMMA PlacedByOtherSteps ==
    BufferInv /\ \/ SpinForSqe \/ PeekBatch \/ RearmAccept \/ Reply \/ Reject \/ EndBatch \/ Exit
                 \/ UNCHANGED vars
      => Placed'
<1> SUFFICES ASSUME BufferInv,
                    \/ SpinForSqe \/ PeekBatch \/ RearmAccept \/ Reply \/ Reject \/ EndBatch \/ Exit
                    \/ UNCHANGED vars
             PROVE  Placed'
  OBVIOUS
<1>1. UNCHANGED <<bring, cq>>
  BY DEF SpinForSqe, PeekBatch, RearmAccept, Reply, Reject, EndBatch, Exit, vars, memory, ring
<1>2. (pc' = "read" <=> pc = "read") /\ cur'.buf = cur.buf
  <2>1. CASE Reply
    BY <2>1, BufferParts DEF Reply, TypeOK
  <2>2. CASE ~Reply
    BY <2>2 DEF SpinForSqe, PeekBatch, RearmAccept, Reject, EndBatch, Exit, vars, worker
  <2> QED
    BY <2>1, <2>2
<1>3. Places'
  BY <1>1, <1>2, BufferParts, PlacesKept DEF InHand
<1> QED
  BY <1>1, <1>3, BufferParts DEF Placed

-------------------------------------------------------------------------------
(***************************************************************************)
(* The environment.                                                        *)
(***************************************************************************)
\* The kernel posts a completion, with a buffer of the ring or with none.
LEMMA PlacedPosted ==
    ASSUME BufferInv, UNCHANGED <<pc, cur>>, NEW e \in Cqe, cq' = Append(cq, e),
           bring' = bring \ {e.buf},
           e.buf # None => e.buf \in bring /\ e.req.op = "read" /\ e.res \in {"data", "end"}
    PROVE  Placed'
<1>1. /\ \A b : Carries(cq', b) <=> Carries(cq, b) \/ e.buf = b
      /\ Sound(cq')
  <2>1. e.buf # None => ~Carries(cq, e.buf)
    BY BufferParts DEF Places
  <2> QED
    BY <2>1, BufferParts, CarriesAppend
<1>2. \A b \in Buffers : (InHand(b)' <=> InHand(b)) /\ b # None
  BY ServerAssumption DEF InHand
<1>3. Places'
  BY <1>1, <1>2, BufferParts DEF Places
<1> QED
  BY <1>1, <1>3 DEF Placed

\* What the kernel posts.
LEMMA DoneCarries ==
    ASSUME NEW r \in Requests, NEW res \in {"ok", "data", "nobufs", "end", "err"}
    PROVE  Done(r, res) \in Cqe /\ Done(r, res).buf = None
  BY DEF Done, Cqe

LEMMA PlacedByEnvironment == BufferInv /\ Environment => Placed'
<1> SUFFICES ASSUME BufferInv, Environment PROVE Placed'
  OBVIOUS
<1>0. UNCHANGED <<pc, cur>> /\ None \notin bring
  BY BufferParts, ServerAssumption
     DEF Environment, Take, Signal, Accept, Connect, Leave, Recv, Send, worker
<1>1. ASSUME UNCHANGED <<bring, cq>> PROVE Placed'
  BY <1>0, <1>1, BufferParts, PlacesKept DEF Placed, InHand
<1>2. ASSUME UNCHANGED bring, NEW e \in Cqe, e.buf = None, cq' = Append(cq, e) PROVE Placed'
  BY <1>0, <1>2, PlacedPosted
<1>3. CASE Take
  <2>1. UNCHANGED bring
    BY <1>3 DEF Take, memory
  <2>2. Head(sq).req \in Requests
    <3>1. sq \in Seq(Sqe) /\ sq # << >>
      BY <1>3, BufferParts DEF Take, TypeOK
    <3>2. Head(sq) \in Sqe
      BY <3>1
    <3> QED
      BY <3>2 DEF Sqe
  <2>3. \/ UNCHANGED cq
        \/ cq' = Append(cq, Done(Head(sq).req, "end"))
        \/ cq' = Append(cq, Done(Head(sq).req, "err"))
    BY <1>3 DEF Take, Post
  <2>4. UNCHANGED cq \/ \E e \in Cqe : e.buf = None /\ cq' = Append(cq, e)
    BY <2>2, <2>3, DoneCarries
  <2> QED
    BY <1>1, <1>2, <2>1, <2>4
<1>4. CASE Signal
  <2>1. UNCHANGED bring /\ cq' = Append(cq, Done(SignalReq, "ok"))
    BY <1>4 DEF Signal, Post, memory
  <2>2. \E e \in Cqe : e.buf = None /\ cq' = Append(cq, e)
    BY <2>1, RequestKinds, DoneCarries
  <2> QED
    BY <1>2, <2>1, <2>2
<1>5. ASSUME NEW c \in Conns, Accept(c) PROVE Placed'
  <2>1. UNCHANGED bring
    BY <1>5 DEF Accept, memory
  <2>2. CASE cq' = Append(cq, Done(AcceptReq, "err"))
    <3>1. PICK e : e = Done(AcceptReq, "err")
      OBVIOUS
    <3>2. e \in Cqe /\ e.buf = None
      BY <3>1, RequestKinds, DoneCarries
    <3> QED
      BY <1>2, <2>1, <2>2, <3>1, <3>2
  <2>3. ASSUME NEW d \in Fds, cq' = Append(cq, [Done(AcceptReq, "ok") EXCEPT !.fd = d])
        PROVE  Placed'
    <3>1. PICK e : e = [Done(AcceptReq, "ok") EXCEPT !.fd = d]
      OBVIOUS
    <3>2. e \in Cqe /\ e.buf = None
      BY <2>3, <3>1, RequestKinds DEF Done, Cqe
    <3> QED
      BY <1>2, <2>1, <2>3, <3>1, <3>2
  <2> QED
    BY <1>5, <2>2, <2>3 DEF Accept, Post
<1>6. ASSUME NEW c \in Conns, Connect(c) \/ Leave(c) PROVE Placed'
  BY <1>1, <1>6 DEF Connect, Leave, memory, ring
<1>7. ASSUME NEW s \in Sessions, Recv(s) PROVE Placed'
  <2>1. ReadReq(s) \in Requests /\ ReadReq(s).op = "read" /\ bring \subseteq Buffers
    BY <1>7, BufferParts, RequestKinds
  <2>2. \/ \E b \in bring, m \in BOOLEAN :
              /\ cq' = Append(cq, [Done(ReadReq(s), "data") EXCEPT !.buf = b, !.more = m])
              /\ bring' = bring \ {b}
        \/ cq' = Append(cq, Done(ReadReq(s), "nobufs")) /\ UNCHANGED bring
        \/ \E b \in bring \cup {None} :
              /\ cq' = Append(cq, [Done(ReadReq(s), "end") EXCEPT !.buf = b])
              /\ bring' = bring \ {b}
    BY <1>7 DEF Recv, Post
  <2>3. ASSUME NEW b \in bring, NEW m \in BOOLEAN, bring' = bring \ {b},
               cq' = Append(cq, [Done(ReadReq(s), "data") EXCEPT !.buf = b, !.more = m])
        PROVE  Placed'
    <3>1. PICK e : e = [Done(ReadReq(s), "data") EXCEPT !.buf = b, !.more = m]
      OBVIOUS
    <3>2. e \in Cqe /\ e.buf = b /\ e.req = ReadReq(s) /\ e.res = "data"
      BY <2>1, <2>3, <3>1 DEF Done, Cqe
    <3> QED
      BY <1>0, <2>1, <2>3, <3>1, <3>2, PlacedPosted
  <2>4. CASE cq' = Append(cq, Done(ReadReq(s), "nobufs")) /\ UNCHANGED bring
    <3>1. PICK e : e = Done(ReadReq(s), "nobufs")
      OBVIOUS
    <3>2. e \in Cqe /\ e.buf = None
      BY <2>1, <3>1, DoneCarries
    <3> QED
      BY <1>2, <2>4, <3>1, <3>2
  <2>5. ASSUME NEW b \in bring \cup {None}, bring' = bring \ {b},
               cq' = Append(cq, [Done(ReadReq(s), "end") EXCEPT !.buf = b])
        PROVE  Placed'
    <3>1. PICK e : e = [Done(ReadReq(s), "end") EXCEPT !.buf = b]
      OBVIOUS
    <3>2. e \in Cqe /\ e.buf = b /\ e.req = ReadReq(s) /\ e.res = "end"
      BY <2>1, <2>5, <3>1 DEF Done, Cqe
    <3> QED
      BY <1>0, <2>1, <2>5, <3>1, <3>2, PlacedPosted
  <2> QED
    BY <2>2, <2>3, <2>4, <2>5
<1>8. ASSUME NEW s \in Sessions, NEW w \in WrIds, Send(s, w) PROVE Placed'
  <2>1. UNCHANGED bring /\ WriteReq(s, w) \in Requests
    BY <1>8, RequestKinds DEF Send, memory
  <2>2. \/ cq' = Append(cq, Done(WriteReq(s, w), "ok"))
        \/ cq' = Append(cq, Done(WriteReq(s, w), "err"))
    BY <1>8 DEF Send, Post
  <2>3. \E e \in Cqe : e.buf = None /\ cq' = Append(cq, e)
    BY <2>1, <2>2, DoneCarries
  <2> QED
    BY <1>2, <2>1, <2>3
<1> QED
  BY <1>3, <1>4, <1>5, <1>6, <1>7, <1>8 DEF Environment

-------------------------------------------------------------------------------
LEMMA PlacedByAll == BufferInv /\ [Next]_vars => Placed'
<1> SUFFICES ASSUME BufferInv, [Next]_vars PROVE Placed'
  OBVIOUS
<1>1. CASE HandleAccept \/ HandleSignal \/ HandleReadNoBufs \/ HandleWrite
  BY <1>1, PlacedByOtherHandlers
<1>2. CASE HandleReadEnd
  BY <1>2, PlacedByReadEnd
<1>3. CASE HandleReadData
  BY <1>3, PlacedByReadData
<1>4. CASE FinishRead
  BY <1>4, PlacedByFinishRead
<1>5. CASE \/ SpinForSqe \/ PeekBatch \/ RearmAccept \/ Reply \/ Reject \/ EndBatch \/ Exit
           \/ UNCHANGED vars
  BY <1>5, PlacedByOtherSteps
<1>6. CASE Environment
  BY <1>6, PlacedByEnvironment
<1> QED
  BY <1>1, <1>2, <1>3, <1>4, <1>5, <1>6 DEF Next, Worker, Environment, Terminated

LEMMA BufferStep == BufferInv /\ [Next]_vars => BufferInv'
  BY LifetimeStep, PlacedByAll DEF BufferInv

LEMMA BufferInit == Init => BufferInv
<1> SUFFICES ASSUME Init PROVE BufferInv
  OBVIOUS
<1>1. cq = << >> /\ bring = Buffers /\ pc = "wait"
  BY DEF Init
<1> QED
  BY <1>1, LifetimeInit DEF BufferInv, Placed, Sound, OneEach, ReadsOnly, Places, Carries, InHand

\* A receive buffer is in the ring, or in exactly one unhandled completion, or
\* with process_client_read: none is leaked, and none is filled again while it
\* is being read, however reads end, run out of buffers or meet a closing
\* session (server.c:402-410, 714-723).
THEOREM BuffersAreAccounted == Spec => []BuffersAccounted
<1>1. BufferInv => BuffersAccounted
  <2> SUFFICES ASSUME BufferInv, NEW b \in Buffers
               PROVE  Cardinality({i \in 1..Len(cq) : cq[i].buf = b})
                        + (IF b \in bring THEN 1 ELSE 0)
                        + (IF pc = "read" /\ cur.buf = b THEN 1 ELSE 0) = 1
    BY DEF BuffersAccounted
  <2>1. PICK holders : holders = {i \in 1..Len(cq) : cq[i].buf = b}
    OBVIOUS
  <2>2. b # None /\ (Carries(cq, b) <=> holders # {})
    BY <2>1, ServerAssumption DEF Carries
  <2>3. \A i, j \in holders : i = j
    BY <2>1, <2>2, BufferParts DEF Sound, OneEach
  <2>4. /\ b \in bring \/ Carries(cq, b) \/ InHand(b)
        /\ ~(b \in bring /\ Carries(cq, b)) /\ ~(b \in bring /\ InHand(b))
        /\ ~(Carries(cq, b) /\ InHand(b))
    BY BufferParts DEF Places
  <2>5. Cardinality(holders) = IF Carries(cq, b) THEN 1 ELSE 0
    <3>1. CASE holders = {}
      BY <2>2, <3>1, FS_EmptySet
    <3>2. CASE holders # {}
      <4>1. PICK i : i \in holders
        BY <3>2
      <4>2. holders = {i}
        BY <2>3, <4>1
      <4> QED
        BY <2>2, <4>2, FS_Singleton
    <3> QED
      BY <3>1, <3>2
  <2>6. Cardinality(holders) + (IF b \in bring THEN 1 ELSE 0)
          + (IF pc = "read" /\ cur.buf = b THEN 1 ELSE 0) = 1
    BY <2>4, <2>5 DEF InHand
  <2> QED
    BY <2>1, <2>6, Zenon
<1>2. Spec => []BufferInv
  BY BufferInit, BufferStep, PTL DEF Spec
<1> QED
  BY <1>1, <1>2, PTL

-------------------------------------------------------------------------------
(***************************************************************************)
(* The core.  With the priorities of tune_sqpoll_thread a worker does no   *)
(* more than it could without: all that is proved of MachServer holds.     *)
(***************************************************************************)

\* THEOREM: a worker whose SQPOLL thread runs only when the scheduler lets it
\* (main.c:47-66) implements the worker whose submissions are taken at any time.
THEOREM ScheduledIsServer == SSpec => Spec
<1>1. SInit => Init
  BY DEF SInit
<1>2. [SNext]_svars => [Next]_vars
  <2> SUFFICES ASSUME [SNext]_svars PROVE [Next]_vars
    OBVIOUS
  <2>1. CASE UNCHANGED svars
    BY <2>1 DEF svars
  <2>2. CASE SNext
    BY <2>2 DEF SNext, Next, SpinInVain
  <2> QED
    BY <2>1, <2>2
<1> QED
  BY <1>1, <1>2, PTL DEF SSpec, Spec

\* THEOREM: under those priorities the write slots and the receive buffers are
\* accounted for too, while the ring is full included (server.c:24-32).
THEOREM ScheduledIsAccounted == SSpec => [](TypeOK /\ WritesAccounted /\ BuffersAccounted)
  BY ScheduledIsServer, TypeCorrect, WritesAreAccounted, BuffersAreAccounted, PTL

\* A completion that comes later does not change which one is handled next.
LEMMA StillHandling ==
    ASSUME TypeOK, UNCHANGED <<pc, batch, live, cq>> \/
             (UNCHANGED <<pc, batch, live>> /\ \E e : cq' = Append(cq, e)),
           NeedsSqe
    PROVE  NeedsSqe'
<1>1. cq \in Seq(Cqe)
  BY DEF TypeOK
<1>2. CASE pc \in {"read", "rearm"}
  BY <1>2 DEF NeedsSqe
<1>3. ASSUME NEW op, Handling(op)
      PROVE  Handling(op)' /\ Head(cq)' = Head(cq)
  <2>1. CASE cq' = cq
    BY <1>3, <2>1 DEF Handling
  <2>2. ASSUME NEW e, cq' = Append(cq, e) PROVE cq' # << >> /\ Head(cq') = Head(cq)
    <3>1. Len(cq) \in Nat \ {0} /\ Append(cq, e)[1] = cq[1]
          /\ Len(Append(cq, e)) = Len(cq) + 1
      BY <1>1, <1>3 DEF Handling
    <3> QED
      BY <1>1, <1>3, <2>2, <3>1 DEF Handling
  <2> QED
    BY <1>3, <2>1, <2>2 DEF Handling
<1>4. CASE Handling("accept") /\ Head(cq).fd # None /\ ~(Sessions \subseteq live)
  <2>1. Handling("accept")' /\ Head(cq)' = Head(cq) /\ live' = live
    BY <1>3, <1>4
  <2> QED
    BY <1>4, <2>1 DEF NeedsSqe
<1>5. CASE Handling("read") /\ Head(cq).res = "nobufs"
  <2>1. Handling("read")' /\ Head(cq)' = Head(cq)
    BY <1>3, <1>5
  <2> QED
    BY <1>5, <2>1 DEF NeedsSqe
<1> QED
  BY <1>2, <1>4, <1>5 DEF NeedsSqe

\* THEOREM: a worker that outranks its SQPOLL thread and needs an entry of the full,
\* flushed ring needs it for good, whatever completes meanwhile: no other handler
\* runs, and the thread never gets the core.  Only inside process_client_read may it
\* go on, if the rest of the chunk is not answered (main.c:47-50, server.c:24-32).
THEOREM StarvationIsKept == SSpec => StarvationLasts
<1>1. ASSUME TypeOK, [SNext]_svars, Starved, ~FinishRead PROVE Starved'
  <2>0. /\ outranks /\ NeedsSqe /\ ~HasSqe /\ submitted = Len(sq) /\ outranks' = outranks
        /\ pc \in {"read", "rearm", "batch"}
    BY <1>1 DEF Starved, NeedsSqe, Handling, SNext, svars
  <2>1. ASSUME UNCHANGED <<sq, submitted>>, NeedsSqe' PROVE Starved'
    BY <2>0, <2>1 DEF Starved, HasSqe
  <2>2. CASE UNCHANGED svars \/ SpinInVain \/ Terminated \/ \E c \in Conns : Connect(c) \/ Leave(c)
    <3>1. UNCHANGED <<pc, batch, live, cq, sq, submitted>>
      BY <2>2 DEF svars, vars, SpinInVain, Terminated, Connect, Leave, worker, memory, ring
    <3> QED
      BY <1>1, <2>0, <2>1, <3>1, StillHandling
  <2>3. CASE Signal \/ (\E c \in Conns : Accept(c))
               \/ \E s \in Sessions : Recv(s) \/ \E w \in WrIds : Send(s, w)
    <3>1. UNCHANGED <<pc, batch, live, sq, submitted>> /\ \E e : cq' = Append(cq, e)
      <4>1. CASE Signal
        BY <4>1 DEF Signal, Post, worker, memory
      <4>2. ASSUME NEW c \in Conns, Accept(c)
            PROVE  UNCHANGED <<pc, batch, live, sq, submitted>> /\ \E e : cq' = Append(cq, e)
        BY <4>2 DEF Accept, Post, worker, memory
      <4>3. ASSUME NEW s \in Sessions, Recv(s)
            PROVE  UNCHANGED <<pc, batch, live, sq, submitted>> /\ \E e : cq' = Append(cq, e)
        BY <4>3 DEF Recv, Post, worker, memory
      <4>4. ASSUME NEW s \in Sessions, NEW w \in WrIds, Send(s, w)
            PROVE  UNCHANGED <<pc, batch, live, sq, submitted>> /\ \E e : cq' = Append(cq, e)
        BY <4>4 DEF Send, Post, worker, memory
      <4> QED
        BY <2>3, <4>1, <4>2, <4>3, <4>4
    <3> QED
      BY <1>1, <2>0, <2>1, <3>1, StillHandling
  <2>4. ~(PollerRuns /\ Take)
    BY <2>0 DEF PollerRuns, Asleep
  <2>5. CASE Reject
    <3>1. UNCHANGED <<pc, sq, submitted>> /\ pc = "read"
      BY <2>5 DEF Reject, worker, ring
    <3> QED
      BY <2>1, <3>1 DEF NeedsSqe
  <2>6. ~(SpinForSqe \/ PeekBatch \/ EndBatch \/ Exit \/ RearmAccept \/ Reply)
    <3>1. ~SpinForSqe
      <4>1. Len(sq) \in Nat
        BY <1>1 DEF TypeOK
      <4> QED
        BY <2>0, <4>1 DEF SpinForSqe
    <3>2. ~(PeekBatch \/ Exit)
      BY <2>0 DEF PeekBatch, Exit
    <3>3. ~EndBatch
      BY <1>1, <2>0 DEF EndBatch, NeedsSqe, Handling, TypeOK
    <3>4. ~RearmAccept
      BY <2>0 DEF RearmAccept, Prepare
    <3>5. ~Reply
      BY <2>0 DEF Reply, Submit
    <3> QED
      BY <3>1, <3>2, <3>3, <3>4, <3>5
  <2>7. ~(HandleSignal \/ HandleAccept \/ HandleReadEnd \/ HandleReadNoBufs
            \/ HandleReadData \/ HandleWrite)
    <3>1. ~HandleSignal /\ ~HandleWrite
      BY <2>0 DEF HandleSignal, HandleWrite, Handling, NeedsSqe
    <3>2. ~HandleAccept
      BY <2>0 DEF HandleAccept, Handling, NeedsSqe, Prepare
    <3>3. ~HandleReadNoBufs
      BY <2>0 DEF HandleReadNoBufs, Prepare
    <3>4. ~HandleReadEnd /\ ~HandleReadData
      BY <2>0 DEF HandleReadEnd, HandleReadData, Handling, NeedsSqe
    <3> QED
      BY <3>1, <3>2, <3>3, <3>4
  <2> QED
    BY <1>1, <2>2, <2>3, <2>4, <2>5, <2>6, <2>7 DEF SNext, Worker
<1>2. TypeOK /\ [SNext]_svars => [Starved => Starved' \/ FinishRead]_svars
  BY <1>1
<1> QED
  BY <1>2, ScheduledIsAccounted, PTL DEF SSpec, StarvationLasts
===============================================================================
