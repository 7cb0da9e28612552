--------------------------- MODULE MachServerProofs ---------------------------
(***************************************************************************)
(* Proofs about MachServer, for every number of sessions, connections,     *)
(* descriptors, buffers and write slots.                                   *)
(***************************************************************************)
EXTENDS MachServer, FiniteSetTheorems, TLAPS

-------------------------------------------------------------------------------
(***************************************************************************)
(* What the ring operations do to the requests a ring holds.               *)
(***************************************************************************)

\* Appending to the submission ring (io_uring_get_sqe) adds one request.
LEMMA AppendReq ==
    ASSUME NEW T, NEW q \in Seq(T), NEW e \in T
    PROVE  /\ \A r : HasReq(Append(q, e), r) <=> HasReq(q, r) \/ r = e.req
           /\ DistinctReqs(q) /\ ~HasReq(q, e.req) => DistinctReqs(Append(q, e))
<1>1. /\ Append(q, e) \in Seq(T) /\ Len(Append(q, e)) = Len(q) + 1 /\ Len(q) \in Nat
      /\ \A i \in 1..Len(q) : Append(q, e)[i] = q[i]
      /\ Append(q, e)[Len(q) + 1] = e
  OBVIOUS
<1> QED
  BY <1>1 DEF HasReq, DistinctReqs

\* Taking the oldest submission removes one request.
LEMMA TailReq ==
    ASSUME NEW T, NEW q \in Seq(T), q # << >>
    PROVE  /\ Tail(q) \in Seq(T) /\ Head(q) \in T /\ Len(Tail(q)) = Len(q) - 1
           /\ \A r : HasReq(q, r) <=> HasReq(Tail(q), r) \/ r = Head(q).req
           /\ DistinctReqs(q) => DistinctReqs(Tail(q)) /\ ~HasReq(Tail(q), Head(q).req)
<1>1. /\ Tail(q) \in Seq(T) /\ Head(q) \in T /\ Len(q) \in Nat \ {0}
      /\ Head(q) = q[1] /\ Len(Tail(q)) = Len(q) - 1
      /\ \A i \in 1..(Len(q) - 1) : Tail(q)[i] = q[i + 1]
  OBVIOUS
<1>2. ASSUME NEW r PROVE HasReq(q, r) <=> HasReq(Tail(q), r) \/ r = Head(q).req
  <2>1. ASSUME HasReq(q, r), r # Head(q).req PROVE HasReq(Tail(q), r)
    <3>1. PICK i \in 1..Len(q) : q[i].req = r
      BY <2>1 DEF HasReq
    <3>2. i # 1 /\ i - 1 \in 1..(Len(q) - 1)
      BY <1>1, <2>1, <3>1
    <3>3. Tail(q)[i - 1].req = r
      BY <1>1, <3>1, <3>2
    <3> QED
      BY <1>1, <3>2, <3>3 DEF HasReq
  <2>2. ASSUME HasReq(Tail(q), r) \/ r = Head(q).req PROVE HasReq(q, r)
    BY <1>1, <2>2 DEF HasReq
  <2> QED
    BY <2>1, <2>2
<1>3. ASSUME DistinctReqs(q) PROVE DistinctReqs(Tail(q)) /\ ~HasReq(Tail(q), Head(q).req)
  BY <1>1, <1>3 DEF HasReq, DistinctReqs
<1> QED
  BY <1>1, <1>2, <1>3

\* Posting a completion: a last one may follow only what is not last.
LEMMA AppendCqe ==
    ASSUME NEW T, NEW q \in Seq(T), NEW e \in T
    PROVE  /\ Append(q, e) \in Seq(T)
           /\ \A r : HasFinal(Append(q, e), r) <=> HasFinal(q, r) \/ (r = e.req /\ ~e.more)
           /\ \A r : HasMore(Append(q, e), r) <=> HasMore(q, r) \/ (r = e.req /\ e.more)
           /\ FinalIsLast(q) /\ ~HasFinal(q, e.req) => FinalIsLast(Append(q, e))
           /\ (\A i \in 1..Len(q) : q[i].more => q[i].res = "data") /\ (e.more => e.res = "data")
                => \A i \in 1..Len(Append(q, e)) : Append(q, e)[i].more => Append(q, e)[i].res = "data"
<1>1. /\ Append(q, e) \in Seq(T) /\ Len(Append(q, e)) = Len(q) + 1 /\ Len(q) \in Nat
      /\ \A i \in 1..Len(q) : Append(q, e)[i] = q[i]
      /\ Append(q, e)[Len(q) + 1] = e
  OBVIOUS
<1>2. \A r : HasFinal(Append(q, e), r) <=> HasFinal(q, r) \/ (r = e.req /\ ~e.more)
  BY <1>1 DEF HasFinal
<1>3. \A r : HasMore(Append(q, e), r) <=> HasMore(q, r) \/ (r = e.req /\ e.more)
  BY <1>1 DEF HasMore
<1>4. FinalIsLast(q) /\ ~HasFinal(q, e.req) => FinalIsLast(Append(q, e))
  BY <1>1 DEF HasFinal, FinalIsLast
<1> QED
  BY <1>1, <1>2, <1>3, <1>4

\* Handling the oldest completion: after a last one, nothing of its request is
\* left in the ring.
LEMMA TailCqe ==
    ASSUME NEW T, NEW q \in Seq(T), q # << >>
    PROVE  /\ Tail(q) \in Seq(T) /\ Head(q) \in T
           /\ \A r : HasFinal(q, r) <=> HasFinal(Tail(q), r) \/ (r = Head(q).req /\ ~Head(q).more)
           /\ \A r : HasMore(Tail(q), r) => HasMore(q, r)
           /\ Head(q).more => HasMore(q, Head(q).req)
           /\ FinalIsLast(q) => FinalIsLast(Tail(q))
           /\ FinalIsLast(q) /\ ~Head(q).more =>
                ~HasFinal(Tail(q), Head(q).req) /\ ~HasMore(Tail(q), Head(q).req)
           /\ (\A i \in 1..Len(q) : q[i].more => q[i].res = "data") =>
                 /\ \A i \in 1..Len(Tail(q)) : Tail(q)[i].more => Tail(q)[i].res = "data"
                 /\ Head(q).more => Head(q).res = "data"
<1>1. /\ Tail(q) \in Seq(T) /\ Head(q) \in T /\ Len(q) \in Nat \ {0}
      /\ Head(q) = q[1] /\ Len(Tail(q)) = Len(q) - 1
      /\ \A i \in 1..(Len(q) - 1) : Tail(q)[i] = q[i + 1]
  OBVIOUS
<1>2. ASSUME NEW r
      PROVE  HasFinal(q, r) <=> HasFinal(Tail(q), r) \/ (r = Head(q).req /\ ~Head(q).more)
  <2>1. ASSUME HasFinal(q, r), ~(r = Head(q).req /\ ~Head(q).more) PROVE HasFinal(Tail(q), r)
    <3>1. PICK i \in 1..Len(q) : q[i].req = r /\ ~q[i].more
      BY <2>1 DEF HasFinal
    <3>2. i # 1 /\ i - 1 \in 1..(Len(q) - 1)
      BY <1>1, <2>1, <3>1
    <3>3. Tail(q)[i - 1].req = r /\ ~Tail(q)[i - 1].more
      BY <1>1, <3>1, <3>2
    <3> QED
      BY <1>1, <3>2, <3>3 DEF HasFinal
  <2>2. ASSUME HasFinal(Tail(q), r) \/ (r = Head(q).req /\ ~Head(q).more) PROVE HasFinal(q, r)
    BY <1>1, <2>2 DEF HasFinal
  <2> QED
    BY <2>1, <2>2
<1>3. \A r : HasMore(Tail(q), r) => HasMore(q, r)
  BY <1>1 DEF HasMore
<1>4. Head(q).more => HasMore(q, Head(q).req)
  BY <1>1 DEF HasMore
<1>5. ASSUME FinalIsLast(q) PROVE FinalIsLast(Tail(q))
  BY <1>1, <1>5 DEF FinalIsLast
<1>6. ASSUME FinalIsLast(q), ~Head(q).more
      PROVE  ~HasFinal(Tail(q), Head(q).req) /\ ~HasMore(Tail(q), Head(q).req)
  BY <1>1, <1>6 DEF FinalIsLast, HasFinal, HasMore
<1> QED
  BY <1>1, <1>2, <1>3, <1>4, <1>5, <1>6

-------------------------------------------------------------------------------
(***************************************************************************)
(* The requests are pairwise different, and a request's operation says     *)
(* which of the four kinds it is.                                          *)
(***************************************************************************)
LEMMA RequestKinds ==
    /\ AcceptReq \in Requests /\ SignalReq \in Requests
    /\ \A s \in Sessions : ReadReq(s) \in Requests
    /\ \A s \in Sessions, w \in WrIds : WriteReq(s, w) \in Requests
    /\ \A s, u : ReadReq(s) = ReadReq(u) <=> s = u
    /\ \A s, u, w, v : WriteReq(s, w) = WriteReq(u, v) <=> s = u /\ w = v
    /\ \A s, u, w : ReadReq(s) # WriteReq(u, w)
    /\ \A s, w : AcceptReq # ReadReq(s) /\ AcceptReq # WriteReq(s, w)
    /\ \A s, w : SignalReq # ReadReq(s) /\ SignalReq # WriteReq(s, w)
    /\ AcceptReq # SignalReq
    /\ \A s, w : ReadReq(s).op = "read" /\ WriteReq(s, w).op = "write"
    /\ AcceptReq.op = "accept" /\ SignalReq.op = "signal"
    /\ \A s, w : ReadReq(s).ses = s /\ WriteReq(s, w).ses = s /\ WriteReq(s, w).wr = w
    /\ AcceptReq.ses = None /\ SignalReq.ses = None
<1>1. \A s, w : ReadReq(s).op = "read" /\ WriteReq(s, w).op = "write"
  BY DEF ReadReq, WriteReq
<1>2. AcceptReq.op = "accept" /\ SignalReq.op = "signal"
  BY DEF AcceptReq, SignalReq
<1>3. \A s, w : ReadReq(s).ses = s /\ WriteReq(s, w).ses = s /\ WriteReq(s, w).wr = w
  BY DEF ReadReq, WriteReq
<1>4. AcceptReq.ses = None /\ SignalReq.ses = None
  BY DEF AcceptReq, SignalReq
<1>5. /\ AcceptReq \in Requests /\ SignalReq \in Requests
      /\ \A s \in Sessions : ReadReq(s) \in Requests
      /\ \A s \in Sessions, w \in WrIds : WriteReq(s, w) \in Requests
  BY DEF Requests
<1>6. /\ \A s, w : AcceptReq # ReadReq(s) /\ AcceptReq # WriteReq(s, w)
      /\ \A s, w : SignalReq # ReadReq(s) /\ SignalReq # WriteReq(s, w)
  BY <1>1, <1>2
<1>7. \A s, u, w : ReadReq(s) # WriteReq(u, w)
  BY <1>1
<1>8. AcceptReq # SignalReq
  BY <1>2
<1>9. \A s, u : ReadReq(s) = ReadReq(u) <=> s = u
  BY <1>3
<1>10. \A s, u, w, v : WriteReq(s, w) = WriteReq(u, v) <=> s = u /\ w = v
  BY <1>3
<1> QED
  BY <1>1, <1>2, <1>3, <1>4, <1>5, <1>6, <1>7, <1>8, <1>9, <1>10

LEMMA KindOf ==
    ASSUME NEW r \in Requests
    PROVE  /\ r.op \in {"accept", "signal", "read", "write"}
           /\ r.op = "accept" => r = AcceptReq
           /\ r.op = "signal" => r = SignalReq
           /\ r.op = "read" => r.ses \in Sessions /\ r = ReadReq(r.ses)
           /\ r.op = "write" =>
                 /\ r.ses \in Sessions /\ r.wr \in WrIds
                 /\ r = WriteReq(r.ses, r.wr)
  BY DEF Requests, AcceptReq, SignalReq, ReadReq, WriteReq

\* A completion that only ends its request is a completion.
LEMMA DoneEnds ==
    ASSUME NEW r \in Requests, NEW res \in {"ok", "data", "nobufs", "end", "err"}
    PROVE  Done(r, res) \in Cqe /\ Done(r, res).req = r /\ ~Done(r, res).more
  BY DEF Done, Cqe

\* So is one that also carries a buffer or a descriptor.
LEMMA DoneTyped ==
    ASSUME NEW r \in Requests, NEW res \in {"ok", "data", "nobufs", "end", "err"}
    PROVE  /\ Done(r, res) \in Cqe
           /\ Done(r, res).req = r /\ ~Done(r, res).more
           /\ Done(r, res).buf = None /\ Done(r, res).fd = None
           /\ \A d \in Fds :
                 LET e == [Done(r, res) EXCEPT !.fd = d]
                 IN e \in Cqe /\ e.req = r /\ ~e.more
           /\ \A b \in Buffers \cup {None} :
                 LET e == [Done(r, res) EXCEPT !.buf = b]
                 IN e \in Cqe /\ e.req = r /\ ~e.more /\ e.res = res
           /\ \A b \in Buffers, m \in BOOLEAN :
                 LET e == [Done(r, res) EXCEPT !.buf = b, !.more = m]
                 IN e \in Cqe /\ e.req = r /\ e.more = m /\ e.res = res
  BY DEF Done, Cqe

-------------------------------------------------------------------------------
(***************************************************************************)
(* What a handler knows about the completion it consumes.                  *)
(***************************************************************************)
LEMMA Consumed ==
    TypeOK /\ RequestsUnique /\ cq # << >> /\ cq' = Tail(cq) =>
        /\ Head(cq) \in Cqe /\ Head(cq).req \in Requests
        /\ cq' \in Seq(Cqe)
        /\ \A r : HasFinal(cq, r) <=> HasFinal(cq', r) \/ (r = Head(cq).req /\ ~Head(cq).more)
        /\ \A r : HasMore(cq', r) => HasMore(cq, r)
        /\ FinalIsLast(cq')
        /\ \A i \in 1..Len(cq') : cq'[i].more => cq'[i].res = "data"
        /\ Head(cq).more =>
             /\ Head(cq).res = "data" /\ Head(cq).req.op = "read"
             /\ InFlight(Head(cq).req) \/ InCq(Head(cq).req)
        /\ ~Head(cq).more =>
             /\ InCq(Head(cq).req)
             /\ ~InSq(Head(cq).req) /\ ~InFlight(Head(cq).req)
             /\ ~HasFinal(cq', Head(cq).req) /\ ~HasMore(cq', Head(cq).req)
<1> SUFFICES ASSUME TypeOK, RequestsUnique, cq # << >>, cq' = Tail(cq)
             PROVE  Consumed!2
  OBVIOUS
<1>1. cq \in Seq(Cqe)
  BY DEF TypeOK
<1>2. /\ cq' \in Seq(Cqe) /\ Head(cq) \in Cqe
      /\ \A r : HasFinal(cq, r) <=> HasFinal(cq', r) \/ (r = Head(cq).req /\ ~Head(cq).more)
      /\ \A r : HasMore(cq', r) => HasMore(cq, r)
      /\ Head(cq).more => HasMore(cq, Head(cq).req)
      /\ FinalIsLast(cq')
      /\ ~Head(cq).more => ~HasFinal(cq', Head(cq).req) /\ ~HasMore(cq', Head(cq).req)
      /\ \A i \in 1..Len(cq') : cq'[i].more => cq'[i].res = "data"
      /\ Head(cq).more => Head(cq).res = "data"
  <2>1. FinalIsLast(cq) /\ \A i \in 1..Len(cq) : cq[i].more => cq[i].res = "data"
    BY DEF RequestsUnique
  <2> QED
    BY <1>1, <2>1, TailCqe
<1>3. Head(cq).req \in Requests
  BY <1>2 DEF Cqe
<1>4. Head(cq).more => /\ Head(cq).req.op = "read"
                       /\ InFlight(Head(cq).req) \/ InCq(Head(cq).req)
  BY <1>2, <1>3 DEF RequestsUnique
<1>5. ~Head(cq).more => InCq(Head(cq).req) /\ ~InSq(Head(cq).req) /\ ~InFlight(Head(cq).req)
  BY <1>2, <1>3 DEF RequestsUnique, InCq
<1> QED
  BY <1>2, <1>3, <1>4, <1>5

\* A completed send was counted, and its WriteResponse in use.
LEMMA SentWasCounted ==
    ASSUME LifetimeInv, Handling("write"), Consume
    PROVE  LET s == Head(cq).req.ses
               w == Head(cq).req.wr
           IN /\ s \in live /\ w \in WrIds /\ Head(cq).req = WriteReq(s, w)
              /\ w \in sess[s].inuse /\ ~Head(cq).more
              /\ sess[s].pw - 1 \in Nat
              /\ sess[s].pw - 1 = Cardinality(sess[s].inuse \ {w})
<1> DEFINE s == Head(cq).req.ses
           w == Head(cq).req.wr
<1>1. /\ Head(cq).req \in Requests /\ ~Head(cq).more
      /\ InCq(Head(cq).req)
  <2>1. TypeOK /\ RequestsUnique
    BY DEF LifetimeInv
  <2>2. cq # << >> /\ cq' = Tail(cq) /\ Head(cq).req.op = "write"
    BY DEF Handling, Consume
  <2>3. /\ Head(cq).req \in Requests
        /\ Head(cq).more => Head(cq).req.op = "read"
        /\ ~Head(cq).more => InCq(Head(cq).req)
    BY <2>1, <2>2, Consumed
  <2> QED
    BY <2>2, <2>3
<1>2. s \in Sessions /\ w \in WrIds /\ Head(cq).req = WriteReq(s, w)
  BY <1>1, KindOf DEF Handling
<1>3. w \in sess[s].inuse
  BY <1>1, <1>2 DEF LifetimeInv, WritesAccounted, Outstanding
<1>4. s \in live
  BY <1>2, <1>3 DEF LifetimeInv, FreeIsBlank, FreeSession
<1>5. sess[s].inuse \subseteq WrIds /\ IsFiniteSet(WrIds)
  <2>1. sess[s] \in Session
    BY <1>2 DEF LifetimeInv, TypeOK
  <2>2. IsFiniteSet(Pool) /\ IsFiniteSet(Heap)
    BY ServerAssumption, FS_Interval DEF Pool, Heap
  <2> QED
    BY <2>1, <2>2, FS_Union DEF Session, WrIds
<1>6. IsFiniteSet(sess[s].inuse)
  BY <1>5, FS_Subset
<1>7. /\ Cardinality(sess[s].inuse \ {w}) = Cardinality(sess[s].inuse) - 1
      /\ Cardinality(sess[s].inuse \ {w}) \in Nat
  BY <1>3, <1>6, FS_RemoveElement, FS_CardinalityType
<1>8. sess[s].pw = Cardinality(sess[s].inuse)
  BY <1>2 DEF LifetimeInv, WritesAccounted
<1> QED
  BY <1>1, <1>2, <1>3, <1>4, <1>7, <1>8

\* The free slot get_write_response returns is a slot, and was free.
LEMMA SlotWasFree ==
    ASSUME NEW s \in Sessions, NEW w \in GetWriteResponse(s)
    PROVE  w \in WrIds /\ w \notin sess[s].inuse
  BY DEF GetWriteResponse, FreeSlots, WrIds

-------------------------------------------------------------------------------
(***************************************************************************)
(* How each way of changing the rings changes what is outstanding, and     *)
(* that each keeps requests unique.                                        *)
(***************************************************************************)
LEMMA RingsUnchanged ==
    UNCHANGED <<sq, flight, cq>> =>
        /\ RequestsUnique => RequestsUnique'
        /\ \A r : Outstanding(r)' <=> Outstanding(r)
  BY DEF RequestsUnique, Outstanding, InSq, InFlight, InCq

\* A request with a completion "with more" is outstanding.
LEMMA MoreIsOutstanding ==
    ASSUME RequestsUnique, NEW r \in Requests, HasMore(cq, r)
    PROVE  Outstanding(r)
  BY DEF RequestsUnique, Outstanding

\* A handler takes the oldest completion.
LEMMA RingsConsume ==
    TypeOK /\ RequestsUnique /\ cq # << >> /\ cq' = Tail(cq) /\ UNCHANGED <<sq, flight>> =>
        /\ RequestsUnique'
        /\ \A r : Outstanding(r)' <=> Outstanding(r) /\ (Head(cq).more \/ r # Head(cq).req)
<1> SUFFICES ASSUME TypeOK, RequestsUnique, cq # << >>, cq' = Tail(cq), UNCHANGED <<sq, flight>>
             PROVE  /\ RequestsUnique'
                    /\ \A r : Outstanding(r)' <=>
                              Outstanding(r) /\ (Head(cq).more \/ r # Head(cq).req)
  OBVIOUS
<1> DEFINE c == Head(cq)
<1>1. /\ c \in Cqe /\ c.req \in Requests
      /\ \A r : HasFinal(cq, r) <=> HasFinal(cq', r) \/ (r = c.req /\ ~c.more)
      /\ \A r : HasMore(cq', r) => HasMore(cq, r)
      /\ FinalIsLast(cq')
      /\ \A i \in 1..Len(cq') : cq'[i].more => cq'[i].res = "data"
      /\ ~c.more => /\ ~InSq(c.req) /\ ~InFlight(c.req)
                    /\ ~HasFinal(cq', c.req) /\ ~HasMore(cq', c.req)
  BY Consumed
<1>2. /\ \A r : InSq(r)' <=> InSq(r)
      /\ \A r : InFlight(r)' <=> InFlight(r)
      /\ \A r : InCq(r)' <=> HasFinal(cq', r)
  BY DEF InSq, InFlight, InCq
<1>3. \A r : Outstanding(r)' <=> Outstanding(r) /\ (c.more \/ r # c.req)
  BY <1>1, <1>2 DEF Outstanding, InCq
<1>4. ASSUME NEW r \in Requests
      PROVE  /\ ~(InSq(r)' /\ InFlight(r)')
             /\ ~(InCq(r)' /\ (InSq(r)' \/ InFlight(r)'))
             /\ HasMore(cq', r) => r.op = "read" /\ (InFlight(r)' \/ InCq(r)')
  <2>1. /\ ~(InSq(r) /\ InFlight(r))
        /\ ~(InCq(r) /\ (InSq(r) \/ InFlight(r)))
        /\ HasMore(cq, r) => r.op = "read" /\ (InFlight(r) \/ InCq(r))
    BY DEF RequestsUnique
  <2> QED
    BY <1>1, <1>2, <2>1 DEF InCq
<1>5. DistinctReqs(sq') /\ \A f, g \in flight' : f.req = g.req => f = g
  BY DEF RequestsUnique
<1> QED
  BY <1>1, <1>3, <1>4, <1>5 DEF RequestsUnique

\* The worker prepares a submission for a request that is not outstanding.
LEMMA RingsPrepare ==
    ASSUME NEW r0 \in Requests, NEW fd \in Fds \cup {None},
           TypeOK, RequestsUnique, ~Outstanding(r0),
           sq' = Append(sq, [req |-> r0, fd |-> fd]), UNCHANGED <<flight, cq>>
    PROVE  /\ RequestsUnique'
           /\ \A r : Outstanding(r)' <=> Outstanding(r) \/ r = r0
<1> DEFINE e == [req |-> r0, fd |-> fd]
<1>1. e \in Sqe /\ sq \in Seq(Sqe) /\ e.req = r0
  BY DEF Sqe, TypeOK
<1>2. /\ \A r : HasReq(sq', r) <=> HasReq(sq, r) \/ r = r0
      /\ DistinctReqs(sq) /\ ~HasReq(sq, r0) => DistinctReqs(sq')
  BY <1>1, AppendReq
<1>3. /\ \A r : InSq(r)' <=> InSq(r) \/ r = r0
      /\ \A r : InFlight(r)' <=> InFlight(r)
      /\ \A r : InCq(r)' <=> InCq(r)
  BY <1>2 DEF InSq, InFlight, InCq
<1>4. \A r : Outstanding(r)' <=> Outstanding(r) \/ r = r0
  BY <1>3 DEF Outstanding
<1>5. ASSUME NEW r \in Requests
      PROVE  /\ ~(InSq(r)' /\ InFlight(r)')
             /\ ~(InCq(r)' /\ (InSq(r)' \/ InFlight(r)'))
             /\ HasMore(cq', r) => r.op = "read" /\ (InFlight(r)' \/ InCq(r)')
  <2>1. /\ ~(InSq(r) /\ InFlight(r))
        /\ ~(InCq(r) /\ (InSq(r) \/ InFlight(r)))
        /\ HasMore(cq, r) => r.op = "read" /\ (InFlight(r) \/ InCq(r))
    BY DEF RequestsUnique
  <2> QED
    BY <1>3, <2>1 DEF Outstanding
<1>6. DistinctReqs(sq')
  BY <1>2 DEF RequestsUnique, Outstanding, InSq
<1> QED
  BY <1>4, <1>5, <1>6 DEF RequestsUnique

\* A handler takes the oldest completion and prepares a submission.
LEMMA RingsConsumePrepare ==
    ASSUME NEW r0 \in Requests, NEW fd \in Fds \cup {None},
           TypeOK, RequestsUnique, cq # << >>, cq' = Tail(cq),
           Outstanding(r0) => r0 = Head(cq).req /\ ~Head(cq).more,
           sq' = Append(sq, [req |-> r0, fd |-> fd]), UNCHANGED flight
    PROVE  /\ RequestsUnique'
           /\ \A r : Outstanding(r)' <=>
                     (Outstanding(r) /\ (Head(cq).more \/ r # Head(cq).req)) \/ r = r0
<1> DEFINE e == [req |-> r0, fd |-> fd]
           c == Head(cq)
<1>1. e \in Sqe /\ sq \in Seq(Sqe) /\ e.req = r0
  BY DEF Sqe, TypeOK
<1>2. /\ \A r : HasReq(sq', r) <=> HasReq(sq, r) \/ r = r0
      /\ DistinctReqs(sq) /\ ~HasReq(sq, r0) => DistinctReqs(sq')
  BY <1>1, AppendReq
<1>3. /\ c \in Cqe /\ c.req \in Requests
      /\ \A r : HasFinal(cq, r) <=> HasFinal(cq', r) \/ (r = c.req /\ ~c.more)
      /\ \A r : HasMore(cq', r) => HasMore(cq, r)
      /\ FinalIsLast(cq')
      /\ \A i \in 1..Len(cq') : cq'[i].more => cq'[i].res = "data"
      /\ ~c.more => /\ ~InSq(c.req) /\ ~InFlight(c.req)
                    /\ ~HasFinal(cq', c.req) /\ ~HasMore(cq', c.req)
  BY Consumed
<1>4. /\ \A r : InSq(r)' <=> InSq(r) \/ r = r0
      /\ \A r : InFlight(r)' <=> InFlight(r)
      /\ \A r : InCq(r)' <=> HasFinal(cq', r)
  BY <1>2 DEF InSq, InFlight, InCq
<1>5. \A r : Outstanding(r)' <=> (Outstanding(r) /\ (c.more \/ r # c.req)) \/ r = r0
  BY <1>3, <1>4 DEF Outstanding, InCq
<1>6. ~InSq(r0) /\ ~InFlight(r0) /\ ~HasFinal(cq', r0) /\ ~HasMore(cq', r0)
  <2>1. CASE Outstanding(r0)
    BY <1>3, <2>1
  <2>2. CASE ~Outstanding(r0)
    BY <1>3, <2>2, MoreIsOutstanding DEF Outstanding, InCq
  <2> QED
    BY <2>1, <2>2
<1>7. ASSUME NEW r \in Requests
      PROVE  /\ ~(InSq(r)' /\ InFlight(r)')
             /\ ~(InCq(r)' /\ (InSq(r)' \/ InFlight(r)'))
             /\ HasMore(cq', r) => r.op = "read" /\ (InFlight(r)' \/ InCq(r)')
  <2>1. /\ ~(InSq(r) /\ InFlight(r))
        /\ ~(InCq(r) /\ (InSq(r) \/ InFlight(r)))
        /\ HasMore(cq, r) => r.op = "read" /\ (InFlight(r) \/ InCq(r))
    BY DEF RequestsUnique
  <2> QED
    BY <1>3, <1>4, <1>6, <2>1 DEF InCq
<1>8. DistinctReqs(sq') /\ \A f, g \in flight' : f.req = g.req => f = g
  BY <1>2, <1>6 DEF RequestsUnique, InSq
<1> QED
  BY <1>3, <1>5, <1>7, <1>8 DEF RequestsUnique

\* The kernel takes the oldest submission: executes it, or fails it at once.
LEMMA RingsTake ==
    ASSUME TypeOK, RequestsUnique, Take
    PROVE  /\ RequestsUnique'
           /\ \A r : Outstanding(r)' <=> Outstanding(r)
<1> PICK e : e = Head(sq)
  OBVIOUS
<1> PICK file : file = IF e.fd = None THEN None ELSE fdtab[e.fd]
  OBVIOUS
<1>1. /\ sq \in Seq(Sqe) /\ sq # << >> /\ sq' = Tail(sq) /\ cq \in Seq(Cqe)
  BY DEF TypeOK, Take
<1>2. /\ e \in Sqe
      /\ \A r : HasReq(sq, r) <=> HasReq(sq', r) \/ r = e.req
      /\ DistinctReqs(sq) => DistinctReqs(sq') /\ ~HasReq(sq', e.req)
  BY <1>1, TailReq
<1>3. e.req \in Requests /\ InSq(e.req) /\ DistinctReqs(sq)
  BY <1>2 DEF Sqe, InSq, RequestsUnique
<1>4. ~InFlight(e.req) /\ ~InCq(e.req) /\ ~HasMore(cq, e.req)
  BY <1>3 DEF RequestsUnique
<1>5. /\ \A r : InSq(r) <=> InSq(r)' \/ r = e.req
      /\ ~InSq(e.req)' /\ DistinctReqs(sq')
  BY <1>2, <1>3 DEF InSq
<1>6. CASE flight' = flight \cup {[req |-> e.req, conn |-> file]} /\ UNCHANGED cq
  <2>1. \A r : InFlight(r)' <=> InFlight(r) \/ r = e.req
    <3>1. PICK g : g = [req |-> e.req, conn |-> file]
      OBVIOUS
    <3>2. g.req = e.req /\ flight' = flight \cup {g}
      BY <1>6, <3>1
    <3> QED
      BY <3>2, Zenon DEF InFlight
  <2>2. /\ \A r : InCq(r)' <=> InCq(r)
        /\ \A r : HasMore(cq', r) <=> HasMore(cq, r)
        /\ FinalIsLast(cq') /\ \A i \in 1..Len(cq') : cq'[i].more => cq'[i].res = "data"
    BY <1>6 DEF InCq, RequestsUnique
  <2>3. \A f, g \in flight' : f.req = g.req => f = g
    BY <1>4, <1>6 DEF InFlight, RequestsUnique
  <2>4. \A r : Outstanding(r)' <=> Outstanding(r)
    BY <1>5, <2>1, <2>2 DEF Outstanding
  <2>5. ASSUME NEW r \in Requests
        PROVE  /\ ~(InSq(r)' /\ InFlight(r)')
               /\ ~(InCq(r)' /\ (InSq(r)' \/ InFlight(r)'))
               /\ HasMore(cq', r) => r.op = "read" /\ (InFlight(r)' \/ InCq(r)')
    <3>1. /\ ~(InSq(r) /\ InFlight(r))
          /\ ~(InCq(r) /\ (InSq(r) \/ InFlight(r)))
          /\ HasMore(cq, r) => r.op = "read" /\ (InFlight(r) \/ InCq(r))
      BY DEF RequestsUnique
    <3> QED
      BY <1>4, <1>5, <2>1, <2>2, <3>1
  <2> QED
    BY <1>5, <2>2, <2>3, <2>4, <2>5 DEF RequestsUnique
<1>7. CASE /\ cq' = Append(cq, Done(e.req, IF e.req.op = "read" THEN "end" ELSE "err"))
           /\ UNCHANGED flight
  <2> DEFINE d == Done(e.req, IF e.req.op = "read" THEN "end" ELSE "err")
  <2>1. d \in Cqe /\ d.req = e.req /\ ~d.more
    <3>1. CASE e.req.op = "read"
      <4>1. d = Done(e.req, "end")
        BY <3>1
      <4> HIDE DEF d
      <4> QED
        BY <1>3, <4>1, DoneEnds
    <3>2. CASE e.req.op # "read"
      <4>1. d = Done(e.req, "err")
        BY <3>2
      <4> HIDE DEF d
      <4> QED
        BY <1>3, <4>1, DoneEnds
    <3> QED
      BY <3>1, <3>2
  <2> HIDE DEF d
  <2>2. /\ \A r : HasFinal(cq', r) <=> HasFinal(cq, r) \/ (r = d.req /\ ~d.more)
        /\ \A r : HasMore(cq', r) <=> HasMore(cq, r) \/ (r = d.req /\ d.more)
        /\ FinalIsLast(cq) /\ ~HasFinal(cq, d.req) => FinalIsLast(cq')
        /\ (\A i \in 1..Len(cq) : cq[i].more => cq[i].res = "data") /\ (d.more => d.res = "data")
             => \A i \in 1..Len(cq') : cq'[i].more => cq'[i].res = "data"
    <3>1. cq' = Append(cq, d)
      BY <1>7 DEF d
    <3> QED
      BY <1>1, <2>1, <3>1, AppendCqe
  <2>3. /\ \A r : InCq(r)' <=> InCq(r) \/ r = e.req
        /\ \A r : HasMore(cq', r) <=> HasMore(cq, r)
        /\ \A r : InFlight(r)' <=> InFlight(r)
        /\ FinalIsLast(cq') /\ \A i \in 1..Len(cq') : cq'[i].more => cq'[i].res = "data"
        /\ \A f, g \in flight' : f.req = g.req => f = g
    BY <1>4, <1>7, <2>1, <2>2 DEF InCq, InFlight, RequestsUnique
  <2>4. \A r : Outstanding(r)' <=> Outstanding(r)
    BY <1>5, <2>3 DEF Outstanding
  <2>5. ASSUME NEW r \in Requests
        PROVE  /\ ~(InSq(r)' /\ InFlight(r)')
               /\ ~(InCq(r)' /\ (InSq(r)' \/ InFlight(r)'))
               /\ HasMore(cq', r) => r.op = "read" /\ (InFlight(r)' \/ InCq(r)')
    <3>1. /\ ~(InSq(r) /\ InFlight(r))
          /\ ~(InCq(r) /\ (InSq(r) \/ InFlight(r)))
          /\ HasMore(cq, r) => r.op = "read" /\ (InFlight(r) \/ InCq(r))
      BY DEF RequestsUnique
    <3> QED
      BY <1>4, <1>5, <2>3, <3>1
  <2> QED
    BY <1>5, <2>3, <2>4, <2>5 DEF RequestsUnique
<1> QED
  BY <1>6, <1>7 DEF Take, Post

\* The kernel completes an executing request for good, or a read once more.
LEMMA RingsComplete ==
    ASSUME NEW f \in flight, NEW e \in Cqe, TypeOK, RequestsUnique,
           e.req = f.req, cq' = Append(cq, e), UNCHANGED sq,
           e.more => e.res = "data" /\ e.req.op = "read",
           flight' = IF e.more THEN flight ELSE flight \ {f}
    PROVE  /\ RequestsUnique'
           /\ \A r : Outstanding(r)' <=> Outstanding(r)
<1>1. cq \in Seq(Cqe) /\ f.req \in Requests /\ InFlight(f.req) /\ e.more \in BOOLEAN
  BY DEF TypeOK, Flight, InFlight, Cqe
<1>2. ~InSq(f.req) /\ ~InCq(f.req)
  BY <1>1 DEF RequestsUnique
<1>3. /\ \A r : HasFinal(cq', r) <=> HasFinal(cq, r) \/ (r = e.req /\ ~e.more)
      /\ \A r : HasMore(cq', r) <=> HasMore(cq, r) \/ (r = e.req /\ e.more)
      /\ FinalIsLast(cq) /\ ~HasFinal(cq, e.req) => FinalIsLast(cq')
      /\ (\A i \in 1..Len(cq) : cq[i].more => cq[i].res = "data") /\ (e.more => e.res = "data")
           => \A i \in 1..Len(cq') : cq'[i].more => cq'[i].res = "data"
  BY <1>1, AppendCqe
<1>4. /\ \A r : InSq(r)' <=> InSq(r)
      /\ \A r : InFlight(r)' <=> InFlight(r) /\ (e.more \/ r # f.req)
      /\ \A r : InCq(r)' <=> InCq(r) \/ (~e.more /\ r = f.req)
  <2>1. \A r : InFlight(r)' <=> InFlight(r) /\ (e.more \/ r # f.req)
    <3>1. CASE e.more
      BY <3>1 DEF InFlight
    <3>2. CASE ~e.more
      BY <3>2 DEF InFlight, RequestsUnique
    <3> QED
      BY <3>1, <3>2
  <2> QED
    BY <1>3, <2>1 DEF InSq, InCq
<1>5. \A r : Outstanding(r)' <=> Outstanding(r)
  BY <1>1, <1>4 DEF Outstanding
<1>6. /\ FinalIsLast(cq') /\ \A i \in 1..Len(cq') : cq'[i].more => cq'[i].res = "data"
      /\ DistinctReqs(sq') /\ \A h, g \in flight' : h.req = g.req => h = g
  BY <1>2, <1>3 DEF InCq, RequestsUnique
<1>7. ASSUME NEW r \in Requests
      PROVE  /\ ~(InSq(r)' /\ InFlight(r)')
             /\ ~(InCq(r)' /\ (InSq(r)' \/ InFlight(r)'))
             /\ HasMore(cq', r) => r.op = "read" /\ (InFlight(r)' \/ InCq(r)')
  <2>1. /\ ~(InSq(r) /\ InFlight(r))
        /\ ~(InCq(r) /\ (InSq(r) \/ InFlight(r)))
        /\ HasMore(cq, r) => r.op = "read" /\ (InFlight(r) \/ InCq(r))
    BY DEF RequestsUnique
  <2> QED
    BY <1>1, <1>2, <1>3, <1>4, <2>1
<1> QED
  BY <1>5, <1>6, <1>7 DEF RequestsUnique

-------------------------------------------------------------------------------
(***************************************************************************)
(* Type correctness of each step.                                          *)
(***************************************************************************)
LEMMA TypeInit == Init => TypeOK
<1> SUFFICES ASSUME Init PROVE TypeOK
  OBVIOUS
<1> USE DEF Init, TypeOK
<1>1. FreeSession \in Session /\ NoRead \in [ses : Sessions \cup {None}, more : BOOLEAN,
                                              buf : Buffers \cup {None}, n : Nat]
  BY DEF FreeSession, Session, NoRead
<1>2. sq \in Seq(Sqe) /\ Len(sq) = 2
  <2>1. /\ [req |-> AcceptReq, fd |-> None] \in Sqe
        /\ [req |-> SignalReq, fd |-> None] \in Sqe
    BY RequestKinds DEF Sqe
  <2> QED
    BY <2>1
<1> QED
  BY <1>1, <1>2, ServerAssumption

\* A session record stays one when cleanup_session_if_needed is done with it.
LEMMA CleanupTyped ==
    ASSUME TypeOK, NEW s \in Sessions, NEW S \in Session, Cleanup(s, S)
    PROVE  /\ sess' \in [Sessions -> Session] /\ live' \subseteq Sessions
           /\ fdtab' \in [Fds -> Conns \cup {None}]
<1>1. FreeSession \in Session /\ ForgetFd(S) \in Session
  BY DEF FreeSession, ForgetFd, Session
<1> QED
  BY <1>1 DEF Cleanup, TypeOK

\* A prepared submission leaves the submission ring well formed.
LEMMA PrepareTyped ==
    ASSUME TypeOK, NEW r \in Requests, NEW fd \in Fds \cup {None},
           sq' = Append(sq, [req |-> r, fd |-> fd]),
           submitted' \in {submitted, Len(sq) + 1}
    PROVE  sq' \in Seq(Sqe) /\ submitted' \in 0..Len(sq')
<1>1. [req |-> r, fd |-> fd] \in Sqe
  BY DEF Sqe
<1> QED
  BY <1>1 DEF TypeOK

\* The completion a handler consumes, and the session it belongs to.
LEMMA HandledTyped ==
    ASSUME LifetimeInv, NEW op \in {"accept", "signal", "read", "write"},
           Handling(op), Consume
    PROVE  /\ Head(cq) \in Cqe /\ Head(cq).req \in Requests /\ Head(cq).req.op = op
           /\ cq' \in Seq(Cqe) /\ batch' \in Nat
           /\ op \in {"read", "write"} => Head(cq).req.ses \in Sessions
<1>1. TypeOK /\ RequestsUnique /\ cq # << >> /\ cq' = Tail(cq) /\ Head(cq).req.op = op
  BY DEF LifetimeInv, Handling, Consume
<1>2. Head(cq) \in Cqe /\ Head(cq).req \in Requests /\ cq' \in Seq(Cqe)
  BY <1>1, Consumed
<1>3. batch' \in Nat
  BY DEF LifetimeInv, TypeOK, Handling, Consume
<1> QED
  BY <1>1, <1>2, <1>3, KindOf

LEMMA TypeWorker == LifetimeInv /\ Worker => TypeOK'
<1> SUFFICES ASSUME LifetimeInv, Worker PROVE TypeOK'
  OBVIOUS
<1>0. TypeOK
  BY DEF LifetimeInv
<1>1. CASE SpinForSqe
  BY <1>0, <1>1 DEF SpinForSqe, TypeOK, worker, memory, client
<1>2. CASE PeekBatch
  BY <1>0, <1>2, ServerAssumption DEF PeekBatch, TypeOK, memory, ring, client
<1>3. CASE HandleSignal
  BY <1>0, <1>3, HandledTyped DEF HandleSignal, TypeOK, memory, client, Handling
<1>4. CASE HandleAccept
  <2>1. Head(cq) \in Cqe /\ cq' \in Seq(Cqe) /\ batch' \in Nat
    BY <1>4, HandledTyped DEF HandleAccept
  <2>2. Head(cq).fd \in Fds \cup {None}
    BY <2>1 DEF Cqe
  <2>3. /\ live' \subseteq Sessions /\ sess' \in [Sessions -> Session]
        /\ fdtab' \in [Fds -> Conns \cup {None}]
        /\ sq' \in Seq(Sqe) /\ submitted' \in 0..Len(sq')
    <3>1. CASE UNCHANGED <<live, sess, sq, submitted>>
      BY <1>0, <1>4, <3>1 DEF HandleAccept, TypeOK
    <3>2. ASSUME NEW s \in Sessions \ live, Head(cq).fd # None,
                 live' = live \cup {s}, sess' = [sess EXCEPT ![s] = NewSession(Head(cq).fd)],
                 Prepare(ReadReq(s), Head(cq).fd), UNCHANGED fdtab
          PROVE  /\ live' \subseteq Sessions /\ sess' \in [Sessions -> Session]
                 /\ fdtab' \in [Fds -> Conns \cup {None}]
                 /\ sq' \in Seq(Sqe) /\ submitted' \in 0..Len(sq')
      <4>1. NewSession(Head(cq).fd) \in Session
        BY <1>0, <2>2, <3>2 DEF NewSession, FreeSession, Session, TypeOK
      <4>2. sq' \in Seq(Sqe) /\ submitted' \in 0..Len(sq')
        BY <1>0, <2>2, <3>2, RequestKinds, PrepareTyped DEF Prepare
      <4> QED
        BY <1>0, <3>2, <4>1, <4>2 DEF TypeOK
    <3> QED
      BY <1>4, <3>1, <3>2 DEF HandleAccept
  <2> QED
    BY <1>0, <1>4, <2>1, <2>3 DEF HandleAccept, AfterAccept, TypeOK, client, Handling
<1>5. CASE RearmAccept
  <2>1. sq' \in Seq(Sqe) /\ submitted' \in 0..Len(sq')
    BY <1>0, <1>5, RequestKinds, PrepareTyped DEF RearmAccept, Prepare
  <2> QED
    BY <1>0, <1>5, <2>1 DEF RearmAccept, TypeOK, memory, client
<1>6. ASSUME Handling("read"), Consume
      PROVE  /\ Head(cq) \in Cqe /\ cq' \in Seq(Cqe) /\ batch' \in Nat
             /\ Head(cq).req.ses \in Sessions
             /\ AfterRead(Head(cq)) \in Session
             /\ Head(cq).more \in BOOLEAN /\ Head(cq).buf \in Buffers \cup {None}
  <2>1. /\ Head(cq) \in Cqe /\ cq' \in Seq(Cqe) /\ batch' \in Nat
        /\ Head(cq).req.ses \in Sessions
    BY <1>6, HandledTyped
  <2>2. sess[Head(cq).req.ses] \in Session
    BY <1>0, <2>1 DEF TypeOK
  <2> QED
    BY <2>1, <2>2 DEF AfterRead, Session, Cqe
<1>7. CASE HandleReadEnd
  <2>1. [AfterRead(Head(cq)) EXCEPT !.closing = TRUE] \in Session
    BY <1>6, <1>7 DEF HandleReadEnd, Session
  <2>2. /\ sess' \in [Sessions -> Session] /\ live' \subseteq Sessions
        /\ fdtab' \in [Fds -> Conns \cup {None}]
    BY <1>0, <1>6, <1>7, <2>1, CleanupTyped DEF HandleReadEnd
  <2>3. bring' \subseteq Buffers
    BY <1>0, <1>6, <1>7 DEF HandleReadEnd, ReturnBuffer, TypeOK
  <2> QED
    BY <1>0, <1>6, <1>7, <2>2, <2>3 DEF HandleReadEnd, TypeOK, client, Handling
<1>8. CASE HandleReadNoBufs
  <2> DEFINE s == Head(cq).req.ses
  <2>1. s \in Sessions /\ [AfterRead(Head(cq)) EXCEPT !.recv = TRUE] \in Session
    BY <1>6, <1>8 DEF HandleReadNoBufs, Session
  <2>2. sess[s].fd \in Fds \cup {None}
    BY <1>0, <2>1 DEF TypeOK, Session
  <2>3. sq' \in Seq(Sqe) /\ submitted' \in 0..Len(sq')
    BY <1>0, <1>8, <2>1, <2>2, RequestKinds, PrepareTyped DEF HandleReadNoBufs, Prepare
  <2> QED
    BY <1>0, <1>6, <1>8, <2>1, <2>3 DEF HandleReadNoBufs, TypeOK, client, Handling
<1>9. CASE HandleReadData
  BY <1>0, <1>6, <1>9 DEF HandleReadData, TypeOK, client, Handling
<1>10. CASE Reply
  <2>1. PICK w \in GetWriteResponse(cur.ses) :
            /\ sess' = [sess EXCEPT ![cur.ses] = Sending(cur.ses, w)]
            /\ Submit(WriteReq(cur.ses, w), sess[cur.ses].fd)
    BY <1>10 DEF Reply
  <2>2. cur.ses \in Sessions /\ w \in WrIds
    BY <1>0, <1>10, SlotWasFree DEF Reply, TypeOK
  <2>3. sess[cur.ses] \in Session
    BY <1>0, <2>2 DEF TypeOK
  <2>4. Sending(cur.ses, w) \in Session /\ sess[cur.ses].fd \in Fds \cup {None}
    <3>1. PICK S \in Session : S = sess[cur.ses]
      BY <2>3
    <3>2. S.pw + 1 \in Nat /\ S.inuse \cup {w} \in SUBSET WrIds
      BY <2>2 DEF Session
    <3>3. [S EXCEPT !.inuse = S.inuse \cup {w}, !.pw = S.pw + 1] \in Session
      BY <3>2 DEF Session
    <3> QED
      BY <3>1, <3>3 DEF Sending, Session
  <2>5. sq' \in Seq(Sqe) /\ submitted' \in 0..Len(sq')
    BY <1>0, <2>1, <2>2, <2>4, RequestKinds, PrepareTyped DEF Submit
  <2>6. cur' \in [ses : Sessions \cup {None}, more : BOOLEAN, buf : Buffers \cup {None}, n : Nat]
        /\ cur'.ses = cur.ses
    <3>1. cur \in [ses : Sessions \cup {None}, more : BOOLEAN, buf : Buffers \cup {None}, n : Nat]
      BY <1>0 DEF TypeOK
    <3>2. cur' = [cur EXCEPT !.n = cur.n + 1]
      BY <1>10 DEF Reply
    <3> QED
      BY <3>1, <3>2
  <2>7. sess' \in [Sessions -> Session]
    BY <1>0, <2>1, <2>2, <2>4 DEF TypeOK
  <2> QED
    BY <1>0, <1>10, <2>2, <2>5, <2>6, <2>7 DEF Reply, TypeOK, client
<1>11. CASE Reject
  <2>1. cur.ses \in Sessions /\ sess[cur.ses] \in Session
    BY <1>0, <1>11 DEF Reject, TypeOK
  <2>2. sess' \in [Sessions -> Session]
    BY <1>0, <1>11, <2>1 DEF Reject, TypeOK, Session
  <2> QED
    BY <1>0, <1>11, <2>2 DEF Reject, TypeOK, worker, ring, client
<1>12. CASE FinishRead
  <2>1. cur.ses \in Sessions /\ sess[cur.ses] \in Session
    BY <1>0, <1>12 DEF FinishRead, TypeOK
  <2>2. bring' \subseteq Buffers
    BY <1>0, <1>12 DEF FinishRead, ReturnBuffer, TypeOK
  <2>3. cur' \in [ses : Sessions \cup {None}, more : BOOLEAN, buf : Buffers \cup {None}, n : Nat]
    BY <1>12 DEF FinishRead, NoRead
  <2>4. /\ sess' \in [Sessions -> Session] /\ live' \subseteq Sessions
        /\ fdtab' \in [Fds -> Conns \cup {None}]
        /\ sq' \in Seq(Sqe) /\ submitted' \in 0..Len(sq')
    <3>1. CASE UNCHANGED <<live, sess, fdtab, sq, submitted>>
      BY <1>0, <3>1 DEF TypeOK
    <3>2. CASE /\ sess' = [sess EXCEPT ![cur.ses].recv = TRUE]
               /\ Prepare(ReadReq(cur.ses), sess[cur.ses].fd) /\ UNCHANGED <<live, fdtab>>
      <4>1. sess[cur.ses].fd \in Fds \cup {None} /\ sess' \in [Sessions -> Session]
        BY <1>0, <2>1, <3>2 DEF TypeOK, Session
      <4>2. sq' \in Seq(Sqe) /\ submitted' \in 0..Len(sq')
        BY <1>0, <2>1, <3>2, <4>1, RequestKinds, PrepareTyped DEF Prepare
      <4> QED
        BY <1>0, <3>2, <4>1, <4>2 DEF TypeOK
    <3>3. CASE Cleanup(cur.ses, sess[cur.ses]) /\ UNCHANGED <<sq, submitted>>
      BY <1>0, <2>1, <3>3, CleanupTyped DEF TypeOK
    <3> QED
      BY <1>12, <3>1, <3>2, <3>3 DEF FinishRead
  <2> QED
    BY <1>0, <1>12, <2>2, <2>3, <2>4 DEF FinishRead, TypeOK, client
<1>13. CASE HandleWrite
  <2> DEFINE s == Head(cq).req.ses
  <2>1. Head(cq) \in Cqe /\ cq' \in Seq(Cqe) /\ batch' \in Nat /\ s \in Sessions
    BY <1>13, HandledTyped DEF HandleWrite
  <2>2. sess[s].pw - 1 \in Nat /\ sess[s] \in Session
    BY <1>0, <1>13, <2>1, SentWasCounted DEF HandleWrite, TypeOK
  <2>3. Sent(Head(cq)) \in Session
    BY <2>1, <2>2 DEF Sent, Session
  <2>4. /\ sess' \in [Sessions -> Session] /\ live' \subseteq Sessions
        /\ fdtab' \in [Fds -> Conns \cup {None}]
    BY <1>0, <1>13, <2>1, <2>3, CleanupTyped DEF HandleWrite
  <2> QED
    BY <1>0, <1>13, <2>1, <2>4 DEF HandleWrite, TypeOK, client, Handling
<1>14. CASE EndBatch
  BY <1>0, <1>14 DEF EndBatch, TypeOK, memory, client
<1>15. CASE Exit
  BY <1>0, <1>15 DEF Exit, TypeOK, memory, ring, client
<1> QED
  BY <1>1, <1>2, <1>3, <1>4, <1>5, <1>7, <1>8, <1>9, <1>10, <1>11, <1>12, <1>13,
     <1>14, <1>15 DEF Worker

\* What the kernel and the clients do.
Environment == \/ Take \/ Signal
               \/ \E c \in Conns : Accept(c) \/ Connect(c) \/ Leave(c)
               \/ \E s \in Sessions : Recv(s) \/ \E w \in WrIds : Send(s, w)

\* The kernel posts e for the executing request f: its last completion, or
\* data of a read that goes on.
Completes(f, e) ==
    /\ f \in flight /\ e \in Cqe /\ e.req = f.req
    /\ cq' = Append(cq, e) /\ UNCHANGED <<sq, submitted>>
    /\ e.more => e.res = "data" /\ e.req.op = "read"
    /\ flight' = IF e.more THEN flight ELSE flight \ {f}

\* The kernel posts the last completion of f.
LEMMA CompletesDone ==
    ASSUME NEW f \in flight, NEW e \in Cqe, e.req = f.req, ~e.more, Post(e),
           flight' = flight \ {f}, UNCHANGED <<sq, submitted>>
    PROVE  \E g, c : Completes(g, c)
<1>1. Completes(f, e)
  BY DEF Completes, Post
<1> QED
  BY <1>1

LEMMA SignalCompletes == TypeOK /\ Signal => \E f, e : Completes(f, e)
<1> SUFFICES ASSUME TypeOK, Signal PROVE \E f, e : Completes(f, e)
  OBVIOUS
<1>1. PICK f \in flight : /\ f.req = SignalReq /\ flight' = flight \ {f}
                          /\ Post(Done(SignalReq, "ok"))
  BY DEF Signal
<1>2. Done(SignalReq, "ok") \in Cqe /\ Done(SignalReq, "ok").req = f.req
      /\ ~Done(SignalReq, "ok").more
  <2>1. SignalReq \in Requests /\ f.req = SignalReq
    BY <1>1, RequestKinds
  <2> QED
    BY <2>1, DoneEnds
<1>3. UNCHANGED <<sq, submitted>>
  BY DEF Signal
<1> QED
  BY <1>1, <1>2, <1>3, CompletesDone

LEMMA AcceptCompletes ==
    ASSUME TypeOK, NEW c \in Conns, Accept(c) PROVE \E f, e : Completes(f, e)
<1>1. PICK f \in flight :
         /\ f.req = AcceptReq /\ flight' = flight \ {f}
         /\ \/ \E d \in Fds : Post([Done(AcceptReq, "ok") EXCEPT !.fd = d])
            \/ Post(Done(AcceptReq, "err"))
  BY DEF Accept
<1>2. UNCHANGED <<sq, submitted>>
  BY DEF Accept
<1>3. ASSUME NEW d \in Fds, Post([Done(AcceptReq, "ok") EXCEPT !.fd = d])
      PROVE  \E g, e : Completes(g, e)
  <2>1. PICK e : e = [Done(AcceptReq, "ok") EXCEPT !.fd = d]
    OBVIOUS
  <2>2. e \in Cqe /\ e.req = f.req /\ ~e.more
    BY <1>1, <2>1, RequestKinds DEF Done, Cqe
  <2>3. Post(e)
    BY <1>3, <2>1
  <2> QED
    BY <1>1, <1>2, <2>2, <2>3, CompletesDone
<1>4. CASE Post(Done(AcceptReq, "err"))
  <2>1. PICK e : e = Done(AcceptReq, "err")
    OBVIOUS
  <2>2. e \in Cqe /\ e.req = f.req /\ ~e.more
    <3>1. AcceptReq \in Requests /\ f.req = AcceptReq
      BY <1>1, RequestKinds
    <3> QED
      BY <2>1, <3>1, DoneEnds
  <2>3. Post(e)
    BY <1>4, <2>1
  <2> QED
    BY <1>1, <1>2, <2>2, <2>3, CompletesDone
<1> QED
  BY <1>1, <1>3, <1>4

LEMMA RecvCompletes ==
    ASSUME TypeOK, NEW s \in Sessions, Recv(s) PROVE \E f, e : Completes(f, e)
<1>1. PICK f \in flight :
         /\ f.req = ReadReq(s)
         /\ \/ \E b \in bring, more \in BOOLEAN :
                  /\ Post([Done(f.req, "data") EXCEPT !.buf = b, !.more = more])
                  /\ flight' = IF more THEN flight ELSE flight \ {f}
            \/ Post(Done(f.req, "nobufs")) /\ flight' = flight \ {f}
            \/ /\ \E b \in bring \cup {None} : Post([Done(f.req, "end") EXCEPT !.buf = b])
               /\ flight' = flight \ {f}
  BY DEF Recv
<1>2. UNCHANGED <<sq, submitted>>
  BY DEF Recv
<1>3. f.req \in Requests /\ f.req.op = "read" /\ bring \subseteq Buffers
  <2>1. f.req = ReadReq(s)
    BY <1>1
  <2> QED
    BY <2>1, RequestKinds DEF TypeOK
<1>4. ASSUME NEW b \in bring, NEW more \in BOOLEAN,
             Post([Done(f.req, "data") EXCEPT !.buf = b, !.more = more]),
             flight' = IF more THEN flight ELSE flight \ {f}
      PROVE  \E g, e : Completes(g, e)
  <2>1. PICK e : e = [Done(f.req, "data") EXCEPT !.buf = b, !.more = more]
    OBVIOUS
  <2>2. b \in Buffers
    BY <1>3
  <2>3. e \in Cqe /\ e.req = f.req /\ e.more = more /\ e.res = "data"
    BY <1>3, <2>1, <2>2 DEF Done, Cqe
  <2>4. cq' = Append(cq, e)
    BY <1>4, <2>1 DEF Post
  <2>5. Completes(f, e)
    BY <1>2, <1>3, <1>4, <2>3, <2>4 DEF Completes
  <2> QED
    BY <2>5
<1>5. CASE Post(Done(f.req, "nobufs")) /\ flight' = flight \ {f}
  <2>1. PICK e : e = Done(f.req, "nobufs")
    OBVIOUS
  <2>2. e \in Cqe /\ e.req = f.req /\ ~e.more
    BY <1>3, <2>1, DoneEnds
  <2>3. Post(e) /\ flight' = flight \ {f}
    BY <1>5, <2>1
  <2> QED
    BY <1>2, <2>2, <2>3, CompletesDone
<1>6. ASSUME NEW b \in bring \cup {None}, Post([Done(f.req, "end") EXCEPT !.buf = b]),
             flight' = flight \ {f}
      PROVE  \E g, e : Completes(g, e)
  <2>1. PICK e : e = [Done(f.req, "end") EXCEPT !.buf = b]
    OBVIOUS
  <2>2. b \in Buffers \cup {None}
    BY <1>3
  <2>3. e \in Cqe /\ e.req = f.req /\ ~e.more
    BY <1>3, <2>1, <2>2 DEF Done, Cqe
  <2>4. Post(e)
    BY <1>6, <2>1
  <2> QED
    BY <1>2, <1>6, <2>3, <2>4, CompletesDone
<1> QED
  BY <1>1, <1>4, <1>5, <1>6

LEMMA SendCompletes ==
    ASSUME TypeOK, NEW s \in Sessions, NEW w \in WrIds, Send(s, w)
    PROVE  \E f, e : Completes(f, e)
<1>1. PICK f \in flight : /\ f.req = WriteReq(s, w) /\ flight' = flight \ {f}
                          /\ \E res \in {"ok", "err"} : Post(Done(f.req, res))
  BY DEF Send
<1>2. UNCHANGED <<sq, submitted>>
  BY DEF Send
<1>3. PICK res \in {"ok", "err"} : Post(Done(f.req, res))
  BY <1>1
<1>4. PICK e : e = Done(f.req, res)
  OBVIOUS
<1>5. e \in Cqe /\ e.req = f.req /\ ~e.more
  <2>1. f.req \in Requests
    BY <1>1, RequestKinds
  <2> QED
    BY <2>1, <1>4 DEF Done, Cqe
<1>6. Post(e)
  BY <1>3, <1>4
<1> QED
  BY <1>1, <1>2, <1>5, <1>6, CompletesDone

\* A step of the environment takes a submission, completes an executing
\* request, or leaves the rings alone.
LEMMA EnvironmentOnRings ==
    TypeOK /\ Environment =>
        \/ Take
        \/ \E f, e : Completes(f, e)
        \/ UNCHANGED <<sq, submitted, flight, cq>>
<1> SUFFICES ASSUME TypeOK, Environment
             PROVE  Take \/ (\E f, e : Completes(f, e)) \/ UNCHANGED <<sq, submitted, flight, cq>>
  OBVIOUS
<1>1. ASSUME NEW c \in Conns, Connect(c) \/ Leave(c)
      PROVE  UNCHANGED <<sq, submitted, flight, cq>>
  BY <1>1 DEF Connect, Leave, ring
<1> QED
  BY <1>1, SignalCompletes, AcceptCompletes, RecvCompletes, SendCompletes DEF Environment

\* Everything TypeOK says of what is not in the rings.
RestTyped ==
    /\ running \in BOOLEAN
    /\ pc \in {"wait", "batch", "read", "rearm", "exited"}
    /\ batch \in Nat
    /\ cur \in [ses : Sessions \cup {None}, more : BOOLEAN,
               buf : Buffers \cup {None}, n : Nat]
    /\ pc = "read" => cur.ses \in Sessions
    /\ live \subseteq Sessions
    /\ sess \in [Sessions -> Session]
    /\ fdtab \in [Fds -> Conns \cup {None}]
    /\ bring \subseteq Buffers
    /\ cst \in [Conns -> {"new", "backlog", "up", "gone"}]
    /\ left \in [Conns -> Nat]

LEMMA RestTypedEnvironment ==
    RestTyped /\ Environment => RestTyped' /\ UNCHANGED <<running, pc, cur, live, sess>>
<1> SUFFICES ASSUME RestTyped, Environment
             PROVE  RestTyped' /\ UNCHANGED <<running, pc, cur, live, sess>>
  OBVIOUS
<1>1. CASE Take
  BY <1>1 DEF Take, RestTyped, worker, memory, client
<1>2. CASE Signal
  BY <1>2 DEF Signal, RestTyped, worker, memory, client
<1>3. ASSUME NEW c \in Conns, Accept(c)
      PROVE  RestTyped' /\ UNCHANGED <<running, pc, cur, live, sess>>
  <2>1. UNCHANGED <<running, pc, batch, cur, live, sess, bring, left>>
    BY <1>3 DEF Accept, worker, memory
  <2>2. \/ \E d \in Fds : /\ fdtab' = [fdtab EXCEPT ![d] = c]
                          /\ cst' = [cst EXCEPT ![c] = "up"]
        \/ UNCHANGED <<fdtab, cst>>
    BY <1>3 DEF Accept
  <2>3. /\ fdtab' \in [Fds -> Conns \cup {None}]
        /\ cst' \in [Conns -> {"new", "backlog", "up", "gone"}]
    BY <2>2 DEF RestTyped
  <2> QED
    BY <2>1, <2>3 DEF RestTyped
<1>4. ASSUME NEW c \in Conns, Connect(c) \/ Leave(c)
      PROVE  RestTyped' /\ UNCHANGED <<running, pc, cur, live, sess>>
  BY <1>4 DEF Connect, Leave, RestTyped, worker, memory
<1>5. ASSUME NEW s \in Sessions, Recv(s)
      PROVE  RestTyped' /\ UNCHANGED <<running, pc, cur, live, sess>>
  <2>1. UNCHANGED <<running, pc, batch, cur, live, sess, fdtab, cst>>
    BY <1>5 DEF Recv, worker
  <2>2. \/ left' = left
        \/ \E f \in flight : left[f.conn] > 0 /\ left' = [left EXCEPT ![f.conn] = @ - 1]
    BY <1>5 DEF Recv
  <2>3. left' \in [Conns -> Nat]
    <3>1. ASSUME NEW c, left[c] > 0, left' = [left EXCEPT ![c] = @ - 1]
          PROVE  left' \in [Conns -> Nat]
      <4>1. CASE c \in Conns
        BY <3>1, <4>1 DEF RestTyped
      <4>2. CASE c \notin Conns
        BY <3>1, <4>2 DEF RestTyped
      <4> QED
        BY <4>1, <4>2
    <3> QED
      BY <2>2, <3>1 DEF RestTyped
  <2>4. bring' = bring \/ \E b : bring' = bring \ {b}
    BY <1>5 DEF Recv
  <2> QED
    BY <2>1, <2>3, <2>4 DEF RestTyped
<1>6. ASSUME NEW s \in Sessions, NEW w \in WrIds, Send(s, w)
      PROVE  RestTyped' /\ UNCHANGED <<running, pc, cur, live, sess>>
  BY <1>6 DEF Send, RestTyped, worker, memory, client
<1> QED
  BY <1>1, <1>2, <1>3, <1>4, <1>5, <1>6 DEF Environment

\* The entry the kernel takes, and the request it starts or fails.
LEMMA TypeTake ==
    ASSUME TypeOK, Take
    PROVE  /\ sq' \in Seq(Sqe) /\ submitted' \in 0..Len(sq')
           /\ flight' \subseteq Flight /\ cq' \in Seq(Cqe)
<1>1. /\ sq \in Seq(Sqe) /\ sq # << >> /\ sq' = Tail(sq) /\ submitted > 0
      /\ submitted' = submitted - 1
  BY DEF Take, TypeOK
<1>2. Head(sq) \in Sqe /\ sq' \in Seq(Sqe) /\ Len(sq') = Len(sq) - 1 /\ Len(sq) \in Nat
  BY <1>1
<1>3. submitted' \in 0..Len(sq')
  BY <1>1, <1>2 DEF TypeOK
<1>4. PICK e : e = Head(sq)
  OBVIOUS
<1>5. PICK file : file = IF e.fd = None THEN None ELSE fdtab[e.fd]
  OBVIOUS
<1>6. e.req \in Requests /\ file \in Conns \cup {None}
  BY <1>2, <1>4, <1>5 DEF TypeOK, Sqe
<1>7. PICK g : g = [req |-> e.req, conn |-> file]
  OBVIOUS
<1>8. PICK d : d = Done(e.req, IF e.req.op = "read" THEN "end" ELSE "err")
  OBVIOUS
<1>9. g \in Flight /\ d \in Cqe
  <2>1. g \in Flight
    BY <1>6, <1>7 DEF Flight
  <2>2. PICK r, res : r = e.req /\ res = IF e.req.op = "read" THEN "end" ELSE "err"
    OBVIOUS
  <2>3. /\ r \in Requests /\ res \in {"ok", "data", "nobufs", "end", "err"}
        /\ d = Done(r, res)
    BY <1>6, <1>8, <2>2
  <2>4. Done(r, res) \in Cqe
    BY <2>3, DoneEnds
  <2> QED
    BY <2>1, <2>3, <2>4
<1>10. \/ flight' = flight \cup {g} /\ UNCHANGED cq
       \/ cq' = Append(cq, d) /\ UNCHANGED flight
  BY <1>4, <1>5, <1>7, <1>8 DEF Take, Post
<1> QED
  <2>1. flight \subseteq Flight /\ cq \in Seq(Cqe)
    BY DEF TypeOK
  <2>2. Append(cq, d) \in Seq(Cqe) /\ flight \cup {g} \subseteq Flight
    BY <1>9, <2>1
  <2> QED
    BY <1>2, <1>3, <1>10, <2>1, <2>2

LEMMA TypeEnvironment == TypeOK /\ Environment => TypeOK'
<1> SUFFICES ASSUME TypeOK, Environment PROVE TypeOK'
  OBVIOUS
<1>1. RestTyped'
  BY RestTypedEnvironment DEF TypeOK, RestTyped
<1>2. /\ sq' \in Seq(Sqe) /\ submitted' \in 0..Len(sq')
      /\ flight' \subseteq Flight /\ cq' \in Seq(Cqe)
  <2>1. CASE UNCHANGED <<sq, submitted, flight, cq>>
    BY <2>1 DEF TypeOK
  <2>2. ASSUME NEW f, NEW e, Completes(f, e)
        PROVE  /\ sq' \in Seq(Sqe) /\ submitted' \in 0..Len(sq')
               /\ flight' \subseteq Flight /\ cq' \in Seq(Cqe)
    BY <2>2 DEF Completes, TypeOK
  <2> QED
    BY <2>1, <2>2, TypeTake, EnvironmentOnRings
<1> QED
  BY <1>1, <1>2 DEF TypeOK, RestTyped

-------------------------------------------------------------------------------
(***************************************************************************)
(* The accounts: what a session records of its requests.                   *)
(***************************************************************************)

\* S records exactly what will be outstanding of session s.
Settled(s, S) ==
    /\ S \in Session /\ S.pw = Cardinality(S.inuse)
    /\ \A w \in WrIds : w \in S.inuse <=> Outstanding(WriteReq(s, w))'
    /\ S.recv <=> Outstanding(ReadReq(s))'

\* What is outstanding changes for no session but s.
OthersKept(s) ==
    \A u \in Sessions \ {s} :
        /\ Outstanding(ReadReq(u))' <=> Outstanding(ReadReq(u))
        /\ \A w \in WrIds : Outstanding(WriteReq(u, w))' <=> Outstanding(WriteReq(u, w))

Accounts == FreeIsBlank /\ WritesAccounted /\ ReadsMatch

\* Nothing changes: the accounts stay right.
LEMMA AccountsKept ==
    ASSUME Accounts, UNCHANGED <<live, sess>>, \A r : Outstanding(r)' <=> Outstanding(r)
    PROVE  Accounts'
<1>1. FreeIsBlank'
  BY DEF Accounts, FreeIsBlank
<1>2. WritesAccounted'
  BY DEF Accounts, WritesAccounted
<1>3. ReadsMatch'
  BY DEF Accounts, ReadsMatch
<1> QED
  BY <1>1, <1>2, <1>3 DEF Accounts

\* One session changes, and what it records is right.
LEMMA AccountsOfOne ==
    ASSUME Accounts, sess \in [Sessions -> Session], NEW s \in Sessions, NEW S,
           Settled(s, S), OthersKept(s), sess' = [sess EXCEPT ![s] = S],
           \A u \in Sessions \ {s} : u \in live => u \in live',
           s \in live' \/ S = FreeSession
    PROVE  Accounts'
<1>1. sess'[s] = S /\ \A u \in Sessions \ {s} : sess'[u] = sess[u]
  OBVIOUS
<1>2. FreeIsBlank'
  BY <1>1 DEF Accounts, FreeIsBlank
<1>3. ASSUME NEW u \in Sessions
      PROVE  /\ sess'[u].pw = Cardinality(sess'[u].inuse)
             /\ \A w \in WrIds : w \in sess'[u].inuse <=> Outstanding(WriteReq(u, w))'
             /\ sess'[u].recv <=> Outstanding(ReadReq(u))'
  <2>1. CASE u = s
    BY <1>1, <2>1 DEF Settled
  <2>2. CASE u # s
    BY <1>1, <2>2 DEF OthersKept, Accounts, WritesAccounted, ReadsMatch
  <2> QED
    BY <2>1, <2>2
<1>4. WritesAccounted' /\ ReadsMatch'
  BY <1>3 DEF WritesAccounted, ReadsMatch
<1> QED
  BY <1>2, <1>4 DEF Accounts

LEMMA WriteIdsFinite == IsFiniteSet(WrIds)
<1>1. IsFiniteSet(Pool) /\ IsFiniteSet(Heap)
  BY ServerAssumption, FS_Interval DEF Pool, Heap
<1> QED
  BY <1>1, FS_Union DEF WrIds

\* cleanup_session_if_needed frees a session only when it records nothing.
LEMMA CleanupAccounts ==
    ASSUME Accounts, sess \in [Sessions -> Session], NEW s \in live, s \in Sessions,
           NEW S, Settled(s, S), OthersKept(s), Cleanup(s, S)
    PROVE  Accounts'
<1>1. CASE CloseDue(S) /\ FreeDue(S)
  <2>1. sess' = [sess EXCEPT ![s] = FreeSession] /\ live' = live \ {s}
    BY <1>1 DEF Cleanup
  <2>2. S.inuse = {}
    <3>1. IsFiniteSet(S.inuse)
      BY WriteIdsFinite, FS_Subset DEF Settled, Session
    <3> QED
      BY <1>1, <3>1, FS_EmptySet DEF CloseDue, Settled
  <2>3. FreeSession \in Session /\ FreeSession.pw = 0 /\ FreeSession.inuse = {}
        /\ FreeSession.recv = FALSE
    BY DEF FreeSession, Session
  <2>4. Settled(s, FreeSession)
    BY <1>1, <2>2, <2>3, FS_EmptySet DEF Settled, FreeDue
  <2> QED
    BY <2>1, <2>4, AccountsOfOne
<1>2. CASE CloseDue(S) /\ ~FreeDue(S)
  <2>1. sess' = [sess EXCEPT ![s] = ForgetFd(S)] /\ live' = live
    BY <1>2 DEF Cleanup
  <2>2. ForgetFd(S) \in Session /\ ForgetFd(S).pw = S.pw /\ ForgetFd(S).inuse = S.inuse
        /\ ForgetFd(S).recv = S.recv
    BY DEF Settled, ForgetFd, Session
  <2>3. Settled(s, ForgetFd(S))
    BY <2>2 DEF Settled
  <2> QED
    BY <2>1, <2>3, AccountsOfOne
<1>3. CASE ~CloseDue(S)
  <2>1. sess' = [sess EXCEPT ![s] = S] /\ live' = live
    BY <1>3 DEF Cleanup
  <2> QED
    BY <2>1, AccountsOfOne
<1> QED
  BY <1>1, <1>2, <1>3

\* A step of the kernel or of a client preserves the invariant.
LEMMA LifetimeEnvironment == LifetimeInv /\ Environment => LifetimeInv'
<1> SUFFICES ASSUME LifetimeInv, Environment PROVE LifetimeInv'
  OBVIOUS
<1>1. TypeOK /\ RequestsUnique /\ Accounts /\ MidRead /\ MidAccept
  BY DEF LifetimeInv, Accounts
<1>2. TypeOK'
  BY <1>1, TypeEnvironment
<1>3. RequestsUnique' /\ \A r : Outstanding(r)' <=> Outstanding(r)
  <2>1. CASE Take
    BY <1>1, <2>1, RingsTake
  <2>2. ASSUME NEW f, NEW e, Completes(f, e)
        PROVE  RequestsUnique' /\ \A r : Outstanding(r)' <=> Outstanding(r)
    BY <1>1, <2>2, RingsComplete DEF Completes
  <2>3. CASE UNCHANGED <<sq, submitted, flight, cq>>
    BY <1>1, <2>3, RingsUnchanged
  <2> QED
    BY <1>1, <2>1, <2>2, <2>3, EnvironmentOnRings
<1>4. UNCHANGED <<pc, cur, live, sess>>
  BY <1>1, RestTypedEnvironment DEF TypeOK, RestTyped
<1>5. Accounts'
  BY <1>1, <1>3, <1>4, AccountsKept
<1>6. MidRead' /\ MidAccept'
  BY <1>1, <1>3, <1>4 DEF MidRead, MidAccept
<1> QED
  BY <1>2, <1>3, <1>5, <1>6 DEF LifetimeInv, Accounts

-------------------------------------------------------------------------------
(***************************************************************************)
(* A step of the worker preserves the invariant: one lemma per handler.    *)
(* Type correctness was proved above; Kept is the rest.                    *)
(***************************************************************************)
Kept == RequestsUnique /\ Accounts /\ MidRead /\ MidAccept

LEMMA Parts == LifetimeInv => TypeOK /\ Kept /\ sess \in [Sessions -> Session]
  BY DEF LifetimeInv, Kept, Accounts, TypeOK

\* A request of a session that is outstanding is recorded, so the session lives.
LEMMA RecordedIsLive ==
    ASSUME Accounts, NEW s \in Sessions
    PROVE  /\ Outstanding(ReadReq(s)) => s \in live /\ sess[s].recv
           /\ \A w \in WrIds : Outstanding(WriteReq(s, w)) => s \in live /\ w \in sess[s].inuse
           /\ s \notin live => /\ sess[s] = FreeSession /\ ~Outstanding(ReadReq(s))
                               /\ \A w \in WrIds : ~Outstanding(WriteReq(s, w))
<1>1. s \notin live => sess[s] = FreeSession
  BY DEF Accounts, FreeIsBlank
<1>2. sess[s].recv <=> Outstanding(ReadReq(s))
  BY DEF Accounts, ReadsMatch
<1>3. \A w \in WrIds : w \in sess[s].inuse <=> Outstanding(WriteReq(s, w))
  BY DEF Accounts, WritesAccounted
<1>4. FreeSession.recv = FALSE /\ FreeSession.inuse = {}
  BY DEF FreeSession
<1> QED
  BY <1>1, <1>2, <1>3, <1>4

\* What the accounts say of one session.
LEMMA AccountsSay ==
    ASSUME Accounts, NEW s \in Sessions
    PROVE  /\ sess[s].pw = Cardinality(sess[s].inuse)
           /\ \A w \in WrIds : w \in sess[s].inuse <=> Outstanding(WriteReq(s, w))
           /\ sess[s].recv <=> Outstanding(ReadReq(s))
  BY DEF Accounts, WritesAccounted, ReadsMatch

\* Steps that touch neither the rings' requests nor a session.
LEMMA KeptByLoop ==
    LifetimeInv /\ (SpinForSqe \/ PeekBatch \/ EndBatch \/ Exit) => Kept'
<1> SUFFICES ASSUME LifetimeInv, SpinForSqe \/ PeekBatch \/ EndBatch \/ Exit PROVE Kept'
  OBVIOUS
<1>1. UNCHANGED <<cur, live, sess, sq, flight, cq>>
  BY DEF SpinForSqe, PeekBatch, EndBatch, Exit, worker, memory, ring
<1>2. pc' = pc \/ pc' \in {"batch", "wait", "exited"}
  BY DEF SpinForSqe, PeekBatch, EndBatch, Exit, worker
<1>3. RequestsUnique' /\ \A r : Outstanding(r)' <=> Outstanding(r)
  BY <1>1, Parts, RingsUnchanged DEF Kept
<1>4. Accounts'
  BY <1>1, <1>3, Parts, AccountsKept DEF Kept
<1>5. MidRead' /\ MidAccept'
  BY <1>1, <1>2, <1>3, Parts DEF Kept, MidRead, MidAccept
<1> QED
  BY <1>3, <1>4, <1>5 DEF Kept

LEMMA KeptBySignal == LifetimeInv /\ HandleSignal => Kept'
<1> SUFFICES ASSUME LifetimeInv, HandleSignal PROVE Kept'
  OBVIOUS
<1>1. UNCHANGED <<pc, cur, live, sess, sq, flight>> /\ cq # << >> /\ cq' = Tail(cq)
      /\ Head(cq).req.op = "signal" /\ pc = "batch"
  BY DEF HandleSignal, Handling, Consume, memory
<1>2. Head(cq).req = SignalReq
  BY <1>1, Parts, Consumed, KindOf DEF Kept
<1>3. /\ RequestsUnique'
      /\ \A r : Outstanding(r)' <=> Outstanding(r) /\ (Head(cq).more \/ r # Head(cq).req)
  BY <1>1, Parts, RingsConsume DEF Kept
<1>4. ASSUME NEW s \in Sessions
      PROVE  /\ Outstanding(ReadReq(s))' <=> Outstanding(ReadReq(s))
             /\ \A w \in WrIds : Outstanding(WriteReq(s, w))' <=> Outstanding(WriteReq(s, w))
  BY <1>2, <1>3, RequestKinds
<1>5. Accounts'
  BY <1>1, <1>4, Parts DEF Kept, Accounts, FreeIsBlank, WritesAccounted, ReadsMatch
<1>6. MidRead' /\ MidAccept'
  BY <1>1 DEF MidRead, MidAccept
<1> QED
  BY <1>3, <1>5, <1>6 DEF Kept

LEMMA KeptByRearm == LifetimeInv /\ RearmAccept => Kept'
<1> SUFFICES ASSUME LifetimeInv, RearmAccept PROVE Kept'
  OBVIOUS
<1>1. /\ UNCHANGED <<cur, live, sess, flight, cq>> /\ pc = "rearm" /\ pc' = "batch"
      /\ sq' = Append(sq, [req |-> AcceptReq, fd |-> None])
  BY DEF RearmAccept, Prepare, memory
<1>2. ~Outstanding(AcceptReq)
  BY <1>1, Parts DEF Kept, MidAccept
<1>3. RequestsUnique' /\ \A r : Outstanding(r)' <=> Outstanding(r) \/ r = AcceptReq
  BY <1>1, <1>2, Parts, RingsPrepare, RequestKinds DEF Kept
<1>4. ASSUME NEW s \in Sessions
      PROVE  /\ Outstanding(ReadReq(s))' <=> Outstanding(ReadReq(s))
             /\ \A w \in WrIds : Outstanding(WriteReq(s, w))' <=> Outstanding(WriteReq(s, w))
  BY <1>3, RequestKinds
<1>5. Accounts'
  BY <1>1, <1>4, Parts DEF Kept, Accounts, FreeIsBlank, WritesAccounted, ReadsMatch
<1>6. MidRead' /\ MidAccept'
  BY <1>1 DEF MidRead, MidAccept
<1> QED
  BY <1>3, <1>5, <1>6 DEF Kept

LEMMA KeptByAccept == LifetimeInv /\ HandleAccept => Kept'
<1> SUFFICES ASSUME LifetimeInv, HandleAccept PROVE Kept'
  OBVIOUS
<1>1. /\ UNCHANGED <<cur, flight>> /\ cq # << >> /\ cq' = Tail(cq)
      /\ Head(cq).req.op = "accept" /\ pc' \in {"rearm", "batch"}
  BY DEF HandleAccept, Handling, Consume, AfterAccept
<1>2. /\ Head(cq).req = AcceptReq /\ ~Head(cq).more
      /\ Head(cq).fd \in Fds \cup {None}
  <2>1. /\ Head(cq) \in Cqe /\ Head(cq).req \in Requests
        /\ Head(cq).more => Head(cq).req.op = "read"
    BY <1>1, Parts, Consumed DEF Kept
  <2> QED
    BY <1>1, <2>1, KindOf DEF Cqe
<1>3. MidRead'
  BY <1>1 DEF MidRead
<1>4. CASE UNCHANGED <<live, sess, sq>>
  <2>1. /\ RequestsUnique'
        /\ \A r : Outstanding(r)' <=> Outstanding(r) /\ (Head(cq).more \/ r # Head(cq).req)
    BY <1>1, <1>4, Parts, RingsConsume DEF Kept
  <2>2. ASSUME NEW s \in Sessions
        PROVE  /\ Outstanding(ReadReq(s))' <=> Outstanding(ReadReq(s))
               /\ \A w \in WrIds : Outstanding(WriteReq(s, w))' <=> Outstanding(WriteReq(s, w))
    BY <1>2, <2>1, RequestKinds
  <2>3. Accounts'
    BY <1>4, <2>2, Parts DEF Kept, Accounts, FreeIsBlank, WritesAccounted, ReadsMatch
  <2>4. MidAccept'
    BY <1>2, <2>1 DEF MidAccept
  <2> QED
    BY <1>3, <2>1, <2>3, <2>4 DEF Kept
<1>5. ASSUME NEW s \in Sessions \ live, live' = live \cup {s}, Head(cq).fd # None,
             sess' = [sess EXCEPT ![s] = NewSession(Head(cq).fd)],
             Prepare(ReadReq(s), Head(cq).fd)
      PROVE  Kept'
  <2>1. PICK S : S = NewSession(Head(cq).fd)
    OBVIOUS
  <2>2. S \in Session /\ S.pw = 0 /\ S.inuse = {} /\ S.recv = TRUE
    BY <1>2, <1>5, <2>1, Parts DEF NewSession, FreeSession, Session, TypeOK
  <2>3. ~Outstanding(ReadReq(s)) /\ \A w \in WrIds : ~Outstanding(WriteReq(s, w))
    BY <1>5, Parts, RecordedIsLive DEF Kept
  <2>4. /\ RequestsUnique'
        /\ \A r : Outstanding(r)' <=>
                  (Outstanding(r) /\ (Head(cq).more \/ r # Head(cq).req)) \/ r = ReadReq(s)
    <3>1. sq' = Append(sq, [req |-> ReadReq(s), fd |-> Head(cq).fd])
      BY <1>5 DEF Prepare
    <3> QED
      BY <1>1, <1>2, <2>3, <3>1, Parts, RequestKinds, RingsConsumePrepare DEF Kept
  <2>5. /\ Outstanding(ReadReq(s))'
        /\ \A w \in WrIds : ~Outstanding(WriteReq(s, w))'
    BY <2>3, <2>4, RequestKinds
  <2>6. OthersKept(s)
    BY <1>2, <2>4, RequestKinds DEF OthersKept
  <2>7. Settled(s, S)
    BY <2>2, <2>5, FS_EmptySet DEF Settled
  <2>8. Accounts'
    BY <1>5, <2>1, <2>6, <2>7, Parts, AccountsOfOne DEF Kept
  <2>9. MidAccept'
    BY <1>2, <2>4, RequestKinds DEF MidAccept
  <2> QED
    BY <1>3, <2>4, <2>8, <2>9 DEF Kept
<1> QED
  BY <1>4, <1>5 DEF HandleAccept

\* What the READ handler knows: the session is alive, and its read is over
\* unless the completion says "more".
LEMMA ReadHandled ==
    ASSUME LifetimeInv, Handling("read"), Consume,
           NEW s, s = Head(cq).req.ses, NEW S, S = AfterRead(Head(cq))
    PROVE  /\ s \in Sessions /\ s \in live /\ Head(cq).req = ReadReq(s)
           /\ cq # << >> /\ cq' = Tail(cq) /\ pc = "batch"
           /\ Head(cq).more \in BOOLEAN
           /\ Head(cq).more => Head(cq).res = "data"
           /\ S \in Session /\ S.pw = sess[s].pw /\ S.inuse = sess[s].inuse
           /\ S.recv <=> Head(cq).more
           /\ Outstanding(ReadReq(s))
<1>1. /\ cq # << >> /\ cq' = Tail(cq) /\ pc = "batch" /\ Head(cq).req.op = "read"
      /\ TypeOK /\ RequestsUnique /\ Accounts
  BY Parts DEF Handling, Consume, Kept
<1>2. /\ Head(cq) \in Cqe /\ Head(cq).req \in Requests
      /\ Head(cq).more => Head(cq).res = "data" /\ (InFlight(Head(cq).req) \/ InCq(Head(cq).req))
      /\ ~Head(cq).more => InCq(Head(cq).req)
  BY <1>1, Consumed
<1>3. s \in Sessions /\ Head(cq).req = ReadReq(s)
  BY <1>1, <1>2, KindOf
<1>4. Outstanding(ReadReq(s))
  BY <1>2, <1>3 DEF Outstanding
<1>5. s \in live /\ sess[s].recv /\ sess[s] \in Session
  BY <1>1, <1>3, <1>4, RecordedIsLive DEF TypeOK
<1>6. Head(cq).more \in BOOLEAN
  BY <1>2 DEF Cqe
<1>7. /\ S \in Session /\ S.pw = sess[s].pw /\ S.inuse = sess[s].inuse
      /\ S.recv <=> Head(cq).more
  <2>1. PICK R \in Session : R = sess[s]
    BY <1>5
  <2>2. S = IF Head(cq).more THEN R ELSE [R EXCEPT !.recv = FALSE]
    BY <2>1 DEF AfterRead
  <2> QED
    BY <1>5, <1>6, <2>1, <2>2 DEF Session
<1> QED
  BY <1>1, <1>2, <1>3, <1>4, <1>5, <1>6, <1>7

LEMMA KeptByReadEnd == LifetimeInv /\ HandleReadEnd => Kept'
<1> SUFFICES ASSUME LifetimeInv, HandleReadEnd PROVE Kept'
  OBVIOUS
<1>1. PICK s : s = Head(cq).req.ses
  OBVIOUS
<1>2. PICK R : R = AfterRead(Head(cq))
  OBVIOUS
<1>3. /\ Handling("read") /\ Consume /\ UNCHANGED <<pc, cur, sq, flight>>
      /\ Head(cq).res = "end" /\ Cleanup(s, [R EXCEPT !.closing = TRUE])
  BY <1>1, <1>2 DEF HandleReadEnd
<1>4. /\ s \in Sessions /\ s \in live /\ Head(cq).req = ReadReq(s)
      /\ cq # << >> /\ cq' = Tail(cq) /\ pc = "batch"
      /\ ~Head(cq).more
      /\ R \in Session /\ R.pw = sess[s].pw /\ R.inuse = sess[s].inuse /\ ~R.recv
  BY <1>1, <1>2, <1>3, ReadHandled
<1>5. /\ RequestsUnique'
      /\ \A r : Outstanding(r)' <=> Outstanding(r) /\ (Head(cq).more \/ r # Head(cq).req)
  BY <1>3, <1>4, Parts, RingsConsume DEF Kept
<1>6. PICK S : S = [R EXCEPT !.closing = TRUE]
  OBVIOUS
<1>7. S \in Session /\ S.pw = sess[s].pw /\ S.inuse = sess[s].inuse /\ ~S.recv
  BY <1>4, <1>6 DEF Session
<1>8. Settled(s, S)
  <2>1. ~Outstanding(ReadReq(s))'
    BY <1>4, <1>5
  <2>2. \A w \in WrIds : Outstanding(WriteReq(s, w))' <=> Outstanding(WriteReq(s, w))
    BY <1>4, <1>5, RequestKinds
  <2>3. /\ sess[s].pw = Cardinality(sess[s].inuse)
        /\ \A w \in WrIds : w \in sess[s].inuse <=> Outstanding(WriteReq(s, w))
    BY <1>4, Parts, AccountsSay DEF Kept
  <2> QED
    BY <1>7, <2>1, <2>2, <2>3 DEF Settled
<1>9. OthersKept(s)
  BY <1>4, <1>5, RequestKinds DEF OthersKept
<1>10. Accounts'
  BY <1>3, <1>4, <1>6, <1>8, <1>9, Parts, CleanupAccounts DEF Kept
<1>11. MidRead' /\ MidAccept'
  BY <1>3, <1>4 DEF MidRead, MidAccept
<1> QED
  BY <1>5, <1>10, <1>11 DEF Kept

LEMMA KeptByNoBufs == LifetimeInv /\ HandleReadNoBufs => Kept'
<1> SUFFICES ASSUME LifetimeInv, HandleReadNoBufs PROVE Kept'
  OBVIOUS
<1>1. PICK s : s = Head(cq).req.ses
  OBVIOUS
<1>2. PICK R : R = AfterRead(Head(cq))
  OBVIOUS
<1>3. /\ Handling("read") /\ Consume /\ UNCHANGED <<pc, cur, live, flight>>
      /\ Head(cq).res = "nobufs"
      /\ sess' = [sess EXCEPT ![s] = [R EXCEPT !.recv = TRUE]]
      /\ sq' = Append(sq, [req |-> ReadReq(s), fd |-> sess[s].fd])
  BY <1>1, <1>2 DEF HandleReadNoBufs, Prepare
<1>4. /\ s \in Sessions /\ s \in live /\ Head(cq).req = ReadReq(s)
      /\ cq # << >> /\ cq' = Tail(cq) /\ pc = "batch"
      /\ ~Head(cq).more
      /\ R \in Session /\ R.pw = sess[s].pw /\ R.inuse = sess[s].inuse
  BY <1>1, <1>2, <1>3, ReadHandled
<1>5. /\ RequestsUnique'
      /\ \A r : Outstanding(r)' <=>
                (Outstanding(r) /\ (Head(cq).more \/ r # Head(cq).req)) \/ r = ReadReq(s)
  <2>1. sess[s].fd \in Fds \cup {None}
    BY <1>4, Parts DEF Session
  <2>2. Outstanding(ReadReq(s)) => ReadReq(s) = Head(cq).req /\ ~Head(cq).more
    BY <1>4
  <2> QED
    BY <1>3, <1>4, <2>1, <2>2, Parts, RequestKinds, RingsConsumePrepare DEF Kept
<1>6. PICK S : S = [R EXCEPT !.recv = TRUE]
  OBVIOUS
<1>7. S \in Session /\ S.pw = sess[s].pw /\ S.inuse = sess[s].inuse /\ S.recv
  BY <1>4, <1>6 DEF Session
<1>8. Settled(s, S)
  <2>1. Outstanding(ReadReq(s))'
    BY <1>5
  <2>2. \A w \in WrIds : Outstanding(WriteReq(s, w))' <=> Outstanding(WriteReq(s, w))
    BY <1>4, <1>5, RequestKinds
  <2>3. /\ sess[s].pw = Cardinality(sess[s].inuse)
        /\ \A w \in WrIds : w \in sess[s].inuse <=> Outstanding(WriteReq(s, w))
    BY <1>4, Parts, AccountsSay DEF Kept
  <2> QED
    BY <1>7, <2>1, <2>2, <2>3 DEF Settled
<1>9. OthersKept(s)
  BY <1>4, <1>5, RequestKinds DEF OthersKept
<1>10. Accounts'
  BY <1>3, <1>4, <1>6, <1>8, <1>9, Parts, AccountsOfOne DEF Kept
<1>11. MidRead' /\ MidAccept'
  BY <1>3, <1>4 DEF MidRead, MidAccept
<1> QED
  BY <1>5, <1>10, <1>11 DEF Kept

LEMMA KeptByReadData == LifetimeInv /\ HandleReadData => Kept'
<1> SUFFICES ASSUME LifetimeInv, HandleReadData PROVE Kept'
  OBVIOUS
<1>1. PICK s : s = Head(cq).req.ses
  OBVIOUS
<1>2. PICK S : S = AfterRead(Head(cq))
  OBVIOUS
<1>3. /\ Handling("read") /\ Consume /\ UNCHANGED <<live, sq, flight>>
      /\ sess' = [sess EXCEPT ![s] = S] /\ pc' = "read"
      /\ cur'.ses = s /\ cur'.more = Head(cq).more
  BY <1>1, <1>2 DEF HandleReadData
<1>4. /\ s \in Sessions /\ s \in live /\ Head(cq).req = ReadReq(s)
      /\ cq # << >> /\ cq' = Tail(cq) /\ Head(cq).more \in BOOLEAN
      /\ S \in Session /\ S.pw = sess[s].pw /\ S.inuse = sess[s].inuse
      /\ S.recv <=> Head(cq).more
      /\ Outstanding(ReadReq(s))
  BY <1>1, <1>2, <1>3, ReadHandled
<1>5. /\ RequestsUnique'
      /\ \A r : Outstanding(r)' <=> Outstanding(r) /\ (Head(cq).more \/ r # Head(cq).req)
  BY <1>3, <1>4, Parts, RingsConsume DEF Kept
<1>6. Settled(s, S)
  <2>1. Outstanding(ReadReq(s))' <=> Head(cq).more
    BY <1>4, <1>5
  <2>2. \A w \in WrIds : Outstanding(WriteReq(s, w))' <=> Outstanding(WriteReq(s, w))
    BY <1>4, <1>5, RequestKinds
  <2>3. /\ sess[s].pw = Cardinality(sess[s].inuse)
        /\ \A w \in WrIds : w \in sess[s].inuse <=> Outstanding(WriteReq(s, w))
    BY <1>4, Parts, AccountsSay DEF Kept
  <2> QED
    BY <1>4, <2>1, <2>2, <2>3 DEF Settled
<1>7. OthersKept(s)
  BY <1>4, <1>5, RequestKinds DEF OthersKept
<1>8. Accounts'
  BY <1>3, <1>4, <1>6, <1>7, Parts, AccountsOfOne DEF Kept
<1>9. MidRead' /\ MidAccept'
  <2>1. sess'[s] = S /\ live' = live
    BY <1>3, <1>4, Parts
  <2> QED
    BY <1>3, <1>4, <2>1 DEF MidRead, MidAccept
<1> QED
  BY <1>5, <1>8, <1>9 DEF Kept

LEMMA KeptByReply == LifetimeInv /\ Reply => Kept'
<1> SUFFICES ASSUME LifetimeInv, Reply PROVE Kept'
  OBVIOUS
<1>1. PICK s : s = cur.ses
  OBVIOUS
<1>2. PICK w \in GetWriteResponse(s) :
         /\ sess' = [sess EXCEPT ![s] = Sending(s, w)]
         /\ sq' = Append(sq, [req |-> WriteReq(s, w), fd |-> sess[s].fd])
  BY <1>1 DEF Reply, Submit
<1>3. /\ pc = "read" /\ pc' = "read" /\ UNCHANGED <<live, flight, cq>>
      /\ cur' = [cur EXCEPT !.n = @ + 1]
  BY DEF Reply
<1>4. /\ s \in Sessions /\ s \in live /\ (sess[s].recv <=> cur.more)
      /\ sess[s] \in Session /\ w \in WrIds /\ w \notin sess[s].inuse
  BY <1>1, <1>3, Parts, SlotWasFree DEF Kept, MidRead, TypeOK
<1>5. cur'.ses = s /\ cur'.more = cur.more
  BY <1>1, <1>3, Parts DEF TypeOK
<1>6. PICK S : S = Sending(s, w)
  OBVIOUS
<1>7. /\ S \in Session /\ S.recv = sess[s].recv /\ S.inuse = sess[s].inuse \cup {w}
      /\ S.pw = Cardinality(S.inuse)
  <2>1. PICK R \in Session : R = sess[s]
    BY <1>4
  <2>2. S = [R EXCEPT !.inuse = R.inuse \cup {w}, !.pw = R.pw + 1]
    BY <1>6, <2>1 DEF Sending, Session
  <2>3. S \in Session /\ S.recv = R.recv /\ S.inuse = R.inuse \cup {w} /\ S.pw = R.pw + 1
    <3>1. R.pw + 1 \in Nat /\ R.inuse \cup {w} \in SUBSET WrIds
      BY <1>4, <2>1 DEF Session
    <3>2. S \in Session
      BY <2>2, <3>1 DEF Session
    <3>3. S.recv = R.recv /\ S.inuse = R.inuse \cup {w} /\ S.pw = R.pw + 1
      BY <2>2 DEF Session
    <3> QED
      BY <3>2, <3>3
  <2>4. IsFiniteSet(R.inuse)
    BY <2>1, WriteIdsFinite, FS_Subset DEF Session
  <2>5. R.pw = Cardinality(R.inuse)
    BY <1>4, <2>1, Parts, AccountsSay DEF Kept
  <2>6. Cardinality(R.inuse \cup {w}) = Cardinality(R.inuse) + 1
    BY <1>4, <2>1, <2>4, FS_AddElement
  <2> QED
    BY <2>1, <2>3, <2>5, <2>6
<1>8. RequestsUnique' /\ \A r : Outstanding(r)' <=> Outstanding(r) \/ r = WriteReq(s, w)
  <2>1. ~Outstanding(WriteReq(s, w))
    BY <1>4, Parts, AccountsSay DEF Kept
  <2>2. sess[s].fd \in Fds \cup {None} /\ WriteReq(s, w) \in Requests
    BY <1>4, RequestKinds DEF Session
  <2> QED
    BY <1>2, <1>3, <2>1, <2>2, Parts, RingsPrepare DEF Kept
<1>9. Settled(s, S)
  <2>1. Outstanding(ReadReq(s))' <=> Outstanding(ReadReq(s))
    BY <1>8, RequestKinds
  <2>2. \A v \in WrIds : Outstanding(WriteReq(s, v))' <=> Outstanding(WriteReq(s, v)) \/ v = w
    BY <1>8, RequestKinds
  <2>3. /\ \A v \in WrIds : v \in sess[s].inuse <=> Outstanding(WriteReq(s, v))
        /\ sess[s].recv <=> Outstanding(ReadReq(s))
    BY <1>4, Parts, AccountsSay DEF Kept
  <2> QED
    BY <1>7, <2>1, <2>2, <2>3 DEF Settled
<1>10. OthersKept(s)
  BY <1>8, RequestKinds DEF OthersKept
<1>11. Accounts'
  BY <1>2, <1>3, <1>4, <1>6, <1>9, <1>10, Parts, AccountsOfOne DEF Kept
<1>12. MidRead' /\ MidAccept'
  <2>1. sess'[s] = S
    BY <1>2, <1>4, <1>6, Parts
  <2> QED
    BY <1>3, <1>4, <1>5, <1>7, <2>1 DEF MidRead, MidAccept
<1> QED
  BY <1>8, <1>11, <1>12 DEF Kept

LEMMA KeptByReject == LifetimeInv /\ Reject => Kept'
<1> SUFFICES ASSUME LifetimeInv, Reject PROVE Kept'
  OBVIOUS
<1>1. PICK s : s = cur.ses
  OBVIOUS
<1>2. PICK S : S = [sess[s] EXCEPT !.closing = TRUE]
  OBVIOUS
<1>3. /\ pc = "read" /\ sess' = [sess EXCEPT ![s] = S]
      /\ UNCHANGED <<pc, cur, live, sq, flight, cq>>
  BY <1>1, <1>2 DEF Reject, worker, ring
<1>4. s \in Sessions /\ s \in live /\ sess[s] \in Session /\ (sess[s].recv <=> cur.more)
  BY <1>1, <1>3, Parts DEF Kept, MidRead, TypeOK
<1>5. S \in Session /\ S.pw = sess[s].pw /\ S.inuse = sess[s].inuse /\ S.recv = sess[s].recv
  BY <1>2, <1>4 DEF Session
<1>6. RequestsUnique' /\ \A r : Outstanding(r)' <=> Outstanding(r)
  BY <1>3, Parts, RingsUnchanged DEF Kept
<1>7. Settled(s, S)
  BY <1>4, <1>5, <1>6, Parts, AccountsSay DEF Kept, Settled
<1>8. OthersKept(s)
  BY <1>6 DEF OthersKept
<1>9. Accounts'
  BY <1>3, <1>4, <1>7, <1>8, Parts, AccountsOfOne DEF Kept
<1>10. MidRead' /\ MidAccept'
  <2>1. sess'[s] = S
    BY <1>3, <1>4, Parts
  <2> QED
    BY <1>1, <1>3, <1>4, <1>5, <2>1 DEF MidRead, MidAccept
<1> QED
  BY <1>6, <1>9, <1>10 DEF Kept

LEMMA KeptByFinishRead == LifetimeInv /\ FinishRead => Kept'
<1> SUFFICES ASSUME LifetimeInv, FinishRead PROVE Kept'
  OBVIOUS
<1>1. PICK s : s = cur.ses
  OBVIOUS
<1>2. /\ pc = "read" /\ pc' = "batch" /\ UNCHANGED <<flight, cq>>
      /\ \/ UNCHANGED <<live, sess, sq>>
         \/ /\ ~cur.more /\ sess' = [sess EXCEPT ![s].recv = TRUE]
            /\ Prepare(ReadReq(s), sess[s].fd) /\ UNCHANGED live
         \/ Cleanup(s, sess[s]) /\ UNCHANGED sq
  BY <1>1 DEF FinishRead, ReadEnded
<1>3. s \in Sessions /\ s \in live /\ sess[s] \in Session /\ (sess[s].recv <=> cur.more)
  BY <1>1, <1>2, Parts DEF Kept, MidRead, TypeOK
<1>4. MidRead' /\ MidAccept'
  BY <1>2 DEF MidRead, MidAccept
<1>5. CASE UNCHANGED <<live, sess, sq>>
  <2>1. RequestsUnique' /\ \A r : Outstanding(r)' <=> Outstanding(r)
    BY <1>2, <1>5, Parts, RingsUnchanged DEF Kept
  <2>2. Accounts'
    BY <1>5, <2>1, Parts, AccountsKept DEF Kept
  <2> QED
    BY <1>4, <2>1, <2>2 DEF Kept
<1>6. CASE /\ ~cur.more /\ sess' = [sess EXCEPT ![s].recv = TRUE]
           /\ Prepare(ReadReq(s), sess[s].fd) /\ UNCHANGED live
  <2>1. PICK S : S = [sess[s] EXCEPT !.recv = TRUE]
    OBVIOUS
  <2>2. S \in Session /\ S.pw = sess[s].pw /\ S.inuse = sess[s].inuse /\ S.recv
    BY <1>3, <2>1 DEF Session
  <2>3. ~Outstanding(ReadReq(s))
    BY <1>3, <1>6, Parts, AccountsSay DEF Kept
  <2>4. RequestsUnique' /\ \A r : Outstanding(r)' <=> Outstanding(r) \/ r = ReadReq(s)
    <3>1. sess[s].fd \in Fds \cup {None} /\ ReadReq(s) \in Requests
      BY <1>3, RequestKinds DEF Session
    <3>2. sq' = Append(sq, [req |-> ReadReq(s), fd |-> sess[s].fd])
      BY <1>6 DEF Prepare
    <3> QED
      BY <1>2, <2>3, <3>1, <3>2, Parts, RingsPrepare DEF Kept
  <2>5. Settled(s, S)
    <3>1. \A w \in WrIds : Outstanding(WriteReq(s, w))' <=> Outstanding(WriteReq(s, w))
      BY <2>4, RequestKinds
    <3>2. Outstanding(ReadReq(s))'
      BY <2>4
    <3>3. /\ sess[s].pw = Cardinality(sess[s].inuse)
          /\ \A w \in WrIds : w \in sess[s].inuse <=> Outstanding(WriteReq(s, w))
      BY <1>3, Parts, AccountsSay DEF Kept
    <3> QED
      BY <2>2, <3>1, <3>2, <3>3 DEF Settled
  <2>6. OthersKept(s)
    BY <2>4, RequestKinds DEF OthersKept
  <2>7. Accounts'
    BY <1>3, <1>6, <2>1, <2>5, <2>6, Parts, AccountsOfOne DEF Kept
  <2> QED
    BY <1>4, <2>4, <2>7 DEF Kept
<1>7. CASE Cleanup(s, sess[s]) /\ UNCHANGED sq
  <2>1. RequestsUnique' /\ \A r : Outstanding(r)' <=> Outstanding(r)
    BY <1>2, <1>7, Parts, RingsUnchanged DEF Kept
  <2>2. Settled(s, sess[s])
    BY <1>3, <2>1, Parts, AccountsSay DEF Kept, Settled
  <2>3. OthersKept(s)
    BY <2>1 DEF OthersKept
  <2>4. PICK S : S = sess[s]
    OBVIOUS
  <2>5. Settled(s, S) /\ Cleanup(s, S)
    BY <1>7, <2>2, <2>4
  <2>6. Accounts'
    BY <1>3, <2>3, <2>5, Parts, CleanupAccounts DEF Kept
  <2> QED
    BY <1>4, <2>1, <2>6 DEF Kept
<1> QED
  BY <1>2, <1>5, <1>6, <1>7

LEMMA KeptByWrite == LifetimeInv /\ HandleWrite => Kept'
<1> SUFFICES ASSUME LifetimeInv, HandleWrite PROVE Kept'
  OBVIOUS
<1>1. PICK s : s = Head(cq).req.ses
  OBVIOUS
<1>2. PICK w : w = Head(cq).req.wr
  OBVIOUS
<1>3. PICK S : S = Sent(Head(cq))
  OBVIOUS
<1>4. /\ Handling("write") /\ Consume /\ UNCHANGED <<pc, cur, sq, flight>>
      /\ cq # << >> /\ cq' = Tail(cq) /\ pc = "batch" /\ Cleanup(s, S)
  BY <1>1, <1>3 DEF HandleWrite, Handling, Consume
<1>5. /\ s \in live /\ s \in Sessions /\ w \in WrIds /\ Head(cq).req = WriteReq(s, w)
      /\ w \in sess[s].inuse /\ ~Head(cq).more /\ sess[s] \in Session
      /\ sess[s].pw - 1 \in Nat
      /\ sess[s].pw - 1 = Cardinality(sess[s].inuse \ {w})
  BY <1>1, <1>2, <1>4, Parts, SentWasCounted DEF TypeOK
<1>6. /\ S \in Session /\ S.pw = Cardinality(S.inuse)
      /\ S.inuse = sess[s].inuse \ {w} /\ S.recv = sess[s].recv
  <2>1. PICK R \in Session : R = sess[s]
    BY <1>5
  <2>2. PICK b \in BOOLEAN : b <=> R.closing \/ Head(cq).res = "err"
    OBVIOUS
  <2>3. S = [R EXCEPT !.pw = R.pw - 1, !.closing = R.closing \/ Head(cq).res = "err",
                      !.inuse = R.inuse \ {w}]
    BY <1>1, <1>2, <1>3, <2>1 DEF Sent, Session
  <2>4. S.pw = R.pw - 1 /\ S.inuse = R.inuse \ {w} /\ S.recv = R.recv
    BY <2>3 DEF Session
  <2>5. S \in Session
    BY <1>5, <2>1, <2>3 DEF Session
  <2> QED
    BY <1>5, <2>1, <2>4, <2>5
<1>7. /\ RequestsUnique'
      /\ \A r : Outstanding(r)' <=> Outstanding(r) /\ (Head(cq).more \/ r # Head(cq).req)
  BY <1>4, Parts, RingsConsume DEF Kept
<1>8. Settled(s, S)
  <2>1. Outstanding(ReadReq(s))' <=> Outstanding(ReadReq(s))
    BY <1>5, <1>7, RequestKinds
  <2>2. \A v \in WrIds : Outstanding(WriteReq(s, v))' <=> Outstanding(WriteReq(s, v)) /\ v # w
    BY <1>5, <1>7, RequestKinds
  <2>3. /\ \A v \in WrIds : v \in sess[s].inuse <=> Outstanding(WriteReq(s, v))
        /\ sess[s].recv <=> Outstanding(ReadReq(s))
    BY <1>5, Parts, AccountsSay DEF Kept
  <2> QED
    BY <1>6, <2>1, <2>2, <2>3 DEF Settled
<1>9. OthersKept(s)
  BY <1>5, <1>7, RequestKinds DEF OthersKept
<1>10. Accounts'
  BY <1>4, <1>5, <1>8, <1>9, Parts, CleanupAccounts DEF Kept
<1>11. MidRead' /\ MidAccept'
  BY <1>4 DEF MidRead, MidAccept
<1> QED
  BY <1>7, <1>10, <1>11 DEF Kept

LEMMA LifetimeWorker == LifetimeInv /\ Worker => LifetimeInv'
<1> SUFFICES ASSUME LifetimeInv, Worker PROVE LifetimeInv'
  OBVIOUS
<1>1. TypeOK'
  BY TypeWorker
<1>2. Kept'
  BY KeptByLoop, KeptBySignal, KeptByRearm, KeptByAccept, KeptByReadEnd, KeptByNoBufs,
     KeptByReadData, KeptByReply, KeptByReject, KeptByFinishRead, KeptByWrite DEF Worker
<1> QED
  BY <1>1, <1>2 DEF LifetimeInv, Kept, Accounts

-------------------------------------------------------------------------------
(***************************************************************************)
(* The theorems.                                                           *)
(***************************************************************************)

LEMMA LifetimeInit == Init => LifetimeInv
<1> SUFFICES ASSUME Init PROVE LifetimeInv
  OBVIOUS
<1>1. /\ sq = << [req |-> AcceptReq, fd |-> None], [req |-> SignalReq, fd |-> None] >>
      /\ flight = {} /\ cq = << >> /\ live = {} /\ sess = [s \in Sessions |-> FreeSession]
      /\ pc = "wait"
  BY DEF Init
<1>2. Len(sq) = 2 /\ sq[1].req = AcceptReq /\ sq[2].req = SignalReq
  BY <1>1
<1>3. \A r : InSq(r) <=> r = AcceptReq \/ r = SignalReq
  BY <1>2 DEF InSq, HasReq
<1>4. \A r : ~InFlight(r) /\ ~InCq(r) /\ ~HasMore(cq, r)
  BY <1>1 DEF InFlight, InCq, HasFinal, HasMore
<1>5. \A r : Outstanding(r) <=> r = AcceptReq \/ r = SignalReq
  BY <1>3, <1>4 DEF Outstanding
<1>6. RequestsUnique
  <2>1. DistinctReqs(sq)
    BY <1>2, RequestKinds DEF DistinctReqs
  <2>2. FinalIsLast(cq) /\ \A i \in 1..Len(cq) : cq[i].more => cq[i].res = "data"
    BY <1>1 DEF FinalIsLast
  <2> QED
    BY <1>1, <1>4, <2>1, <2>2 DEF RequestsUnique
<1>7. FreeSession.pw = 0 /\ FreeSession.inuse = {} /\ FreeSession.recv = FALSE
  BY DEF FreeSession
<1>8. FreeIsBlank /\ WritesAccounted /\ ReadsMatch
  BY <1>1, <1>5, <1>7, RequestKinds, FS_EmptySet DEF FreeIsBlank, WritesAccounted, ReadsMatch
<1>9. MidRead /\ MidAccept
  BY <1>1 DEF MidRead, MidAccept
<1> QED
  BY <1>6, <1>8, <1>9, TypeInit DEF LifetimeInv

\* Every step preserves the inductive invariant.
LEMMA LifetimeStep == LifetimeInv /\ [Next]_vars => LifetimeInv'
<1> SUFFICES ASSUME LifetimeInv, [Next]_vars PROVE LifetimeInv'
  OBVIOUS
<1>1. CASE Worker
  BY <1>1, LifetimeWorker
<1>2. CASE Environment
  BY <1>2, LifetimeEnvironment
<1>3. CASE UNCHANGED vars
  BY <1>3 DEF vars, worker, memory, ring, client, LifetimeInv, TypeOK, FreeIsBlank,
     WritesAccounted, ReadsMatch, RequestsUnique, MidRead, MidAccept, Outstanding,
     InSq, InFlight, InCq
<1> QED
  BY <1>1, <1>2, <1>3 DEF Next, Environment, Terminated

\* The accounts of the worker's sessions (recv_active, pending_writes, in_use:
\* server.c:84-127, 699-790) agree with the rings in every reachable state.
THEOREM LifetimeInvariant == Spec => []LifetimeInv
<1>1. Init => LifetimeInv
  BY LifetimeInit
<1>2. LifetimeInv /\ [Next]_vars => LifetimeInv'
  BY LifetimeStep
<1> QED
  BY <1>1, <1>2, PTL DEF Spec

\* Every variable keeps its type: pending_writes never goes below zero.
THEOREM TypeCorrect == Spec => []TypeOK
<1>1. LifetimeInv => TypeOK
  BY DEF LifetimeInv
<1> QED
  BY <1>1, LifetimeInvariant, PTL

\* pending_writes and in_use count the outstanding sends exactly
\* (server.c:98-127, 772-788).
THEOREM WritesAreAccounted == Spec => []WritesAccounted
<1>1. LifetimeInv => WritesAccounted
  BY DEF LifetimeInv
<1> QED
  BY <1>1, LifetimeInvariant, PTL

\* recv_active says whether a live session's read is outstanding
\* (server.c:704-706, 730-733, 752-761).
THEOREM ReadsAreAccounted == Spec => []ReadAccounted
<1>1. LifetimeInv => ReadAccounted
  BY DEF LifetimeInv, ReadsMatch, ReadAccounted, TypeOK
<1> QED
  BY <1>1, LifetimeInvariant, PTL

\* Each request is in the rings at most once.
THEOREM RequestsAreUnique == Spec => []RequestsUnique
<1>1. LifetimeInv => RequestsUnique
  BY DEF LifetimeInv
<1> QED
  BY <1>1, LifetimeInvariant, PTL

\* A request that is anywhere in the rings belongs to a live session.
LEMMA OutstandingIsLive ==
    ASSUME LifetimeInv, NEW r \in Requests, Outstanding(r)
    PROVE  r.ses \in live \cup {None}
<1>1. CASE r.op \in {"accept", "signal"}
  BY <1>1, KindOf, RequestKinds
<1>2. CASE r.op \in {"read", "write"}
  BY <1>2, KindOf, Parts, RecordedIsLive DEF Kept
<1> QED
  BY <1>1, <1>2, KindOf

\* cleanup_session_if_needed frees no session whose address can still come
\* back as user data (server.c:84-96).
THEOREM NoDangling == Spec => []NoDanglingRequest
<1>1. LifetimeInv => NoDanglingRequest
  <2> SUFFICES ASSUME LifetimeInv PROVE NoDanglingRequest
    OBVIOUS
  <2>1. TypeOK /\ Kept
    BY Parts
  <2>2. ASSUME NEW i \in 1..Len(sq) PROVE sq[i].req.ses \in live \cup {None}
    <3>1. sq[i].req \in Requests /\ Outstanding(sq[i].req)
      <4>1. sq[i] \in Sqe
        BY <2>1 DEF TypeOK
      <4>2. InSq(sq[i].req)
        BY DEF InSq, HasReq
      <4> QED
        BY <4>1, <4>2 DEF Sqe, Outstanding
    <3> QED
      BY <3>1, OutstandingIsLive
  <2>3. ASSUME NEW f \in flight PROVE f.req.ses \in live \cup {None}
    <3>1. f.req \in Requests /\ Outstanding(f.req)
      BY <2>1 DEF TypeOK, Flight, Outstanding, InFlight
    <3> QED
      BY <3>1, OutstandingIsLive
  <2>4. ASSUME NEW i \in 1..Len(cq) PROVE cq[i].req.ses \in live \cup {None}
    <3>1. cq[i].req \in Requests
      <4>1. cq[i] \in Cqe
        BY <2>1 DEF TypeOK
      <4> QED
        BY <4>1 DEF Cqe
    <3>2. HasFinal(cq, cq[i].req) \/ HasMore(cq, cq[i].req)
      BY DEF HasFinal, HasMore
    <3>3. Outstanding(cq[i].req)
      BY <2>1, <3>1, <3>2, MoreIsOutstanding DEF Kept, Outstanding, InCq
    <3> QED
      BY <3>1, <3>3, OutstandingIsLive
  <2>5. pc = "read" => cur.ses \in live
    BY <2>1 DEF Kept, MidRead
  <2> QED
    BY <2>2, <2>3, <2>4, <2>5 DEF NoDanglingRequest
<1> QED
  BY <1>1, LifetimeInvariant, PTL
===============================================================================
