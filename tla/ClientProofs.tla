----------------------------- MODULE ClientProofs -----------------------------
(***************************************************************************)
(* Proofs about Client: whatever the number of connections and workers,    *)
(* and however reads cut the stream of replies, each is counted once.      *)
(***************************************************************************)
EXTENDS Client, SequenceTheorems, TLAPS

Piece == [of : Nat, part : {"header", "payload"}]
Header(m)  == [of |-> m, part |-> "header"]
Payload(m) == [of |-> m, part |-> "payload"]

\* The pieces come in pairs; pair m begins with First(j, m).  Up to reply j,
\* which is sent short, a pair is a reply; from there on the payload of one
\* reply and the header of the next are.
First(j, m)  == IF m <= j THEN Header(m) ELSE Payload(m)
Second(j, m) == IF m < j THEN Payload(m) ELSE Header(m + 1)

\* R is what follows the first n pairs.
Follows(R, n, j) ==
    \A k \in Nat : k > 0 => /\ 2 * k - 1 <= Len(R) => R[2 * k - 1] = First(j, n + k)
                            /\ 2 * k <= Len(R) => R[2 * k] = Second(j, n + k)

\* C counts the first pairs, and none behind the short reply.
Counts(C, j) ==
    /\ Len(C) <= j
    /\ \A i \in 1..Len(C) : C[i] = <<i, IF i < j THEN i ELSE i + 1>>

\* A connection that has counted C and has R to read, of "sent" replies.
Accounted(C, R, sent, short) ==
    \E j \in Nat :
        /\ j > 0 /\ (short <=> j <= sent)
        /\ Counts(C, j) /\ Follows(R, Len(C), j)
        /\ 2 * Len(C) + Len(R) = IF short THEN 2 * sent - 1 ELSE 2 * sent

Typed ==
    /\ wire \in [Conns -> Seq(Piece)] /\ rbuf \in [Conns -> Seq(Piece)]
    /\ counted \in [Conns -> Seq(Nat \X Nat)]
    /\ answered \in [Conns -> Nat] /\ cut \in [Conns -> BOOLEAN]

ReplyInv ==
    Typed /\ \A c \in Conns : Accounted(counted[c], rbuf[c] \o wire[c], answered[c], cut[c])

\* Unless a reply was sent short, what a read leaves is at most a header.
LessThanOne == \A c \in Conns : cut[c] \/ Len(rbuf[c]) <= 1

-------------------------------------------------------------------------------
LEMMA PiecesTyped ==
    \A m \in Nat : Header(m) \in Piece /\ Payload(m) \in Piece
  BY DEF Header, Payload, Piece

LEMMA FirstOfPair ==
    ASSUME NEW R \in Seq(Piece), NEW n \in Nat, NEW j \in Nat, Follows(R, n, j),
           NEW k \in Nat, k > 0, 2 * k - 1 <= Len(R)
    PROVE  2 * k - 1 \in 1..Len(R) /\ R[2 * k - 1] = First(j, n + k)
<1>1. Len(R) \in Nat
  OBVIOUS
<1> QED
  BY <1>1 DEF Follows

LEMMA SecondOfPair ==
    ASSUME NEW R \in Seq(Piece), NEW n \in Nat, NEW j \in Nat, Follows(R, n, j),
           NEW k \in Nat, k > 0, 2 * k <= Len(R)
    PROVE  2 * k \in 1..Len(R) /\ R[2 * k] = Second(j, n + k)
<1>1. Len(R) \in Nat
  OBVIOUS
<1> QED
  BY <1>1 DEF Follows

\* A worker sends the next reply whole.
LEMMA SentWhole ==
    ASSUME NEW C \in Seq(Nat \X Nat), NEW R \in Seq(Piece), NEW sent \in Nat,
           NEW short \in BOOLEAN, Accounted(C, R, sent, short)
    PROVE  Accounted(C, R \o <<Header(sent + 1), Payload(sent + 1)>>, sent + 1, short)
<1>1. PICK j \in Nat :
        /\ j > 0 /\ (short <=> j <= sent)
        /\ Counts(C, j) /\ Follows(R, Len(C), j)
        /\ 2 * Len(C) + Len(R) = IF short THEN 2 * sent - 1 ELSE 2 * sent
  BY DEF Accounted
<1>2. PICK n : n = Len(C)
  OBVIOUS
<1>3. PICK Q : Q = R \o <<Header(sent + 1), Payload(sent + 1)>>
  OBVIOUS
<1>4. /\ n \in Nat /\ Len(R) \in Nat /\ Len(Q) = Len(R) + 2
      /\ \A i \in 1..Len(R) : Q[i] = R[i]
      /\ Q[Len(R) + 1] = Header(sent + 1) /\ Q[Len(R) + 2] = Payload(sent + 1)
  BY <1>2, <1>3
<1>5. CASE short
  <2>1. /\ j <= sent /\ Len(R) = 2 * (sent - n) - 1 /\ sent - n \in Nat /\ sent - n > 0
    BY <1>1, <1>2, <1>4, <1>5
  <2>2. ASSUME NEW k \in Nat, k > 0, 2 * k - 1 <= Len(Q)
        PROVE  Q[2 * k - 1] = First(j, n + k)
    <3>1. CASE 2 * k - 1 <= Len(R)
      <4>1. Follows(R, n, j) /\ n \in Nat
        BY <1>1, <1>2, <1>4
      <4>2. 2 * k - 1 \in 1..Len(R) /\ R[2 * k - 1] = First(j, n + k)
        BY <2>2, <3>1, <4>1, FirstOfPair
      <4> QED
        BY <1>4, <4>2
    <3>2. CASE 2 * k - 1 > Len(R)
      <4>1. k = sent - n + 1 /\ 2 * k - 1 = Len(R) + 2 /\ n + k = sent + 1
        BY <1>4, <2>1, <2>2, <3>2
      <4>2. Q[2 * k - 1] = Payload(sent + 1)
        BY <1>4, <4>1
      <4>3. First(j, n + k) = Payload(sent + 1)
        BY <2>1, <4>1 DEF First
      <4> QED
        BY <4>2, <4>3
    <3> QED
      BY <1>4, <3>1, <3>2
  <2>3. ASSUME NEW k \in Nat, k > 0, 2 * k <= Len(Q)
        PROVE  Q[2 * k] = Second(j, n + k)
    <3>1. CASE 2 * k <= Len(R)
      <4>1. Follows(R, n, j) /\ n \in Nat
        BY <1>1, <1>2, <1>4
      <4>2. 2 * k \in 1..Len(R) /\ R[2 * k] = Second(j, n + k)
        BY <2>3, <3>1, <4>1, SecondOfPair
      <4> QED
        BY <1>4, <4>2
    <3>2. CASE 2 * k > Len(R)
      <4>1. k = sent - n /\ 2 * k = Len(R) + 1 /\ n + k = sent
        BY <1>4, <2>1, <2>3, <3>2
      <4>2. Q[2 * k] = Header(sent + 1)
        BY <1>4, <4>1
      <4>3. Second(j, n + k) = Header(sent + 1)
        BY <2>1, <4>1 DEF Second
      <4> QED
        BY <4>2, <4>3
    <3> QED
      BY <1>4, <3>1, <3>2
  <2>4. Follows(Q, n, j)
    BY <2>2, <2>3 DEF Follows
  <2>5. j <= sent + 1 /\ 2 * n + Len(Q) = 2 * (sent + 1) - 1
    BY <1>4, <2>1
  <2> QED
    BY <1>1, <1>2, <1>3, <1>5, <2>4, <2>5 DEF Accounted
<1>6. CASE ~short
  <2>1. j > sent /\ Len(R) = 2 * (sent - n) /\ sent - n \in Nat
    BY <1>1, <1>2, <1>4, <1>6
  <2>2. ASSUME NEW k \in Nat, k > 0, 2 * k - 1 <= Len(Q)
        PROVE  Q[2 * k - 1] = First(sent + 2, n + k)
    <3>1. CASE 2 * k - 1 <= Len(R)
      <4>1. Q[2 * k - 1] = First(j, n + k)
        <5>1. Follows(R, n, j) /\ n \in Nat
          BY <1>1, <1>2, <1>4
        <5>2. 2 * k - 1 \in 1..Len(R) /\ R[2 * k - 1] = First(j, n + k)
          BY <2>2, <3>1, <5>1, FirstOfPair
        <5> QED
          BY <1>4, <5>2
      <4>2. n + k <= sent
        BY <1>4, <2>1, <3>1
      <4> QED
        BY <1>4, <2>1, <4>1, <4>2 DEF First
    <3>2. CASE 2 * k - 1 > Len(R)
      <4>1. k = sent - n + 1 /\ 2 * k - 1 = Len(R) + 1 /\ n + k = sent + 1
        BY <1>4, <2>1, <2>2, <3>2
      <4>2. Q[2 * k - 1] = Header(sent + 1)
        BY <1>4, <4>1
      <4>3. First(sent + 2, n + k) = Header(sent + 1)
        BY <4>1 DEF First
      <4> QED
        BY <4>2, <4>3
    <3> QED
      BY <1>4, <3>1, <3>2
  <2>3. ASSUME NEW k \in Nat, k > 0, 2 * k <= Len(Q)
        PROVE  Q[2 * k] = Second(sent + 2, n + k)
    <3>1. CASE 2 * k <= Len(R)
      <4>1. Q[2 * k] = Second(j, n + k)
        <5>1. Follows(R, n, j) /\ n \in Nat
          BY <1>1, <1>2, <1>4
        <5>2. 2 * k \in 1..Len(R) /\ R[2 * k] = Second(j, n + k)
          BY <2>3, <3>1, <5>1, SecondOfPair
        <5> QED
          BY <1>4, <5>2
      <4>2. n + k <= sent
        BY <1>4, <2>1, <3>1
      <4> QED
        BY <1>4, <2>1, <4>1, <4>2 DEF Second
    <3>2. CASE 2 * k > Len(R)
      <4>1. k = sent - n + 1 /\ 2 * k = Len(R) + 2 /\ n + k = sent + 1
        BY <1>4, <2>1, <2>3, <3>2
      <4>2. Q[2 * k] = Payload(sent + 1)
        BY <1>4, <4>1
      <4>3. Second(sent + 2, n + k) = Payload(sent + 1)
        BY <4>1 DEF Second
      <4> QED
        BY <4>2, <4>3
    <3> QED
      BY <1>4, <3>1, <3>2
  <2>4. Follows(Q, n, sent + 2)
    BY <2>2, <2>3 DEF Follows
  <2>5. ~(sent + 2 <= sent + 1) /\ n <= sent + 2 /\ 2 * n + Len(Q) = 2 * (sent + 1)
    BY <1>4, <2>1
  <2>6. Counts(C, sent + 2)
    <3>1. \A i \in 1..Len(C) : i < j /\ i < sent + 2
      BY <1>2, <1>4, <2>1
    <3> QED
      BY <1>1, <1>2, <2>5, <3>1 DEF Counts
  <2> QED
    BY <1>2, <1>3, <1>6, <2>4, <2>5, <2>6 DEF Accounted
<1> QED
  BY <1>5, <1>6

\* A worker sends the next reply short, the only one that is.
LEMMA SentShort ==
    ASSUME NEW C \in Seq(Nat \X Nat), NEW R \in Seq(Piece), NEW sent \in Nat,
           Accounted(C, R, sent, FALSE)
    PROVE  Accounted(C, R \o <<Header(sent + 1)>>, sent + 1, TRUE)
<1>1. PICK j \in Nat : /\ ~(j <= sent) /\ Counts(C, j) /\ Follows(R, Len(C), j)
                       /\ 2 * Len(C) + Len(R) = 2 * sent
  BY DEF Accounted
<1>2. PICK n : n = Len(C)
  OBVIOUS
<1>3. PICK Q : Q = R \o <<Header(sent + 1)>>
  OBVIOUS
<1>4. /\ n \in Nat /\ Len(R) \in Nat /\ Len(Q) = Len(R) + 1
      /\ \A i \in 1..Len(R) : Q[i] = R[i]
      /\ Q[Len(R) + 1] = Header(sent + 1)
  BY <1>2, <1>3
<1>5. j > sent /\ Len(R) = 2 * (sent - n) /\ sent - n \in Nat
  BY <1>1, <1>2, <1>4
<1>6. ASSUME NEW k \in Nat, k > 0, 2 * k - 1 <= Len(Q)
      PROVE  Q[2 * k - 1] = First(sent + 1, n + k)
  <2>1. CASE 2 * k - 1 <= Len(R)
    <3>1. Q[2 * k - 1] = First(j, n + k)
      <4>1. Follows(R, n, j) /\ n \in Nat
        BY <1>1, <1>2, <1>4
      <4>2. 2 * k - 1 \in 1..Len(R) /\ R[2 * k - 1] = First(j, n + k)
        BY <1>6, <2>1, <4>1, FirstOfPair
      <4> QED
        BY <1>4, <4>2
    <3>2. n + k <= sent
      BY <1>4, <1>5, <2>1
    <3> QED
      BY <1>4, <1>5, <3>1, <3>2 DEF First
  <2>2. CASE 2 * k - 1 > Len(R)
    <3>1. k = sent - n + 1 /\ 2 * k - 1 = Len(R) + 1 /\ n + k = sent + 1
      BY <1>4, <1>5, <1>6, <2>2
    <3>2. Q[2 * k - 1] = Header(sent + 1)
      BY <1>4, <3>1
    <3>3. First(sent + 1, n + k) = Header(sent + 1)
      BY <3>1 DEF First
    <3> QED
      BY <3>2, <3>3
  <2> QED
    BY <1>4, <2>1, <2>2
<1>7. ASSUME NEW k \in Nat, k > 0, 2 * k <= Len(Q)
      PROVE  Q[2 * k] = Second(sent + 1, n + k)
  <2>1. 2 * k <= Len(R) /\ n + k <= sent
    BY <1>4, <1>5, <1>7
  <2>2. Q[2 * k] = Second(j, n + k)
    <3>1. Follows(R, n, j) /\ n \in Nat
      BY <1>1, <1>2, <1>4
    <3>2. 2 * k \in 1..Len(R) /\ R[2 * k] = Second(j, n + k)
      BY <1>7, <2>1, <3>1, SecondOfPair
    <3> QED
      BY <1>4, <3>2
  <2>3. n + k < j /\ n + k < sent + 1
    BY <1>4, <1>5, <2>1
  <2> QED
    BY <2>2, <2>3 DEF Second
<1>8. Follows(Q, n, sent + 1)
  BY <1>6, <1>7 DEF Follows
<1>9. Counts(C, sent + 1)
  <2>1. Len(C) <= sent + 1 /\ \A i \in 1..Len(C) : i < j /\ i < sent + 1
    BY <1>2, <1>4, <1>5
  <2> QED
    BY <1>1, <1>2, <2>1 DEF Counts
<1>10. 2 * n + Len(Q) = 2 * (sent + 1) - 1 /\ sent + 1 \in Nat /\ sent + 1 > 0
  BY <1>4, <1>5
<1> QED
  BY <1>2, <1>3, <1>8, <1>9, <1>10 DEF Accounted

\* A read takes the complete messages at the front of the buffer b: those up to
\* the end of the buffer, or up to the pair that begins with a payload.
LEMMA CompleteIs ==
    ASSUME NEW b \in Seq(Piece), NEW n \in Nat, NEW j \in Nat, n <= j, Follows(b, n, j)
    PROVE  /\ Complete(b) \in Nat /\ 2 * Complete(b) <= Len(b)
           /\ n + Complete(b) <= j
           /\ n + Complete(b) = j \/ Len(b) <= 2 * Complete(b) + 1
<1>a. PICK half : half = Len(b) \div 2
  OBVIOUS
<1> DEFINE P(k) == /\ \A i \in 1..k : b[2 * i - 1].part = "header"
                   /\ k < half => b[2 * k + 1].part # "header"
<1>1. Len(b) \in Nat /\ half \in Nat /\ 2 * half <= Len(b) /\ Len(b) <= 2 * half + 1
  BY <1>a
<1>2. ASSUME NEW i \in Nat, i > 0, i <= half
      PROVE  b[2 * i - 1].part = "header" <=> n + i <= j
  <2>1. 2 * i - 1 <= Len(b)
    BY <1>1, <1>2
  <2>2. b[2 * i - 1] = First(j, n + i)
    BY <1>2, <2>1, FirstOfPair
  <2> QED
    BY <2>2 DEF First, Header, Payload
<1>3. \E k \in 0..half : P(k)
  <2>1. CASE n + half <= j
    <3>1. P(half)
      BY <1>1, <1>2, <2>1
    <3> QED
      BY <1>1, <3>1
  <2>2. CASE n + half > j
    <3>1. PICK k \in Nat : k = j - n
      OBVIOUS
    <3>2. k < half /\ k \in 0..half
      BY <1>1, <2>2, <3>1
    <3>3. ASSUME NEW i \in 1..k PROVE b[2 * i - 1].part = "header"
      BY <1>1, <1>2, <3>1, <3>2
    <3>4. b[2 * k + 1].part # "header"
      <4>1. k + 1 \in Nat /\ k + 1 > 0 /\ k + 1 <= half /\ ~(n + (k + 1) <= j)
        BY <1>1, <3>1, <3>2
      <4>2. 2 * (k + 1) - 1 = 2 * k + 1
        OBVIOUS
      <4>3. b[2 * (k + 1) - 1].part # "header"
        BY <1>2, <4>1
      <4> QED
        BY <4>2, <4>3
    <3> QED
      BY <3>2, <3>3, <3>4
  <2> QED
    BY <1>1, <2>1, <2>2
<1>4. Complete(b) \in 0..half /\ P(Complete(b))
  BY <1>a, <1>3 DEF Complete
<1>5. PICK k : k = Complete(b)
  OBVIOUS
<1>6. k \in Nat /\ k <= half /\ \A i \in 1..k : b[2 * i - 1].part = "header"
  BY <1>1, <1>4, <1>5
<1>7. k > 0 => n + k <= j
  <2> SUFFICES ASSUME k > 0 PROVE n + k <= j
    OBVIOUS
  <2>1. k \in 1..k
    BY <1>6
  <2> QED
    BY <1>2, <1>6, <2>1
<1>8. k = half \/ n + k = j
  <2> SUFFICES ASSUME k # half PROVE n + k = j
    OBVIOUS
  <2>1. k < half /\ k + 1 \in Nat /\ k + 1 > 0 /\ k + 1 <= half
    BY <1>1, <1>6
  <2>2. b[2 * k + 1].part # "header" /\ 2 * (k + 1) - 1 = 2 * k + 1
    BY <1>4, <1>5, <2>1
  <2>3. ~(n + (k + 1) <= j)
    BY <1>2, <2>1, <2>2
  <2>4. n + k <= j
    BY <1>6, <1>7
  <2> QED
    BY <1>6, <2>3, <2>4
<1> QED
  BY <1>1, <1>5, <1>6, <1>7, <1>8

\* Q is what is behind the first d pieces of R.
Behind(Q, R, d) ==
    /\ d <= Len(R) /\ Len(Q) = Len(R) - d
    /\ \A i \in 1..Len(Q) : Q[i] = R[d + i]

LEMMA BehindPrefix ==
    ASSUME NEW b \in Seq(Piece), NEW w \in Seq(Piece), NEW r \in Seq(Piece),
           NEW d \in Nat, Behind(r, b, d)
    PROVE  r \o w \in Seq(Piece) /\ Behind(r \o w, b \o w, d)
<1>2. Len(b) \in Nat /\ Len(w) \in Nat /\ Len(r) \in Nat
  OBVIOUS
<1>3. /\ r \in Seq(Piece) /\ Len(r) = Len(b) - d /\ d <= Len(b)
      /\ \A i \in 1..(Len(b) - d) : r[i] = b[d + i]
  BY <1>2 DEF Behind
<1>4. /\ r \o w \in Seq(Piece) /\ Len(r \o w) = Len(r) + Len(w)
      /\ \A i \in 1..(Len(r) + Len(w)) :
            (r \o w)[i] = IF i <= Len(r) THEN r[i] ELSE w[i - Len(r)]
  BY <1>3, ConcatProperties
<1>5. /\ Len(b \o w) = Len(b) + Len(w)
      /\ \A i \in 1..(Len(b) + Len(w)) :
            (b \o w)[i] = IF i <= Len(b) THEN b[i] ELSE w[i - Len(b)]
  BY ConcatProperties
<1>6. ASSUME NEW i \in 1..(Len(r) + Len(w)) PROVE (r \o w)[i] = (b \o w)[d + i]
  <2>1. d + i \in 1..(Len(b) + Len(w)) /\ i \in Nat /\ i > 0
    BY <1>2, <1>3
  <2>2. CASE i <= Len(r)
    <3>1. i \in 1..(Len(b) - d) /\ d + i <= Len(b)
      BY <1>2, <1>3, <2>1, <2>2
    <3>2. (r \o w)[i] = r[i] /\ (b \o w)[d + i] = b[d + i]
      BY <1>4, <1>5, <2>1, <2>2, <3>1
    <3> QED
      BY <1>3, <3>1, <3>2
  <2>3. CASE i > Len(r)
    <3>1. ~(i <= Len(r)) /\ ~(d + i <= Len(b)) /\ i - Len(r) = d + i - Len(b)
      BY <1>2, <1>3, <2>1, <2>3
    <3>2. (r \o w)[i] = w[i - Len(r)] /\ (b \o w)[d + i] = w[d + i - Len(b)]
      BY <1>4, <1>5, <2>1, <3>1
    <3> QED
      BY <3>1, <3>2
  <2>4. i <= Len(r) \/ i > Len(r)
    BY <1>2, <1>3, <2>1
  <2> QED
    BY <2>2, <2>3, <2>4, Zenon
<1>7. d <= Len(b \o w) /\ Len(r \o w) = Len(b \o w) - d
  BY <1>2, <1>3, <1>4, <1>5
<1> QED
  BY <1>4, <1>6, <1>7 DEF Behind

\* What is left of b when its first K pairs are counted.
LEMMA RestIs ==
    ASSUME NEW b \in Seq(Piece), NEW K \in Nat, K = Complete(b), 2 * K <= Len(b)
    PROVE  Rest(b) \in Seq(Piece) /\ Behind(Rest(b), b, 2 * K)
<1>1. PICK d \in Nat : d = 2 * K
  OBVIOUS
<1>2. Rest(b) = SubSeq(b, d + 1, Len(b)) /\ d <= Len(b) /\ Len(b) \in Nat
  BY <1>1 DEF Rest
<1>3. /\ SubSeq(b, d + 1, Len(b)) \in Seq(Piece)
      /\ Len(SubSeq(b, d + 1, Len(b))) = Len(b) - d
      /\ \A i \in 1..(Len(b) - d) : SubSeq(b, d + 1, Len(b))[i] = b[d + i]
  BY <1>2
<1>4. Rest(b) \in Seq(Piece) /\ Behind(Rest(b), b, d)
  BY <1>2, <1>3 DEF Behind
<1> QED
  BY <1>1, <1>4

LEMMA FollowsFrom ==
    ASSUME NEW R \in Seq(Piece), NEW Q \in Seq(Piece), NEW n \in Nat, NEW K \in Nat,
           NEW j \in Nat, Follows(R, n, j), Behind(Q, R, 2 * K)
    PROVE  Follows(Q, n + K, j)
<1>0. Len(Q) = Len(R) - 2 * K /\ \A i \in 1..Len(Q) : Q[i] = R[2 * K + i]
  BY DEF Behind
<1>1. Len(R) \in Nat /\ Len(Q) \in Nat
  OBVIOUS
<1>2. ASSUME NEW k \in Nat, k > 0, 2 * k - 1 <= Len(Q)
      PROVE  Q[2 * k - 1] = First(j, (n + K) + k)
  <2>1. PICK m \in Nat : m = K + k
    OBVIOUS
  <2>2. /\ m > 0 /\ 2 * m - 1 <= Len(R) /\ 2 * k - 1 \in 1..Len(Q)
        /\ 2 * K + (2 * k - 1) = 2 * m - 1 /\ n + m = (n + K) + k
    BY <1>0, <1>1, <1>2, <2>1
  <2>3. R[2 * m - 1] = First(j, n + m)
    <3>1. 2 * m - 1 <= Len(R) /\ m > 0
      BY <2>2
    <3> QED
      BY <3>1, FirstOfPair
  <2> QED
    BY <1>0, <2>2, <2>3
<1>3. ASSUME NEW k \in Nat, k > 0, 2 * k <= Len(Q)
      PROVE  Q[2 * k] = Second(j, (n + K) + k)
  <2>1. PICK m \in Nat : m = K + k
    OBVIOUS
  <2>2. /\ m > 0 /\ 2 * m <= Len(R) /\ 2 * k \in 1..Len(Q)
        /\ 2 * K + 2 * k = 2 * m /\ n + m = (n + K) + k
    BY <1>0, <1>1, <1>3, <2>1
  <2>3. R[2 * m] = Second(j, n + m)
    BY <2>2, SecondOfPair
  <2> QED
    BY <1>0, <2>2, <2>3
<1> QED
  BY <1>2, <1>3 DEF Follows

LEMMA PairsTyped ==
    ASSUME NEW K \in Nat, NEW E, NEW f, NEW g, E = [i \in 1..K |-> <<f[i], g[i]>>],
           \A i \in 1..K : f[i] \in Nat /\ g[i] \in Nat
    PROVE  E \in Seq(Nat \X Nat) /\ Len(E) = K
<1>1. ASSUME NEW i \in 1..K PROVE <<f[i], g[i]>> \in Nat \X Nat
  <2>1. PICK x, y : x = f[i] /\ y = g[i] /\ x \in Nat /\ y \in Nat
    OBVIOUS
  <2>2. <<x, y>> \in Nat \X Nat
    BY <2>1
  <2> QED
    BY <2>1, <2>2
<1>2. PICK T : T = Nat \X Nat
  OBVIOUS
<1>3. E \in [1..K -> T] /\ E = [i \in 1..K |-> E[i]]
  <2>1. \A i \in 1..K : E[i] \in T
    BY <1>1, <1>2
  <2> QED
    BY <2>1
<1>4. E \in Seq(T)
  BY <1>3, SeqDef
<1>5. Len(E) = K
  BY <1>3, <1>4
<1> QED
  BY <1>2, <1>4, <1>5

LEMMA Joined ==
    ASSUME NEW S, NEW s \in Seq(S), NEW t \in Seq(S)
    PROVE  /\ s \o t \in Seq(S) /\ Len(s \o t) = Len(s) + Len(t)
           /\ \A i \in 1..Len(s) : (s \o t)[i] = s[i]
           /\ \A i \in 1..Len(t) : (s \o t)[Len(s) + i] = t[i]
  OBVIOUS

\* What is counted of it, with what is left and what has not been read, w.
LEMMA Taken ==
    ASSUME NEW C \in Seq(Nat \X Nat), NEW b \in Seq(Piece), NEW w \in Seq(Piece),
           NEW sent \in Nat, NEW short \in BOOLEAN, Accounted(C, b \o w, sent, short),
           NEW E, E = [i \in 1..Complete(b) |-> <<b[2 * i - 1].of, b[2 * i].of>>]
    PROVE  /\ C \o E \in Seq(Nat \X Nat) /\ Rest(b) \in Seq(Piece)
           /\ Accounted(C \o E, Rest(b) \o w, sent, short)
           /\ short \/ Len(Rest(b)) <= 1
<1>1. PICK j \in Nat :
        /\ j > 0 /\ (short <=> j <= sent)
        /\ Counts(C, j) /\ Follows(b \o w, Len(C), j)
        /\ 2 * Len(C) + Len(b \o w) = IF short THEN 2 * sent - 1 ELSE 2 * sent
  BY DEF Accounted
<1>2. PICK n \in Nat : n = Len(C)
  <2>1. Len(C) \in Nat
    OBVIOUS
  <2> QED
    BY <2>1
<1>3. PICK R \in Seq(Piece) : R = b \o w
  <2>1. b \o w \in Seq(Piece)
    OBVIOUS
  <2> QED
    BY <2>1
<1>4. /\ Len(b) \in Nat /\ Len(w) \in Nat /\ Len(R) = Len(b) + Len(w)
      /\ \A i \in 1..Len(b) : R[i] = b[i]
      /\ \A i \in 1..Len(w) : R[Len(b) + i] = w[i]
  BY <1>3
<1>5. n <= j /\ Follows(R, n, j)
  BY <1>1, <1>2, <1>3 DEF Counts
<1>6. Follows(b, n, j)
  <2>1. ASSUME NEW k \in Nat, k > 0, 2 * k - 1 <= Len(b)
        PROVE  b[2 * k - 1] = First(j, n + k)
    <3>1. 2 * k - 1 \in 1..Len(b) /\ 2 * k - 1 <= Len(R)
      BY <1>4, <2>1
    <3>2. R[2 * k - 1] = First(j, n + k)
      BY <1>5, <2>1, <3>1, FirstOfPair
    <3> QED
      BY <1>4, <3>1, <3>2
  <2>2. ASSUME NEW k \in Nat, k > 0, 2 * k <= Len(b)
        PROVE  b[2 * k] = Second(j, n + k)
    <3>1. 2 * k \in 1..Len(b) /\ 2 * k <= Len(R)
      BY <1>4, <2>2
    <3>2. R[2 * k] = Second(j, n + k)
      BY <1>5, <2>2, <3>1, SecondOfPair
    <3> QED
      BY <1>4, <3>1, <3>2
  <2> QED
    BY <2>1, <2>2 DEF Follows
<1>7. PICK K \in Nat : K = Complete(b) /\ 2 * K <= Len(b) /\ n + K <= j
                     /\ (n + K = j \/ Len(b) <= 2 * K + 1)
  <2>1. /\ Complete(b) \in Nat /\ 2 * Complete(b) <= Len(b) /\ n + Complete(b) <= j
        /\ n + Complete(b) = j \/ Len(b) <= 2 * Complete(b) + 1
    BY <1>5, <1>6, CompleteIs, Zenon
  <2> QED
    BY <2>1, Zenon
<1>8. E = [i \in 1..K |-> <<b[2 * i - 1].of, b[2 * i].of>>]
  BY <1>7
<1>9. ASSUME NEW i \in 1..K
      PROVE  E[i] = <<n + i, IF n + i < j THEN n + i ELSE n + i + 1>>
  <2>0. n \in Nat /\ Len(b) \in Nat /\ 2 * K <= Len(b) /\ n + K <= j
    BY <1>4, <1>7, Zenon
  <2>1. i \in Nat /\ i > 0 /\ 2 * i - 1 <= Len(b) /\ 2 * i <= Len(b) /\ n + i <= j
    BY <2>0
  <2>2. b[2 * i - 1] = First(j, n + i) /\ b[2 * i] = Second(j, n + i)
    BY <1>6, <2>1, FirstOfPair, SecondOfPair
  <2>3. b[2 * i - 1].of = n + i
    BY <2>1, <2>2 DEF First, Header
  <2>4. b[2 * i].of = IF n + i < j THEN n + i ELSE n + i + 1
    BY <2>1, <2>2 DEF Second, Header, Payload
  <2> QED
    BY <1>8, <2>3, <2>4
<1>10. E \in Seq(Nat \X Nat) /\ Len(E) = K
  <2>1. PICK f, g : /\ f = [i \in 1..K |-> b[2 * i - 1].of]
                    /\ g = [i \in 1..K |-> b[2 * i].of]
    OBVIOUS
  <2>2. E = [i \in 1..K |-> <<f[i], g[i]>>]
    BY <1>8, <2>1
  <2>3. ASSUME NEW i \in 1..K PROVE f[i] \in Nat /\ g[i] \in Nat
    <3>1. 2 * i - 1 \in 1..Len(b) /\ 2 * i \in 1..Len(b)
      BY <1>4, <1>7
    <3>2. b[2 * i - 1] \in Piece /\ b[2 * i] \in Piece
      BY <3>1
    <3> QED
      BY <2>1, <3>2 DEF Piece
  <2> QED
    BY <2>2, <2>3, PairsTyped
<1>11. PICK D : D = C \o E
  OBVIOUS
<1>12. /\ D \in Seq(Nat \X Nat) /\ Len(D) = n + K
       /\ \A i \in 1..n : D[i] = C[i]
       /\ \A i \in 1..K : D[n + i] = E[i]
  <2>1. /\ C \o E \in Seq(Nat \X Nat) /\ Len(C \o E) = Len(C) + Len(E)
        /\ \A i \in 1..Len(C) : (C \o E)[i] = C[i]
        /\ \A i \in 1..Len(E) : (C \o E)[Len(C) + i] = E[i]
    <3>1. PICK T, F : T = Nat \X Nat /\ F = E
      OBVIOUS
    <3>2. C \in Seq(T) /\ F \in Seq(T)
      BY <1>10, <3>1
    <3>3. /\ C \o F \in Seq(T) /\ Len(C \o F) = Len(C) + Len(F)
          /\ \A i \in 1..Len(C) : (C \o F)[i] = C[i]
          /\ \A i \in 1..Len(F) : (C \o F)[Len(C) + i] = F[i]
      BY <3>2, Joined
    <3> QED
      BY <3>1, <3>3, Zenon
  <2> QED
    BY <1>2, <1>10, <1>11, <2>1
<1>13. PICK r : r = Rest(b)
  OBVIOUS
<1>14. r \in Seq(Piece) /\ Behind(r, b, 2 * K)
  BY <1>7, <1>13, RestIs
<1>15. PICK Q : Q = r \o w
  OBVIOUS
<1>16. Q \in Seq(Piece) /\ Behind(Q, R, 2 * K)
  <2>1. 2 * K \in Nat
    OBVIOUS
  <2>2. r \o w \in Seq(Piece) /\ Behind(r \o w, b \o w, 2 * K)
    BY <1>14, <2>1, BehindPrefix
  <2> QED
    BY <1>3, <1>15, <2>2
<1>17. Counts(D, j)
  <2>1. ASSUME NEW i \in 1..Len(D) PROVE D[i] = <<i, IF i < j THEN i ELSE i + 1>>
    <3>1. CASE i <= n
      <4>1. i \in 1..Len(C) /\ i \in 1..n
        BY <1>2, <1>12, <3>1
      <4> QED
        BY <1>1, <1>12, <4>1 DEF Counts
    <3>2. CASE i > n
      <4>1. PICK m \in 1..K : i = n + m
        <5>1. i - n \in 1..K /\ i = n + (i - n)
          BY <1>12, <3>2
        <5> QED
          BY <5>1
      <4> QED
        BY <1>9, <1>12, <4>1
    <3> QED
      BY <1>12, <3>1, <3>2
  <2> QED
    BY <1>7, <1>12, <2>1 DEF Counts
<1>18. Follows(Q, n + K, j)
  BY <1>5, <1>16, FollowsFrom
<1>19. 2 * Len(D) + Len(Q) = 2 * n + Len(R)
  <2>1. Len(Q) = Len(R) - 2 * K
    BY <1>16 DEF Behind
  <2> QED
    BY <1>4, <1>12, <1>16, <2>1
<1>20. Accounted(D, Q, sent, short)
  BY <1>1, <1>2, <1>3, <1>12, <1>17, <1>18, <1>19 DEF Accounted
<1>21. short \/ Len(r) <= 1
  <2> SUFFICES ASSUME ~short PROVE Len(r) <= 1
    OBVIOUS
  <2>1. ~(j <= sent) /\ 2 * n + Len(R) = 2 * sent
    BY <1>1, <1>2, <1>3
  <2>2. n + K # j
    BY <1>4, <1>7, <2>1
  <2>3. Len(r) = Len(b) - 2 * K /\ Len(b) <= 2 * K + 1
    BY <1>7, <1>14, <2>2 DEF Behind
  <2> QED
    BY <1>4, <2>3
<1> QED
  BY <1>7, <1>8, <1>11, <1>12, <1>13, <1>14, <1>15, <1>20, <1>21

-------------------------------------------------------------------------------
LEMMA JoinedInTurn ==
    ASSUME NEW s \in Seq(Piece), NEW t \in Seq(Piece), NEW u \in Seq(Piece)
    PROVE  (s \o t) \o u = s \o (t \o u)
  BY ConcatAssociative

LEMMA ReplyInit == Init => ReplyInv
<1> SUFFICES ASSUME Init PROVE ReplyInv
  OBVIOUS
<1>1. Typed
  BY DEF Init, Typed, All
<1>2. ASSUME NEW c \in Conns
      PROVE  Accounted(counted[c], rbuf[c] \o wire[c], answered[c], cut[c])
  <2>1. /\ counted[c] = << >> /\ rbuf[c] = << >> /\ wire[c] = << >>
        /\ answered[c] = 0 /\ cut[c] = FALSE
    BY DEF Init, All
  <2>2. Accounted(<< >>, << >>, 0, FALSE)
    <3>1. Counts(<< >>, 1)
      BY DEF Counts
    <3>2. Follows(<< >>, 0, 1)
      BY DEF Follows
    <3> QED
      BY <3>1, <3>2 DEF Accounted
  <2>3. << >> \o << >> = << >>
    OBVIOUS
  <2> QED
    BY <2>1, <2>2, <2>3
<1> QED
  BY <1>1, <1>2 DEF ReplyInv

\* A worker answers: the reply is behind all there is to read.
LEMMA ReplyKeeps == ASSUME NEW c \in Conns, ReplyInv, Reply(c) PROVE ReplyInv'
<1>1. PICK m \in Nat : m = answered[c]
  BY DEF ReplyInv, Typed
<1>2. /\ answered' = [answered EXCEPT ![c] = m + 1]
      /\ rbuf' = rbuf /\ counted' = counted
      /\ \/ /\ wire' = [wire EXCEPT ![c] = @ \o <<Header(m + 1), Payload(m + 1)>>]
            /\ cut' = cut
         \/ /\ ~cut[c] /\ cut' = [cut EXCEPT ![c] = TRUE]
            /\ wire' = [wire EXCEPT ![c] = @ \o <<Header(m + 1)>>]
  <2>1. answered'[c] = m + 1
    BY <1>1 DEF Reply, ReplyInv, Typed
  <2> QED
    BY <1>1, <2>1 DEF Reply, Header, Payload
<1>3. Typed
  BY DEF ReplyInv
<1>4. PICK x, R, p :
        /\ x \in BOOLEAN /\ p \in Seq(Piece)
        /\ wire' = [wire EXCEPT ![c] = wire[c] \o p]
        /\ cut' = [cut EXCEPT ![c] = x]
        /\ R = (rbuf[c] \o wire[c]) \o p
        /\ Accounted(counted[c], R, m + 1, x)
  <2>1. /\ counted[c] \in Seq(Nat \X Nat) /\ rbuf[c] \o wire[c] \in Seq(Piece)
        /\ cut[c] \in BOOLEAN /\ Accounted(counted[c], rbuf[c] \o wire[c], m, cut[c])
    BY <1>1 DEF ReplyInv, Typed
  <2>2. Header(m + 1) \in Piece /\ Payload(m + 1) \in Piece
    BY PiecesTyped
  <2>3. CASE /\ wire' = [wire EXCEPT ![c] = @ \o <<Header(m + 1), Payload(m + 1)>>]
             /\ cut' = cut
    <3>1. cut' = [cut EXCEPT ![c] = cut[c]]
      BY <1>3, <2>3 DEF Typed
    <3>2. Accounted(counted[c], (rbuf[c] \o wire[c]) \o <<Header(m + 1), Payload(m + 1)>>,
                    m + 1, cut[c])
      BY <2>1, SentWhole
    <3>3. <<Header(m + 1), Payload(m + 1)>> \in Seq(Piece)
      BY <2>2
    <3> QED
      BY <2>1, <2>3, <3>1, <3>2, <3>3
  <2>4. CASE /\ ~cut[c] /\ cut' = [cut EXCEPT ![c] = TRUE]
             /\ wire' = [wire EXCEPT ![c] = @ \o <<Header(m + 1)>>]
    <3>1. Accounted(counted[c], rbuf[c] \o wire[c], m, FALSE)
      BY <2>1, <2>4
    <3>2. Accounted(counted[c], (rbuf[c] \o wire[c]) \o <<Header(m + 1)>>, m + 1, TRUE)
      BY <2>1, <3>1, SentShort
    <3>3. <<Header(m + 1)>> \in Seq(Piece)
      BY <2>2
    <3> QED
      BY <2>4, <3>2, <3>3
  <2> QED
    BY <1>2, <2>3, <2>4
<1>5. Typed'
  BY <1>1, <1>2, <1>3, <1>4 DEF Typed
<1>6. ASSUME NEW d \in Conns
      PROVE  Accounted(counted'[d], rbuf'[d] \o wire'[d], answered'[d], cut'[d])
  <2>1. CASE d = c
    <3>1. /\ rbuf[c] \in Seq(Piece) /\ wire[c] \in Seq(Piece)
          /\ wire'[c] = wire[c] \o p /\ answered'[c] = m + 1 /\ cut'[c] = x
          /\ rbuf'[c] = rbuf[c] /\ counted'[c] = counted[c]
      BY <1>2, <1>3, <1>4 DEF Typed
    <3>2. rbuf[c] \o (wire[c] \o p) = (rbuf[c] \o wire[c]) \o p
      BY <1>4, <3>1, JoinedInTurn
    <3> QED
      BY <1>4, <2>1, <3>1, <3>2
  <2>2. CASE d # c
    <3>1. /\ wire'[d] = wire[d] /\ answered'[d] = answered[d] /\ cut'[d] = cut[d]
          /\ rbuf'[d] = rbuf[d] /\ counted'[d] = counted[d]
      BY <1>2, <1>3, <1>4, <2>2 DEF Typed
    <3> QED
      BY <3>1 DEF ReplyInv
  <2> QED
    BY <2>1, <2>2
<1> QED
  BY <1>5, <1>6 DEF ReplyInv

\* The client reads: what it takes from the socket and does not count stays.
LEMMA ReadKeeps ==
    ASSUME NEW c \in Conns, ReplyInv, Read(c)
    PROVE  ReplyInv' /\ (LessThanOne => LessThanOne')
<1>0. PICK k \in 1..Len(wire[c]) :
        LET x == rbuf[c] \o SubSeq(wire[c], 1, k) IN
        /\ wire' = [wire EXCEPT ![c] = SubSeq(@, k + 1, Len(@))]
        /\ rbuf' = [rbuf EXCEPT ![c] = Rest(x)]
        /\ counted' = [counted EXCEPT ![c] =
              @ \o [j \in 1..Complete(x) |-> <<x[2 * j - 1].of, x[2 * j].of>>]]
  BY Zenon DEF Read
<1> DEFINE b == rbuf[c] \o SubSeq(wire[c], 1, k)
<1>1. /\ k \in 1..Len(wire[c])
      /\ b = rbuf[c] \o SubSeq(wire[c], 1, k)
      /\ wire' = [wire EXCEPT ![c] = SubSeq(@, k + 1, Len(@))]
      /\ rbuf' = [rbuf EXCEPT ![c] = Rest(b)]
      /\ counted' = [counted EXCEPT ![c] =
            @ \o [j \in 1..Complete(b) |-> <<b[2 * j - 1].of, b[2 * j].of>>]]
  BY <1>0, Zenon
<1> HIDE DEF b
<1>2. Typed /\ UNCHANGED <<answered, cut>>
  BY DEF ReplyInv, Read, peer
<1>3. /\ wire[c] \in Seq(Piece) /\ rbuf[c] \in Seq(Piece)
      /\ counted[c] \in Seq(Nat \X Nat) /\ answered[c] \in Nat /\ cut[c] \in BOOLEAN
  BY <1>2 DEF Typed
<1>4. PICK h, w : /\ h = SubSeq(wire[c], 1, k) /\ w = SubSeq(wire[c], k + 1, Len(wire[c]))
                  /\ h \in Seq(Piece) /\ w \in Seq(Piece) /\ h \o w = wire[c]
  <2>1. k \in 1..Len(wire[c]) /\ Len(wire[c]) \in Nat
    <3>1. Len(wire[c]) \in Nat
      BY <1>3
    <3> QED
      BY <1>1, <3>1, Zenon
  <2>2. /\ SubSeq(wire[c], 1, k) \in Seq(Piece)
        /\ SubSeq(wire[c], k + 1, Len(wire[c])) \in Seq(Piece)
    BY <1>3, <2>1
  <2>3. SubSeq(wire[c], 1, k) \o SubSeq(wire[c], k + 1, Len(wire[c])) = wire[c]
    BY <1>3, <2>1
  <2> QED
    BY <2>2, <2>3
<1>5. b \in Seq(Piece) /\ b \o w = rbuf[c] \o wire[c]
  <2>1. b = rbuf[c] \o h
    BY <1>1, <1>4
  <2>2. (rbuf[c] \o h) \o w = rbuf[c] \o (h \o w)
    BY <1>3, <1>4, JoinedInTurn
  <2>3. rbuf[c] \o h \in Seq(Piece)
    BY <1>3, <1>4, ConcatProperties
  <2> QED
    BY <1>4, <2>1, <2>2, <2>3
<1>6. PICK D : D = counted[c] \o [j \in 1..Complete(b) |-> <<b[2 * j - 1].of, b[2 * j].of>>]
  OBVIOUS
<1>7. /\ D \in Seq(Nat \X Nat) /\ Rest(b) \in Seq(Piece)
      /\ Accounted(D, Rest(b) \o w, answered[c], cut[c])
      /\ cut[c] \/ Len(Rest(b)) <= 1
  <2>1. Accounted(counted[c], b \o w, answered[c], cut[c])
    BY <1>5 DEF ReplyInv
  <2> QED
    <3>1. /\ counted[c] \in Seq(Nat \X Nat) /\ answered[c] \in Nat /\ cut[c] \in BOOLEAN
          /\ b \in Seq(Piece) /\ w \in Seq(Piece)
      BY <1>3, <1>4, <1>5
    <3>2. PICK E : E = [j \in 1..Complete(b) |-> <<b[2 * j - 1].of, b[2 * j].of>>]
      OBVIOUS
    <3>3. /\ counted[c] \o E \in Seq(Nat \X Nat) /\ Rest(b) \in Seq(Piece)
          /\ Accounted(counted[c] \o E, Rest(b) \o w, answered[c], cut[c])
          /\ cut[c] \/ Len(Rest(b)) <= 1
      BY <2>1, <3>1, <3>2, Taken
    <3> QED
      BY <1>6, <3>2, <3>3
<1>8. /\ wire' = [wire EXCEPT ![c] = w] /\ rbuf' = [rbuf EXCEPT ![c] = Rest(b)]
      /\ counted' = [counted EXCEPT ![c] = D]
  BY <1>1, <1>4, <1>6
<1>9. Typed'
  BY <1>2, <1>4, <1>7, <1>8 DEF Typed
<1>10. ASSUME NEW d \in Conns
       PROVE  Accounted(counted'[d], rbuf'[d] \o wire'[d], answered'[d], cut'[d])
  <2>1. CASE d = c
    BY <1>2, <1>7, <1>8, <2>1 DEF Typed
  <2>2. CASE d # c
    <3>1. /\ wire'[d] = wire[d] /\ answered'[d] = answered[d] /\ cut'[d] = cut[d]
          /\ rbuf'[d] = rbuf[d] /\ counted'[d] = counted[d]
      BY <1>2, <1>8, <2>2 DEF Typed
    <3> QED
      BY <3>1 DEF ReplyInv
  <2> QED
    BY <2>1, <2>2
<1>11. LessThanOne => LessThanOne'
  <2> SUFFICES ASSUME LessThanOne, NEW d \in Conns PROVE cut'[d] \/ Len(rbuf'[d]) <= 1
    BY DEF LessThanOne
  <2>1. CASE d = c
    BY <1>2, <1>7, <1>8, <2>1 DEF Typed
  <2>2. CASE d # c
    BY <1>2, <1>8, <2>2 DEF Typed, LessThanOne
  <2> QED
    BY <2>1, <2>2
<1> QED
  BY <1>9, <1>10, <1>11 DEF ReplyInv

LEMMA NoMoreThanHalf ==
    ASSUME NEW n \in Nat, NEW l \in Nat, NEW a \in Nat, 2 * n + l = 2 * a
    PROVE  n <= a
  OBVIOUS

LEMMA ReplyStep == ReplyInv /\ [Next]_vars => ReplyInv'
<1> SUFFICES ASSUME ReplyInv, [Next]_vars PROVE ReplyInv'
  OBVIOUS
<1>1. CASE \E c \in Conns : Reply(c)
  BY <1>1, ReplyKeeps
<1>2. CASE \E c \in Conns : Read(c)
  BY <1>2, ReadKeeps
<1>3. CASE UNCHANGED <<wire, rbuf, counted, answered, cut>>
  BY <1>3 DEF ReplyInv, Typed
<1>4. ASSUME NEW c \in Conns, Callback(c) \/ HangUp(c), ~Read(c)
      PROVE  UNCHANGED <<wire, rbuf, counted, answered, cut>>
  BY <1>4 DEF Callback, HangUp, RampUp, Connected, ConnectFails, Tick, ReadEnd, peer, replies
<1>5. ASSUME DiscoveryFails \/ Discovered \/ DurationOver \/ Signalled \/ CloseHandles
                \/ LoopEnds \/ Over \/ UNCHANGED vars
      PROVE  UNCHANGED <<wire, rbuf, counted, answered, cut>>
  BY <1>5 DEF DiscoveryFails, Discovered, DurationOver, Signalled, StopApp, CloseHandles,
     LoopEnds, Over, vars, peer, replies
<1> QED
  BY <1>1, <1>2, <1>3, <1>4, <1>5 DEF Next

LEMMA ReplyInvariant == Spec => []ReplyInv
  BY ReplyInit, ReplyStep, PTL DEF Spec

\* Every reply is counted once and in order, with its own payload; behind one the
\* server has sent short, only the reply whose header was taken for the missing
\* payload, and nothing else, is counted (main.c:408-470).
LEMMA CountedOnceInvariant == Spec => []CountedOnce
<1>1. ReplyInv => CountedOnce
  <2> SUFFICES ASSUME ReplyInv, NEW c \in Conns, NEW i \in 1..Len(counted[c])
               PROVE  \/ counted[c][i] = <<i, i>>
                      \/ cut[c] /\ i = Len(counted[c]) /\ counted[c][i] = <<i, i + 1>>
    BY DEF CountedOnce
  <2>1. /\ counted[c] \in Seq(Nat \X Nat) /\ rbuf[c] \o wire[c] \in Seq(Piece)
        /\ answered[c] \in Nat /\ cut[c] \in BOOLEAN
    BY DEF ReplyInv, Typed
  <2>2. PICK j \in Nat :
          /\ cut[c] <=> j <= answered[c]
          /\ Counts(counted[c], j)
          /\ 2 * Len(counted[c]) + Len(rbuf[c] \o wire[c])
               = IF cut[c] THEN 2 * answered[c] - 1 ELSE 2 * answered[c]
    BY DEF ReplyInv, Accounted
  <2>3. PICK n, l : /\ n = Len(counted[c]) /\ l = Len(rbuf[c] \o wire[c])
                    /\ n \in Nat /\ l \in Nat
    <3>1. Len(counted[c]) \in Nat
      BY <2>1, LenProperties
    <3>2. Len(rbuf[c] \o wire[c]) \in Nat
      BY <2>1, LenProperties
    <3> QED
      BY <3>1, <3>2
  <2>4. n <= j /\ i \in 1..n /\ counted[c][i] = <<i, IF i < j THEN i ELSE i + 1>>
    BY <2>2, <2>3 DEF Counts
  <2>5. CASE i < j
    BY <2>4, <2>5
  <2>6. CASE ~(i < j)
    <3>1. i = n /\ i = j /\ counted[c][i] = <<i, i + 1>>
      BY <2>3, <2>4, <2>6
    <3>2. cut[c]
      <4>1. PICK a \in Nat : a = answered[c]
        BY <2>1
      <4>2. 2 * n + l = IF cut[c] THEN 2 * a - 1 ELSE 2 * a
        BY <2>2, <2>3, <4>1
      <4>3. cut[c] <=> n <= a
        BY <2>2, <3>1, <4>1
      <4> SUFFICES ASSUME ~cut[c] PROVE FALSE
        OBVIOUS
      <4>4. 2 * n + l = 2 * a
        BY <4>2
      <4>5. ~(n <= a)
        BY <4>3
      <4> QED
        BY <2>3, <4>4, <4>5, NoMoreThanHalf
    <3> QED
      BY <2>3, <3>1, <3>2
  <2> QED
    BY <2>5, <2>6
<1> QED
  BY <1>1, ReplyInvariant, PTL

-------------------------------------------------------------------------------
LEMMA LessThanOneStep == ReplyInv /\ LessThanOne /\ [Next]_vars => LessThanOne'
<1> SUFFICES ASSUME ReplyInv, LessThanOne, [Next]_vars PROVE LessThanOne'
  OBVIOUS
<1>1. CASE \E c \in Conns : Reply(c)
  <2>1. PICK c \in Conns : Reply(c)
    BY <1>1
  <2>2. rbuf' = rbuf /\ (cut' = cut \/ cut' = [cut EXCEPT ![c] = TRUE])
    BY <2>1 DEF Reply
  <2> QED
    BY <2>2 DEF LessThanOne, ReplyInv, Typed
<1>2. CASE \E c \in Conns : Read(c)
  BY <1>2, ReadKeeps
<1>3. CASE UNCHANGED <<rbuf, cut>>
  BY <1>3 DEF LessThanOne
<1>4. ASSUME NEW c \in Conns, Callback(c) \/ HangUp(c), ~Read(c)
      PROVE  UNCHANGED <<rbuf, cut>>
  BY <1>4 DEF Callback, HangUp, RampUp, Connected, ConnectFails, Tick, ReadEnd, peer, replies
<1>5. ASSUME DiscoveryFails \/ Discovered \/ DurationOver \/ Signalled \/ CloseHandles
                \/ LoopEnds \/ Over \/ UNCHANGED vars
      PROVE  UNCHANGED <<rbuf, cut>>
  BY <1>5 DEF DiscoveryFails, Discovered, DurationOver, Signalled, StopApp, CloseHandles,
     LoopEnds, Over, vars, peer, replies
<1> QED
  BY <1>1, <1>2, <1>3, <1>4, <1>5 DEF Next

LEMMA LessThanOneInvariant == Spec => []LessThanOne
<1>1. Init => LessThanOne
  <2> SUFFICES ASSUME Init, NEW c \in Conns PROVE Len(rbuf[c]) <= 1
    BY DEF LessThanOne
  <2>1. rbuf[c] = << >>
    BY DEF Init, All
  <2> QED
    BY <2>1
<1> QED
  BY <1>1, LessThanOneStep, ReplyInvariant, PTL DEF Spec

LEMMA HalfRounded ==
    ASSUME NEW n \in Nat, NEW r \in Nat, r <= 1, NEW x \in Int, x = 2 * n + r
    PROVE  n = x \div 2
  OBVIOUS

\* Between two callbacks, every reply that has arrived in full is counted, unless
\* the server sent one short (main.c:408-474).
LEMMA ArrivedAreCountedInvariant == Spec => []ArrivedAreCounted
<1>1. ReplyInv /\ LessThanOne => ArrivedAreCounted
  <2> SUFFICES ASSUME ReplyInv, LessThanOne, NEW c \in Conns, ~cut[c]
               PROVE  Len(counted[c]) = (2 * answered[c] - Len(wire[c])) \div 2
    BY DEF ArrivedAreCounted
  <2>1. /\ counted[c] \in Seq(Nat \X Nat) /\ rbuf[c] \in Seq(Piece) /\ wire[c] \in Seq(Piece)
        /\ answered[c] \in Nat
    BY DEF ReplyInv, Typed
  <2>2. Len(rbuf[c] \o wire[c]) = Len(rbuf[c]) + Len(wire[c])
    BY <2>1, ConcatProperties
  <2>3. 2 * Len(counted[c]) + Len(rbuf[c] \o wire[c]) = 2 * answered[c]
    BY DEF ReplyInv, Accounted
  <2>4. Len(rbuf[c]) <= 1
    BY DEF LessThanOne
  <2>5. PICK n \in Nat, r \in Nat, l \in Nat, a \in Nat :
          /\ n = Len(counted[c]) /\ r = Len(rbuf[c]) /\ l = Len(wire[c]) /\ a = answered[c]
    <3>1. Len(counted[c]) \in Nat
      BY <2>1, LenProperties
    <3>2. Len(rbuf[c]) \in Nat /\ Len(wire[c]) \in Nat
      BY <2>1, LenProperties
    <3> QED
      BY <2>1, <3>1, <3>2
  <2>6. 2 * n + (r + l) = 2 * a /\ r <= 1
    BY <2>2, <2>3, <2>4, <2>5
  <2>7. 2 * a - l \in Int /\ 2 * a - l = 2 * n + r
    BY <2>6
  <2>8. n = (2 * a - l) \div 2
    BY <2>6, <2>7, HalfRounded
  <2> QED
    BY <2>5, <2>8
<1> QED
  BY <1>1, ReplyInvariant, LessThanOneInvariant, PTL

\* However reads cut the stream, what is counted is what has arrived: each reply
\* once, in order and with its own payload, and none left behind in read_buf; behind
\* one sent short, a single damaged one (main.c:401-474).
THEOREM RepliesAreCounted == Spec => []CountsReplies
<1>1. CountedOnce /\ ArrivedAreCounted => CountsReplies
  BY DEF CountsReplies
<1> QED
  BY <1>1, CountedOnceInvariant, ArrivedAreCountedInvariant, PTL
===============================================================================
