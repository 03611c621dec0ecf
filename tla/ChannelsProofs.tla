--------------------------- MODULE ChannelsProofs ---------------------------
(***************************************************************************)
(* Proofs about the channels.  Of the link to netd: the buffer holds the   *)
(* frames of this connection and no others.  Of the control socket: what a *)
(* caller was sent is whole frames, and subscribers know the last          *)
(* snapshot.  Of a handshake for NTS keys: what comes of it depends on the *)
(* records alone, not on the pieces they come in.  Of a message: what is   *)
(* heard is what was meant, in whatever order its fields come.             *)
(***************************************************************************)
EXTENDS MCChannels, SequenceTheorems,
        FiniteSetTheorems, TLAPS

-----------------------------------------------------------------------------
(* Sequences and numbers *)

(* The larger a number of S is, the fewer there are above it.              *)
LEMMA LargestOf ==
    ASSUME NEW n \in Nat, NEW S, S \subseteq 1..n, S # {}
    PROVE  \E m \in S : \A k \in S : k <= m
  <1> DEFINE Above(m) == {k \in S : k > m}
             T == {Above(m) : m \in S}
  <1>1. T \subseteq SUBSET S /\ T # {}
    OBVIOUS
  <1>2. IsWellFoundedOn(StrictSubsetOrdering(S), SUBSET S)
    <2>1. IsFiniteSet(1..n)
      BY FS_Interval
    <2>2. IsFiniteSet(S)
      BY <2>1, FS_Subset
    <2> QED
      BY <2>2, FS_StrictSubsetOrderingWellFounded, FS_FiniteSubsetsOfFinite
  <1>3. PICK least \in T :
            \A t \in T : ~ (<<t, least>> \in StrictSubsetOrdering(S))
    <2> HIDE DEF T
    <2> QED
      BY <1>1, <1>2, WFMin
  <1>4. PICK m \in S : least = Above(m)
    BY <1>3
  <1>5. ASSUME NEW k \in S, k > m
        PROVE  FALSE
    <2>1. Above(k) \subseteq Above(m) /\ k \in Above(m) /\ k \notin Above(k)
      <3>1. m \in Int /\ k \in Int
        BY <1>4
      <3>2. ASSUME NEW i \in S, i > k
            PROVE  i > m
        <4>1. i \in Int
          OBVIOUS
        <4> QED
          BY <1>5, <3>1, <3>2, <4>1
      <3>3. ~ (k > k)
        BY <3>1
      <3> HIDE DEF T
      <3> QED
        BY <1>5, <3>2, <3>3
    <2>2. <<Above(k), Above(m)>> \in StrictSubsetOrdering(S)
      BY <2>1 DEF StrictSubsetOrdering
    <2> QED
      BY <1>3, <1>4, <2>2
  <1> QED
    BY <1>4, <1>5

LEMMA Halves ==
    ASSUME NEW n \in Nat, NEW k \in Nat
    PROVE  2 * k <= n <=> k <= n \div 2
  OBVIOUS

LEMMA HalfAndRest ==
    ASSUME NEW n \in Nat
    PROVE  \E m \in Nat : m = n \div 2 /\ (n = 2 * m \/ n = 2 * m + 1)
  <1>1. n \div 2 \in Nat /\ (n = 2 * (n \div 2) \/ n = 2 * (n \div 2) + 1)
    OBVIOUS
  <1> QED
    BY <1>1

LEMMA AfterEven ==
    ASSUME NEW n \in Nat, n % 2 = 0
    PROVE  (n + 1) % 2 = 1 /\ (n + 2) % 2 = 0
  OBVIOUS

LEMMA PartOf ==
    ASSUME NEW m \in Nat, NEW n \in Nat, n = 2 * m \/ n = 2 * m + 1
    PROVE  /\ \A i \in 2 * m + 1..n : i \in 1..n
           /\ n - 2 * m \in 0..1
           /\ (IF 2 * m + 1 <= n THEN n - (2 * m + 1) + 1 ELSE 0) = n - 2 * m
           /\ \A i \in 1..n - 2 * m :
                 i \in 1..n - (2 * m + 1) + 1 /\ 2 * m + 1 + i - 1 = 2 * m + i
  OBVIOUS

LEMMA Joined ==
    ASSUME NEW S, NEW a \in Seq(S), NEW b \in Seq(S), NEW c \in Seq(S)
    PROVE  /\ a \o b \in Seq(S)
           /\ a \o b \o c \in Seq(S)
           /\ Len(a \o b) = Len(a) + Len(b)
           /\ Len(a \o b \o c) = Len(a) + Len(b) + Len(c)
           /\ \A i \in 1..Len(a) : (a \o b \o c)[i] = a[i]
           /\ \A i \in 1..Len(b) : (a \o b \o c)[Len(a) + i] = b[i]
           /\ \A i \in 1..Len(c) : (a \o b \o c)[Len(a) + Len(b) + i] = c[i]
           /\ \A i \in 1..Len(a) + Len(b) : (a \o b \o c)[i] = (a \o b)[i]
  <1>1. a \o b \in Seq(S) /\ Len(a \o b) = Len(a) + Len(b)
    BY ConcatProperties
  <1>2. /\ a \o b \o c \in Seq(S)
        /\ Len(a \o b \o c) = Len(a \o b) + Len(c)
        /\ \A i \in 1..Len(a \o b) : (a \o b \o c)[i] = (a \o b)[i]
        /\ \A i \in 1..Len(c) : (a \o b \o c)[Len(a \o b) + i] = c[i]
    BY <1>1, ConcatProperties
  <1>3. /\ \A i \in 1..Len(a) : (a \o b)[i] = a[i]
        /\ \A i \in 1..Len(b) : (a \o b)[Len(a) + i] = b[i]
    BY ConcatProperties
  <1>4. Len(a) \in Nat /\ Len(b) \in Nat /\ Len(c) \in Nat
    BY LenProperties
  <1> QED
    BY <1>1, <1>2, <1>3, <1>4

(* The lengths of the three parts tell where a place of the whole is.      *)
LEMMA PlacesOfThree ==
    ASSUME NEW k \in Nat, NEW m \in Nat, NEW n \in Nat,
           NEW i \in 1..k + m + n
    PROVE  \/ i \in 1..k
           \/ \E j \in 1..m : i = k + j
           \/ \E j \in 1..n : i = k + m + j
  <1>1. CASE i > k /\ i <= k + m
    <2>1. i - k \in 1..m /\ i = k + (i - k)
      BY <1>1
    <2> QED
      BY <2>1
  <1>2. CASE i > k + m
    <2>1. i - k - m \in 1..n /\ i = k + m + (i - k - m)
      BY <1>2
    <2> QED
      BY <2>1
  <1> QED
    BY <1>1, <1>2

-----------------------------------------------------------------------------
(* NetdLink *)

(* Without one that is too long, every complete frame is decoded, and what *)
(* is left is the head of a frame or nothing.                              *)
LEMMA DecodedToTheEnd ==
    ASSUME NEW b \in Seq(Piece), ~Spoilt(b)
    PROVE  /\ Decoded(b) = 1..(Len(b) \div 2)
           /\ Undecoded(b) = SubSeq(b, 2 * (Len(b) \div 2) + 1, Len(b))
  <1>1. Len(b) \in Nat /\ Len(b) \div 2 \in Nat
    BY LenProperties
  <1>2. Decoded(b) = 1..(Len(b) \div 2)
    <2>1. ASSUME NEW k \in 1..Len(b)
          PROVE  k \in Decoded(b) <=> 2 * k <= Len(b)
      <3>1. \A j \in 1..k : j \in 1..Len(b)
        BY <1>1
      <3> QED
        BY <3>1 DEF Decoded, Spoilt
    <2>2. ASSUME NEW k \in 1..Len(b)
          PROVE  2 * k <= Len(b) <=> k \in 1..(Len(b) \div 2)
      BY <1>1, Halves
    <2>3. \A k \in 1..(Len(b) \div 2) : k \in 1..Len(b)
      BY <1>1
    <2>4. Decoded(b) \subseteq 1..Len(b)
      BY DEF Decoded
    <2>5. ASSUME NEW k \in 1..Len(b)
          PROVE  k \in Decoded(b) <=> k \in 1..(Len(b) \div 2)
      BY <2>1, <2>2
    <2> QED
      BY <2>3, <2>4, <2>5
  <1>3. Cardinality(1..(Len(b) \div 2)) = Len(b) \div 2
    BY <1>1, FS_Interval
  <1> QED
    BY <1>2, <1>3 DEF Undecoded


(* What is left of b once its complete frames are gone.                    *)
LEMMA Remainder ==
    ASSUME NEW b \in Seq(Piece), NEW rest,
           rest = SubSeq(b, 2 * (Len(b) \div 2) + 1, Len(b))
    PROVE  /\ rest \in Seq(Piece)
           /\ Len(rest) \in 0..1
           /\ Len(b) = 2 * (Len(b) \div 2) + Len(rest)
           /\ \A i \in 1..Len(rest) : rest[i] = b[2 * (Len(b) \div 2) + i]
  <1>1. PICK n \in Nat : n = Len(b)
    BY LenProperties
  <1>2. PICK m \in Nat : m = n \div 2 /\ (n = 2 * m \/ n = 2 * m + 1)
    BY HalfAndRest
  <1>3. \A i \in 2 * m + 1..n : b[i] \in Piece
    <2>1. \A i \in 2 * m + 1..n : i \in 1..n
      BY <1>2, PartOf
    <2> QED
      BY <1>1, <2>1, ElementOfSeq
  <1>4. rest = SubSeq(b, 2 * m + 1, n)
    BY <1>1, <1>2
  <1>5. /\ rest \in Seq(Piece)
        /\ Len(rest) = IF 2 * m + 1 <= n THEN n - (2 * m + 1) + 1 ELSE 0
        /\ \A i \in 1..n - (2 * m + 1) + 1 : rest[i] = b[2 * m + 1 + i - 1]
    <2>1. 2 * m + 1 \in Int /\ n \in Int
      BY <1>1, <1>2
    <2> QED
      BY <1>3, <1>4, <2>1, SubSeqProperties
  <1>6. Len(rest) = n - 2 * m /\ n - 2 * m \in 0..1
    BY <1>2, <1>5, PartOf
  <1>7. \A i \in 1..Len(rest) : rest[i] = b[2 * m + i]
    <2>1. \A i \in 1..n - 2 * m :
              i \in 1..n - (2 * m + 1) + 1 /\ 2 * m + 1 + i - 1 = 2 * m + i
      BY <1>2, PartOf
    <2> QED
      BY <1>5, <1>6, <2>1
  <1>8. n = 2 * m + (n - 2 * m)
    BY <1>1, <1>2
  <1> QED
    BY <1>1, <1>2, <1>5, <1>6, <1>7, <1>8

(* A frame is two pieces of its connection and its lease.                  *)
LEMMA PiecesAre ==
    ASSUME NEW kind \in Kinds, NEW lease \in 0..MaxLease, NEW on \in 0..1
    PROVE  /\ Pieces(kind, lease, on) \in Seq(Piece)
           /\ Len(Pieces(kind, lease, on)) = 2
           /\ \A i \in 1..2 :
                 /\ Pieces(kind, lease, on)[i] \in Piece
                 /\ Pieces(kind, lease, on)[i].part = i
                 /\ Pieces(kind, lease, on)[i].frame.conn = on
                 /\ Pieces(kind, lease, on)[i].frame.lease = lease
  <1> DEFINE frame == [kind |-> kind, lease |-> lease, conn |-> on]
  <1>1. frame \in Frame
    BY DEF Frame
  <1>2. \A i \in 1..2 : [frame |-> frame, part |-> i] \in Piece
    BY <1>1 DEF Piece
  <1> HIDE DEF frame
  <1>3. Pieces(kind, lease, on) =
            << [frame |-> frame, part |-> 1], [frame |-> frame, part |-> 2] >>
    BY DEF Pieces, frame
  <1>4. /\ Pieces(kind, lease, on) \in Seq(Piece)
        /\ Len(Pieces(kind, lease, on)) = 2
        /\ Pieces(kind, lease, on)[1] = [frame |-> frame, part |-> 1]
        /\ Pieces(kind, lease, on)[2] = [frame |-> frame, part |-> 2]
    BY <1>2, <1>3
  <1>5. frame.conn = on /\ frame.lease = lease
    BY DEF frame
  <1> QED
    BY <1>2, <1>4, <1>5

(* One added to a stream of whole frames leaves it one.                    *)
LEMMA FrameAdded ==
    ASSUME NEW s \in Seq(Piece), NEW p \in Seq(Piece), Len(s) % 2 = 0,
           NEW P, InTurns(s, P),
           Len(p) = 2, \A i \in 1..2 : p[i] \in P /\ p[i].part = i
    PROVE  Len(s \o p) % 2 = 0 /\ InTurns(s \o p, P)
  <1>1. /\ Len(s \o p) = Len(s) + 2
        /\ \A i \in 1..Len(s) + 2 :
              (s \o p)[i] = IF i <= Len(s) THEN s[i] ELSE p[i - Len(s)]
    <2>1. /\ Len(s \o p) = Len(s) + Len(p)
          /\ \A i \in 1..Len(s) + Len(p) :
                (s \o p)[i] = IF i <= Len(s) THEN s[i] ELSE p[i - Len(s)]
      BY ConcatProperties
    <2> QED
      BY <2>1
  <1>2. /\ Len(s) \in Nat
        /\ (Len(s) + 1) % 2 = 1 /\ (Len(s) + 2) % 2 = 0
    BY LenProperties, AfterEven
  <1>3. ASSUME NEW i \in 1..Len(s \o p)
        PROVE  /\ (s \o p)[i] \in P
               /\ (s \o p)[i].part = IF i % 2 = 1 THEN 1 ELSE 2
    <2>1. CASE i \in 1..Len(s)
      BY <1>1, <1>2, <2>1 DEF InTurns
    <2>2. CASE i = Len(s) + 1
      <3>1. (s \o p)[i] = p[1] /\ i % 2 = 1
        BY <1>1, <1>2, <2>2
      <3> QED
        BY <3>1
    <2>3. CASE i = Len(s) + 2
      <3>1. (s \o p)[i] = p[2] /\ i % 2 = 0
        BY <1>1, <1>2, <2>3
      <3> QED
        BY <3>1
    <2> QED
      BY <1>1, <1>2, <2>1, <2>2, <2>3
  <1> QED
    BY <1>1, <1>2, <1>3 DEF InTurns

(* The lease taken is one that came.                                       *)
LEMMA LastLeaseCame ==
    ASSUME NEW b \in Seq(Piece), SnapshotsIn(b) # {}
    PROVE  \E i \in 1..Len(b) : LastLease(b) = b[i].frame.lease
  <1> DEFINE last == CHOOSE k \in SnapshotsIn(b) :
                         \A j \in SnapshotsIn(b) : j <= k
  <1>1. Len(b) \in Nat
    BY LenProperties
  <1>2. SnapshotsIn(b) \subseteq 1..Len(b)
    BY DEF SnapshotsIn, Decoded
  <1>3. \E k \in SnapshotsIn(b) : \A j \in SnapshotsIn(b) : j <= k
    BY <1>1, <1>2, LargestOf
  <1>4. last \in SnapshotsIn(b)
    BY <1>3
  <1>5. 2 * last \in 1..Len(b)
    BY <1>1, <1>4 DEF SnapshotsIn, Decoded
  <1> QED
    BY <1>5 DEF LastLease

LEMMA TwoByTwo ==
    ASSUME NEW m \in Nat, NEW n \in Nat
    PROVE  (2 * m + n) % 2 = n % 2
  OBVIOUS

(* What is read of such a stream leaves one.                               *)
LEMMA ReadToTheEnd ==
    ASSUME NEW b \in Seq(Piece), NEW f \in Seq(Piece),
           NEW rest \in Seq(Piece), NEW m \in Nat,
           Len(b) = 2 * m + Len(rest),
           \A i \in 1..Len(rest) : rest[i] = b[2 * m + i],
           NEW P, InTurns(b \o f, P),
           NEW t, t = rest \o << >> \o f
    PROVE  /\ InTurns(t, P)
           /\ Len(b \o f) % 2 = 0 => Len(t) % 2 = 0
  <1>1. rest \o << >> = rest
    BY ConcatEmptySeq
  <1>2. /\ Len(t) = Len(rest) + Len(f)
        /\ \A i \in 1..Len(rest) + Len(f) :
              t[i] = IF i <= Len(rest) THEN rest[i] ELSE f[i - Len(rest)]
    <2>1. t = rest \o f
      BY <1>1
    <2>2. /\ Len(rest \o f) = Len(rest) + Len(f)
          /\ \A i \in 1..Len(rest) + Len(f) :
                (rest \o f)[i]
                   = IF i <= Len(rest) THEN rest[i] ELSE f[i - Len(rest)]
      BY ConcatProperties
    <2> QED
      BY <2>1, <2>2
  <1>3. /\ Len(b \o f) = Len(b) + Len(f)
        /\ \A i \in 1..Len(b) + Len(f) :
              (b \o f)[i] = IF i <= Len(b) THEN b[i] ELSE f[i - Len(b)]
    BY ConcatProperties
  <1>4. Len(b) \in Nat /\ Len(f) \in Nat /\ Len(rest) \in Nat
    BY LenProperties
  <1>5. ASSUME NEW i \in 1..Len(t)
        PROVE  /\ 2 * m + i \in 1..Len(b \o f)
               /\ t[i] = (b \o f)[2 * m + i]
    <2>1. i \in 1..Len(rest) + Len(f) /\ 2 * m + i \in 1..Len(b) + Len(f)
      BY <1>2, <1>4
    <2>2. CASE i <= Len(rest)
      <3>1. i \in 1..Len(rest) /\ 2 * m + i <= Len(b)
        BY <1>4, <2>1, <2>2
      <3> QED
        BY <1>2, <1>3, <2>1, <2>2, <3>1
    <2>3. CASE ~ (i <= Len(rest))
      <3>1. ~ (2 * m + i <= Len(b)) /\ 2 * m + i - Len(b) = i - Len(rest)
        BY <1>4, <2>1, <2>3
      <3> QED
        BY <1>2, <1>3, <2>1, <2>3, <3>1
    <2> QED
      BY <1>3, <2>1, <2>2, <2>3
  <1>6. ASSUME NEW i \in 1..Len(t)
        PROVE  /\ t[i] \in P
               /\ t[i].part = IF i % 2 = 1 THEN 1 ELSE 2
    <2>1. (2 * m + i) % 2 = i % 2
      BY <1>2, <1>4, TwoByTwo
    <2>2. /\ (b \o f)[2 * m + i] \in P
          /\ (b \o f)[2 * m + i].part = IF (2 * m + i) % 2 = 1 THEN 1 ELSE 2
      BY <1>5 DEF InTurns
    <2> QED
      BY <1>5, <2>1, <2>2
  <1>7. Len(b \o f) = 2 * m + Len(t) /\ Len(t) \in Nat
    BY <1>2, <1>3, <1>4
  <1>8. Len(b \o f) % 2 = Len(t) % 2
    BY <1>7, TwoByTwo
  <1> QED
    BY <1>6, <1>8 DEF InTurns

(* What came and is coming, and nothing of it in the buffer.               *)
LEMMA StreamIs ==
    ASSUME NetdTypeOK
    PROVE  /\ Stream \in Seq(Piece) /\ Received \in Seq(Piece)
           /\ Stream = Received \o flight
           /\ Len(Stream) = Len(Received) + Len(flight)
           /\ \A i \in 1..Len(Received) : Stream[i] = Received[i]
           /\ \A i \in 1..Len(buf) : Stream[i] = buf[i]
           /\ Len(Received) \in Nat /\ Len(flight) \in Nat /\ Len(buf) \in Nat
           /\ Len(Received) = Len(buf) + Len(wire) /\ Len(wire) \in Nat
  <1>1. buf \in Seq(Piece) /\ wire \in Seq(Piece) /\ flight \in Seq(Piece)
    BY DEF NetdTypeOK
  <1>2. /\ buf \o wire \in Seq(Piece)
        /\ buf \o wire \o flight \in Seq(Piece)
        /\ Len(buf \o wire) = Len(buf) + Len(wire)
        /\ Len(buf \o wire \o flight) = Len(buf) + Len(wire) + Len(flight)
        /\ \A i \in 1..Len(buf) : (buf \o wire \o flight)[i] = buf[i]
        /\ \A i \in 1..Len(buf) + Len(wire) :
              (buf \o wire \o flight)[i] = (buf \o wire)[i]
    BY <1>1, Joined
  <1>3. Len(buf) \in Nat /\ Len(wire) \in Nat /\ Len(flight) \in Nat
    BY <1>1, LenProperties
  <1> QED
    BY <1>2, <1>3 DEF Stream, Received

(* A prefix of a stream is one.                                            *)
LEMMA CutOff ==
    ASSUME NEW s \in Seq(Piece), NEW f \in Seq(Piece), NEW n \in 0..Len(f),
           NEW P, InTurns(s \o f, P)
    PROVE  /\ SubSeq(f, 1, n) \in Seq(Piece)
           /\ InTurns(s \o SubSeq(f, 1, n), P)
  <1>1. Len(s) \in Nat /\ Len(f) \in Nat
    BY LenProperties
  <1>2. \A i \in 1..n : f[i] \in Piece
    BY <1>1, ElementOfSeq
  <1>3. PICK g : g = SubSeq(f, 1, n)
    OBVIOUS
  <1>4. /\ g \in Seq(Piece)
        /\ Len(g) = n
        /\ \A i \in 1..n : g[i] = f[i]
    <2>1. /\ g \in Seq(Piece)
          /\ Len(g) = IF 1 <= n THEN n - 1 + 1 ELSE 0
          /\ \A i \in 1..n - 1 + 1 : g[i] = f[1 + i - 1]
      BY <1>2, <1>3, SubSeqProperties
    <2>2. \A i \in 1..n : i \in 1..n - 1 + 1 /\ 1 + i - 1 = i
      BY <1>1
    <2>3. (IF 1 <= n THEN n - 1 + 1 ELSE 0) = n
      BY <1>1
    <2> QED
      BY <2>1, <2>2, <2>3
  <1>5. /\ Len(s \o g) = Len(s) + n
        /\ \A i \in 1..Len(s) + n :
              (s \o g)[i] = IF i <= Len(s) THEN s[i] ELSE g[i - Len(s)]
    <2>1. /\ Len(s \o g) = Len(s) + Len(g)
          /\ \A i \in 1..Len(s) + Len(g) :
                (s \o g)[i] = IF i <= Len(s) THEN s[i] ELSE g[i - Len(s)]
      BY <1>4, ConcatProperties
    <2> QED
      BY <1>4, <2>1
  <1>6. /\ Len(s \o f) = Len(s) + Len(f)
        /\ \A i \in 1..Len(s) + Len(f) :
              (s \o f)[i] = IF i <= Len(s) THEN s[i] ELSE f[i - Len(s)]
    BY ConcatProperties
  <1>7. ASSUME NEW i \in 1..Len(s) + n
        PROVE  (s \o g)[i] = (s \o f)[i] /\ i \in 1..Len(s \o f)
    <2>1. i \in 1..Len(s) + Len(f)
      BY <1>1
    <2>2. CASE i <= Len(s)
      BY <1>5, <1>6, <2>1, <2>2
    <2>3. CASE ~ (i <= Len(s))
      <3>1. i - Len(s) \in 1..n
        BY <1>1, <2>3
      <3> QED
        BY <1>4, <1>5, <1>6, <2>1, <2>3, <3>1
    <2> QED
      BY <1>6, <2>1, <2>2, <2>3
  <1>8. InTurns(s \o g, P)
    BY <1>5, <1>7 DEF InTurns
  <1> QED
    BY <1>3, <1>4, <1>8

LEMMA NetdInitially == NetdInit => NetdIInv
  <1> SUFFICES ASSUME NetdInit
               PROVE  NetdIInv
    OBVIOUS
  <1>1. << >> \in Seq(Piece) /\ Len(<< >>) = 0
    BY EmptySeq
  <1>2. NetdTypeOK
    <2>1. /\ 0 \in 0..MaxLease /\ 0 \in 0..0 /\ 0 \in 0..1
          /\ 0 \in 0..MaxBackoff /\ MinBackoff \in MinBackoff..MaxBackoff
          /\ 0 \in 0..MaxFaults
      BY NetdConstants
    <2>2. FALSE \in BOOLEAN
      OBVIOUS
    <2> QED
      BY <1>1, <2>1, <2>2 DEF NetdInit, NetdTypeOK
  <1> QED
    BY <1>1, <1>2 DEF NetdInit, NetdIInv

(* A fresh connection: the frame netd answers with is all there is.        *)
LEMMA SubscribedKeeps ==
    ASSUME NetdIInv, ~connected, Subscribed
    PROVE  NetdIInv'
  <1> DEFINE p == Pieces("snapshot", offered, 1 - conn)
             P == {piece \in Piece : piece.frame.conn = 1 - conn
                                     /\ piece.frame.lease <= offered}
  <1> USE DEF NetdIInv, Subscribed
  <1>1. /\ "snapshot" \in Kinds /\ 1 - conn \in 0..1
        /\ offered \in 0..MaxLease /\ offered <= offered
    BY NetdConstants DEF NetdTypeOK, Kinds
  <1>2. /\ p \in Seq(Piece) /\ Len(p) = 2
        /\ \A i \in 1..2 : p[i] \in P /\ p[i].part = i
    <2> HIDE DEF NetdIInv, Subscribed
    <2> QED
      BY <1>1, PiecesAre
  <1>3. /\ << >> \in Seq(Piece) /\ Len(<< >>) = 0
        /\ << >> \o << >> = << >> /\ << >> \o p = p
    BY <1>2, EmptySeq, ConcatEmptySeq
  <1>4. Len(p) % 2 = 0 /\ InTurns(p, P)
    <2>1. InTurns(<< >>, P) /\ Len(<< >>) % 2 = 0
      BY <1>3 DEF InTurns
    <2> HIDE DEF p, P
    <2> QED
      BY <1>2, <1>3, <2>1, FrameAdded
  <1>5. Stream' = p /\ Ours' = P
    BY <1>3 DEF Stream, Ours, Cleared, netd
  <1>6. NetdTypeOK'
    BY <1>1, <1>2, <1>3, NetdConstants DEF NetdTypeOK, Cleared, netd
  <1> HIDE DEF p, P
  <1> QED
    BY <1>3, <1>4, <1>5, <1>6 DEF Cleared, InTurns

(* absorb_netd.                                                            *)
LEMMA AbsorbKeeps ==
    ASSUME NetdIInv, Absorb
    PROVE  NetdIInv'
  <1> DEFINE b == Received
  <1>1. /\ NetdTypeOK /\ connected /\ InTurns(Stream, Ours)
        /\ ~ended => Len(Stream) % 2 = 0
    BY DEF NetdIInv, Absorb
  <1>2. /\ b \in Seq(Piece) /\ flight \in Seq(Piece)
        /\ Stream = b \o flight
        /\ Len(Stream) = Len(b) + Len(flight)
        /\ \A i \in 1..Len(b) : Stream[i] = b[i]
        /\ Len(b) \in Nat /\ Len(flight) \in Nat
    BY <1>1, StreamIs DEF NetdTypeOK
  <1>3. taken' \in 0..offered
    <2>1. CASE SnapshotsIn(b) = {}
      BY <1>1, <2>1 DEF Absorb, NetdTypeOK
    <2>2. CASE SnapshotsIn(b) # {}
      <3>1. PICK i \in 1..Len(b) : LastLease(b) = b[i].frame.lease
        BY <1>2, <2>2, LastLeaseCame
      <3>2. b[i] \in Ours
        BY <1>1, <1>2 DEF InTurns
      <3>3. b[i].frame.lease \in 0..MaxLease /\ b[i].frame.lease <= offered
        BY <3>2 DEF Ours, Piece, Frame
      <3>4. taken' = b[i].frame.lease
        BY <2>2, <3>1 DEF Absorb
      <3> QED
        BY <1>1, <3>3, <3>4, NetdConstants DEF NetdTypeOK
    <2> QED
      BY <2>1, <2>2
  <1>4. << >> \in Seq(Piece) /\ Len(<< >>) = 0
    BY EmptySeq
  <1>5. CASE Lost
    <2>1. GiveUp /\ wire' = << >>
      BY <1>5 DEF Absorb
    <2>2. NetdTypeOK'
      <3>1. /\ MinBackoff \in 0..MaxBackoff
            /\ MinBackoff \in MinBackoff..MaxBackoff
        BY NetdConstants
      <3> QED
        BY <1>1, <1>3, <1>4, <2>1, <3>1 DEF GiveUp, NetdTypeOK, Cleared
    <2> QED
      BY <1>4, <2>1, <2>2 DEF GiveUp, NetdIInv, Cleared
  <1>6. CASE ~Lost
    <2>1. GoOn /\ wire' = << >>
      BY <1>6 DEF Absorb
    <2> DEFINE rest == Undecoded(b)
    <2>2. rest = SubSeq(b, 2 * (Len(b) \div 2) + 1, Len(b))
      BY <1>2, <1>6, DecodedToTheEnd DEF Lost
    <2> HIDE DEF rest
    <2>3. /\ rest \in Seq(Piece)
          /\ Len(rest) \in 0..1
          /\ Len(b) = 2 * (Len(b) \div 2) + Len(rest)
          /\ \A i \in 1..Len(rest) : rest[i] = b[2 * (Len(b) \div 2) + i]
      BY <1>2, <2>2, Remainder
    <2>4. PICK m \in Nat : m = Len(b) \div 2
      BY <1>2, HalfAndRest
    <2>5. /\ Len(b) = 2 * m + Len(rest)
          /\ \A i \in 1..Len(rest) : rest[i] = b[2 * m + i]
      BY <2>3, <2>4
    <2>6. /\ buf' = rest /\ Stream' = rest \o << >> \o flight
          /\ Ours' = Ours
      BY <2>1 DEF GoOn, Stream, Ours, rest, netd
    <2>7. /\ InTurns(Stream', Ours)
          /\ Len(Stream) % 2 = 0 => Len(Stream') % 2 = 0
      <3> HIDE DEF b
      <3> QED
        BY <1>1, <1>2, <2>3, <2>5, <2>6, ReadToTheEnd
    <2>8. NetdTypeOK'
      BY <1>1, <1>3, <1>4, <2>1, <2>3, <2>6 DEF GoOn, NetdTypeOK, netd
    <2>9. InTurns(Stream, Ours)'
      BY <2>6, <2>7 DEF InTurns
    <2>10. connected' /\ ended' = ended /\ Len(buf') <= 1
      BY <1>1, <2>1, <2>3, <2>6 DEF GoOn, netd
    <2> QED
      BY <1>1, <2>7, <2>8, <2>9, <2>10 DEF NetdIInv
  <1> QED
    BY <1>5, <1>6

(* What netd sends on an open connection is a frame of it.                 *)
LEMMA SentKeeps ==
    ASSUME NetdIInv, Listening, NEW kind \in Kinds,
           offered' \in offered..MaxLease,
           flight' = flight \o Pieces(kind, offered', conn),
           UNCHANGED <<up, ended, wire, link>>, faults' \in 0..MaxFaults
    PROVE  NetdIInv'
  <1> DEFINE p == Pieces(kind, offered', conn)
             P == {piece \in Piece : piece.frame.conn = conn
                                     /\ piece.frame.lease <= offered'}
  <1>1. /\ NetdTypeOK /\ connected /\ ~ended
        /\ InTurns(Stream, Ours) /\ Len(Stream) % 2 = 0
    BY DEF NetdIInv, Listening
  <1>2. /\ conn \in 0..1 /\ offered \in 0..MaxLease
        /\ offered' \in 0..MaxLease /\ offered <= offered'
    BY <1>1, NetdConstants DEF NetdTypeOK
  <1>3. /\ Stream \in Seq(Piece) /\ Received \in Seq(Piece)
        /\ Stream = Received \o flight
        /\ flight \in Seq(Piece)
    BY <1>1, StreamIs DEF NetdTypeOK
  <1>4. /\ p \in Seq(Piece) /\ Len(p) = 2
        /\ \A i \in 1..2 : /\ p[i] \in Piece /\ p[i].part = i
                           /\ p[i].frame.conn = conn
                           /\ p[i].frame.lease = offered'
    BY <1>2, PiecesAre
  <1> HIDE DEF p
  <1>5. \A i \in 1..2 : p[i] \in P /\ p[i].part = i
    BY <1>2, <1>4
  <1>6. InTurns(Stream, P)
    <2>1. ASSUME NEW piece \in Ours
          PROVE  piece \in P
      <3>1. piece.frame.lease \in 0..MaxLease
        BY DEF Ours, Piece, Frame
      <3> QED
        BY <1>2, <3>1, NetdConstants DEF Ours
    <2> QED
      BY <1>1, <2>1 DEF InTurns
  <1>7. Stream' = Stream \o p
    <2>1. Stream' = Received \o (flight \o p)
      BY DEF Stream, Received, link, p
    <2>2. (Received \o flight) \o p = Received \o (flight \o p)
      BY <1>3, <1>4, ConcatAssociative
    <2> QED
      BY <1>3, <2>1, <2>2
  <1>8. Len(Stream \o p) % 2 = 0 /\ InTurns(Stream \o p, P)
    <2> HIDE DEF P
    <2> QED
      BY <1>1, <1>3, <1>4, <1>5, <1>6, FrameAdded
  <1>9. flight' \in Seq(Piece)
    BY <1>3, <1>4, ConcatProperties DEF p
  <1>10. NetdTypeOK'
    <2>1. taken \in 0..offered'
      BY <1>1, <1>2, NetdConstants DEF NetdTypeOK
    <2> QED
      BY <1>1, <1>2, <1>9, <2>1 DEF NetdTypeOK, link
  <1>11. Ours' = P
    BY DEF Ours, link
  <1>12. InTurns(Stream, Ours)'
    BY <1>7, <1>8, <1>11 DEF InTurns
  <1> QED
    BY <1>1, <1>7, <1>8, <1>10, <1>12 DEF NetdIInv, link

(* What does not touch the stream keeps it.                                *)
LEMMA SameStream ==
    ASSUME NetdIInv, NetdTypeOK', UNCHANGED <<connected, ended, conn, buf>>,
           Stream' = Stream, offered <= offered',
           ~connected => UNCHANGED <<wire, flight>>
    PROVE  NetdIInv'
  <1>1. \A piece \in Ours : piece \in Ours'
    <2>1. ASSUME NEW piece \in Ours
          PROVE  piece \in Ours'
      <3>1. piece.frame.lease \in Int /\ offered \in Int /\ offered' \in Int
        BY NetdConstants DEF Ours, Piece, Frame, NetdIInv, NetdTypeOK
      <3> QED
        BY <3>1 DEF Ours
    <2> QED
      BY <2>1
  <1>2. connected => InTurns(Stream, Ours)'
    BY <1>1 DEF NetdIInv, InTurns
  <1> QED
    BY <1>2 DEF NetdIInv

(* The socket hands over what is in flight, first things first.            *)
LEMMA ArriveKeeps ==
    ASSUME NetdIInv, Arrive
    PROVE  NetdIInv'
  <1>1. /\ NetdTypeOK /\ flight # << >>
        /\ buf \in Seq(Piece) /\ wire \in Seq(Piece) /\ flight \in Seq(Piece)
    BY DEF NetdIInv, NetdTypeOK, Arrive
  <1>2. Head(flight) \in Piece /\ Tail(flight) \in Seq(Piece)
    BY <1>1, HeadTailProperties
  <1>3. Append(wire, Head(flight)) = wire \o <<Head(flight)>>
    BY <1>1, <1>2, AppendIsConcat
  <1>4. <<Head(flight)>> \in Seq(Piece)
    BY <1>2
  <1>5. flight = <<Head(flight)>> \o Tail(flight)
    BY <1>1
  <1>6. buf \o (wire \o <<Head(flight)>>) = (buf \o wire) \o <<Head(flight)>>
    BY <1>1, <1>4, ConcatAssociative
  <1>7. buf \o wire \in Seq(Piece)
    BY <1>1, ConcatProperties
  <1>8. ((buf \o wire) \o <<Head(flight)>>) \o Tail(flight)
            = (buf \o wire) \o (<<Head(flight)>> \o Tail(flight))
    BY <1>2, <1>4, <1>7, ConcatAssociative
  <1>9. Stream' = Stream
    BY <1>3, <1>5, <1>6, <1>8 DEF Stream, Arrive, link
  <1>10. NetdTypeOK'
    <2>1. wire' \in Seq(Piece) /\ flight' \in Seq(Piece)
      BY <1>1, <1>2, AppendProperties DEF Arrive
    <2> QED
      BY <1>1, <2>1 DEF Arrive, NetdTypeOK, netd, link
  <1>11. offered <= offered' /\ UNCHANGED <<connected, ended, conn, buf>>
    BY <1>1, NetdConstants DEF Arrive, netd, link, NetdTypeOK
  <1>12. connected
    BY <1>1 DEF NetdIInv
  <1> QED
    BY <1>9, <1>10, <1>11, <1>12, SameStream

(* netd stops, and what is in flight is cut off anywhere.                  *)
LEMMA StopsKeeps ==
    ASSUME NetdIInv, NEW sent \in 0..Len(flight), Stops(sent)
    PROVE  NetdIInv'
  <1> DEFINE cut == SubSeq(flight, 1, sent)
  <1>1. NetdTypeOK /\ flight \in Seq(Piece)
    BY DEF NetdIInv, NetdTypeOK
  <1>2. /\ Received \in Seq(Piece) /\ Stream = Received \o flight
        /\ << >> \in Seq(Piece) /\ Len(<< >>) = 0
    BY <1>1, StreamIs, EmptySeq
  <1>3. /\ flight' = cut /\ ended' = connected /\ Ours' = Ours
        /\ Stream' = Received \o cut
    BY DEF Stops, link, Stream, Received, Ours
  <1>4. cut \in Seq(Piece) /\ (connected => InTurns(Stream', Ours))
    <2>1. CASE connected
      <3>1. InTurns(Received \o flight, Ours)
        BY <1>2, <2>1 DEF NetdIInv
      <3> QED
        BY <1>1, <1>2, <1>3, <3>1, CutOff
    <2>2. CASE ~connected
      <3>1. flight = << >> /\ sent = 0
        BY <1>2, <2>2 DEF NetdIInv
      <3>2. cut = << >>
        BY <3>1, SubSeqEmpty
      <3> QED
        BY <1>2, <2>2, <3>2
    <2> QED
      BY <2>1, <2>2
  <1> HIDE DEF cut
  <1>5. NetdTypeOK'
    <2>1. faults' \in 0..MaxFaults
      BY <1>1, NetdConstants DEF Stops, NetdTypeOK
    <2> QED
      BY <1>1, <1>3, <1>4, <2>1 DEF Stops, NetdTypeOK, link
  <1>6. connected => InTurns(Stream, Ours)'
    BY <1>3, <1>4 DEF InTurns
  <1>7. ~connected => flight' = << >>
    <2>1. ASSUME ~connected
          PROVE  cut = << >>
      <3>1. flight = << >> /\ sent = 0
        BY <1>2, <2>1 DEF NetdIInv
      <3> QED
        BY <3>1, SubSeqEmpty DEF cut
    <2> QED
      BY <1>3, <2>1
  <1> QED
    BY <1>3, <1>5, <1>6, <1>7 DEF NetdIInv, Stops, link

LEMMA NetdKeeps == NetdIInv /\ [NetdNext]_netdVars => NetdIInv'
  <1> SUFFICES ASSUME NetdIInv, [NetdNext]_netdVars
               PROVE  NetdIInv'
    OBVIOUS
  <1>1. NetdTypeOK /\ offered <= offered
    BY NetdConstants DEF NetdIInv, NetdTypeOK
  <1>2. CASE Maintain
    <2>1. CASE Subscribed
      BY <1>2, <2>1, SubscribedKeeps DEF Maintain
    <2>2. CASE NotReachable
      <3>1. Doubled(backoff) \in MinBackoff..MaxBackoff
        BY <1>1, NetdConstants DEF Doubled, NetdTypeOK
      <3>2. tryIn' \in 0..MaxBackoff /\ backoff' \in MinBackoff..MaxBackoff
        BY <1>1, <2>2, <3>1, NetdConstants DEF NotReachable, NetdTypeOK
      <3>3. NetdTypeOK'
        BY <1>1, <2>2, <3>2 DEF NotReachable, NetdTypeOK, netd
      <3> QED
        BY <1>1, <2>2, <3>3, SameStream DEF NotReachable, Stream, netd
    <2> QED
      BY <1>2, <2>1, <2>2 DEF Maintain
  <1>3. CASE Absorb
    BY <1>3, AbsorbKeeps
  <1>4. CASE NetdElapse(1)
    <2>1. tryIn' \in 0..MaxBackoff
      BY <1>1, <1>4, NetdConstants DEF NetdElapse, NetdTypeOK
    <2>2. NetdTypeOK'
      BY <1>1, <1>4, <2>1 DEF NetdElapse, NetdTypeOK, netd
    <2> QED
      BY <1>1, <1>4, <2>2, SameStream DEF NetdElapse, Stream, netd
  <1>5. CASE Arrive
    BY <1>5, ArriveKeeps
  <1>6. CASE NetworkChanges
    <2>1. offered' \in offered..MaxLease /\ offered <= offered'
      BY <1>1, <1>6, NetdConstants DEF NetworkChanges, NetdTypeOK
    <2>2. CASE Listening
      BY <1>1, <1>6, <2>1, <2>2, SentKeeps
         DEF NetworkChanges, NetdTypeOK, Kinds
    <2>3. CASE ~Listening
      <3>1. taken \in 0..offered' /\ offered' \in 0..MaxLease
        BY <1>1, <2>1, NetdConstants DEF NetdTypeOK
      <3>2. NetdTypeOK'
        BY <1>1, <1>6, <2>3, <3>1 DEF NetworkChanges, NetdTypeOK, link
      <3> QED
        BY <1>6, <2>1, <2>3, <3>2, SameStream DEF NetworkChanges, Stream, link
    <2> QED
      BY <2>2, <2>3
  <1>7. ASSUME NEW kind \in Bad \cup {"other"}, Sends(kind)
        PROVE  NetdIInv'
    <2>1. kind \in Kinds
      BY DEF Kinds
    <2>2. faults' \in 0..MaxFaults /\ offered' \in offered..MaxLease
      BY <1>1, <1>7, NetdConstants DEF Sends, NetdTypeOK
    <2> QED
      BY <1>7, <2>1, <2>2, SentKeeps DEF Sends
  <1>8. ASSUME NEW sent \in 0..Len(flight), Stops(sent)
        PROVE  NetdIInv'
    BY <1>8, StopsKeeps
  <1>9. CASE Starts
    <2>1. NetdTypeOK'
      BY <1>1, <1>9 DEF Starts, NetdTypeOK, link
    <2> QED
      BY <1>1, <1>9, <2>1, SameStream DEF Starts, Stream, link
  <1>10. CASE UNCHANGED netdVars
    <2>1. NetdTypeOK'
      BY <1>1, <1>10 DEF netdVars, netd, link, NetdTypeOK
    <2> QED
      BY <1>1, <1>10, <2>1, SameStream DEF netdVars, netd, link, Stream
  <1> QED
    BY <1>2, <1>3, <1>4, <1>5, <1>6, <1>7, <1>8, <1>9, <1>10
       DEF NetdNext, Link, NetdOutside

(* netd_link: in every behaviour of the link, pieces of frames come by     *)
(* turns, none is lost within one or left over from an earlier connection. *)
THEOREM NetdInvariance == NetdSpec => []NetdIInv
  <1>1. NetdInit => NetdIInv
    BY NetdInitially
  <1>2. NetdIInv /\ [NetdNext]_netdVars => NetdIInv'
    BY NetdKeeps
  <1> QED
    BY <1>1, <1>2, PTL DEF NetdSpec

(* With the types: the next try is never further off than the longest      *)
(* backoff, and no lease is absorbed that netd has not had.                *)
THEOREM NetdTypeCorrect == NetdSpec => []NetdTypeOK
  <1>1. NetdIInv => NetdTypeOK
    BY DEF NetdIInv
  <1> QED
    BY <1>1, NetdInvariance, PTL

(* service and maintain: what waits in the buffer is the head of a frame   *)
(* of the connection there is.                                             *)
THEOREM BuffersAreFresh == NetdSpec => []BufferIsOfThisConnection
  <1>1. NetdIInv => BufferIsOfThisConnection
    <2> SUFFICES ASSUME NetdIInv
                 PROVE  BufferIsOfThisConnection
      OBVIOUS
    <2>1. NetdTypeOK /\ buf \in Seq(Piece)
      BY DEF NetdIInv, NetdTypeOK
    <2>2. ASSUME buf # << >>
          PROVE  Len(buf) = 1 /\ buf[1].part = 1 /\ buf[1].frame.conn = conn
      <3>1. connected /\ InTurns(Stream, Ours) /\ Len(buf) <= 1
        BY <2>2 DEF NetdIInv
      <3>2. Len(buf) \in Nat \ {0}
        BY <2>1, <2>2, EmptySeq
      <3>3. Len(buf) = 1
        BY <3>1, <3>2
      <3>4. Stream[1] = buf[1] /\ 1 \in 1..Len(Stream)
        BY <2>1, <3>3, StreamIs
      <3>5. Stream[1] \in Ours /\ Stream[1].part = 1
        BY <3>1, <3>4 DEF InTurns
      <3> QED
        BY <3>3, <3>4, <3>5 DEF Ours
    <2> QED
      BY <2>2 DEF NetdIInv, BufferIsOfThisConnection
  <1> QED
    BY <1>1, NetdInvariance, PTL

-----------------------------------------------------------------------------
(* Control *)

(* Whoever waits in q is there once: leaving and joining.                  *)
LEMMA HeadLeaves ==
    ASSUME NEW S, NEW q \in Seq(S), q # << >>, IsInjective(q)
    PROVE  /\ Head(q) \in S /\ Head(q) \in ToSet(q)
           /\ Tail(q) \in Seq(S)
           /\ IsInjective(Tail(q))
           /\ ToSet(Tail(q)) = ToSet(q) \ {Head(q)}
  <1> DEFINE t == Tail(q)
  <1>1. /\ Len(q) \in Nat \ {0} /\ DOMAIN q = 1..Len(q)
        /\ Head(q) \in S /\ Head(q) = q[1]
        /\ t \in Seq(S)
        /\ Len(t) = Len(q) - 1
        /\ \A i \in 1..Len(t) : t[i] = q[i + 1]
    BY EmptySeq, LenProperties, HeadTailProperties
  <1>2. DOMAIN t = 1..Len(t)
    BY <1>1, LenProperties
  <1> HIDE DEF t
  <1>3. Head(q) \in ToSet(q)
    BY <1>1 DEF ToSet
  <1>4. IsInjective(t)
    <2>1. ASSUME NEW i \in DOMAIN t, NEW j \in DOMAIN t, t[i] = t[j]
          PROVE  i = j
      <3>1. i + 1 \in DOMAIN q /\ j + 1 \in DOMAIN q /\ q[i + 1] = q[j + 1]
        BY <1>1, <1>2, <2>1
      <3>2. i + 1 = j + 1
        BY <3>1 DEF IsInjective
      <3> QED
        BY <1>1, <1>2, <3>2
    <2> QED
      BY <2>1 DEF IsInjective
  <1>5. ASSUME NEW c
        PROVE  c \in ToSet(t) <=> c \in ToSet(q) /\ c # Head(q)
    <2>1. ASSUME NEW i \in DOMAIN t, c = t[i]
          PROVE  c \in ToSet(q) /\ c # Head(q)
      <3>1. i + 1 \in DOMAIN q /\ c = q[i + 1] /\ i + 1 # 1 /\ 1 \in DOMAIN q
        BY <1>1, <1>2, <2>1
      <3> QED
        BY <1>1, <3>1 DEF ToSet, IsInjective
    <2>2. ASSUME NEW i \in DOMAIN q, c = q[i], c # Head(q)
          PROVE  c \in ToSet(t)
      <3>1. i - 1 \in DOMAIN t /\ t[i - 1] = q[i - 1 + 1] /\ i - 1 + 1 = i
        BY <1>1, <1>2, <2>2
      <3> QED
        BY <2>2, <3>1 DEF ToSet
    <2> QED
      BY <2>1, <2>2 DEF ToSet
  <1>6. ToSet(t) = ToSet(q) \ {Head(q)}
    BY <1>5
  <1> QED
    BY <1>1, <1>3, <1>4, <1>6 DEF t

LEMMA LastJoins ==
    ASSUME NEW S, NEW q \in Seq(S), IsInjective(q),
           NEW c \in S, c \notin ToSet(q)
    PROVE  /\ Append(q, c) \in Seq(S)
           /\ IsInjective(Append(q, c))
           /\ ToSet(Append(q, c)) = ToSet(q) \cup {c}
  <1> DEFINE t == Append(q, c)
  <1>1. /\ Len(q) \in Nat /\ DOMAIN q = 1..Len(q)
        /\ t \in Seq(S)
        /\ Len(t) = Len(q) + 1
        /\ \A i \in 1..Len(q) : t[i] = q[i]
        /\ t[Len(q) + 1] = c
    BY LenProperties, AppendProperties
  <1>2. DOMAIN t = 1..Len(q) + 1
    BY <1>1, LenProperties
  <1> HIDE DEF t
  <1>3. \A i \in DOMAIN t : i \in DOMAIN q \/ i = Len(q) + 1
    BY <1>1, <1>2
  <1>4. IsInjective(t)
    BY <1>1, <1>3 DEF IsInjective, ToSet
  <1>5. DOMAIN q \subseteq DOMAIN t /\ Len(q) + 1 \in DOMAIN t
    BY <1>1, <1>2
  <1>6. ToSet(t) = ToSet(q) \cup {c}
    BY <1>1, <1>3, <1>5 DEF ToSet
  <1> QED
    BY <1>1, <1>4, <1>6 DEF t

(* sources_of: the chunks are as many as it takes, and no more.            *)
LEMMA ChunksAre ==
    ASSUME NEW n \in Nat \ {0}
    PROVE  /\ ChunksOf(n) \in Nat \ {0}
           /\ n <= ChunksOf(n) * ChunkSize
           /\ \A i \in 1..ChunksOf(n) - 1 : i * ChunkSize < n
  <1> DEFINE q == (n + ChunkSize - 1) \div ChunkSize
  <1>1. ChunkSize \in Nat \ {0} /\ n + ChunkSize - 1 \in Nat
    BY ControlConstants
  <1>2. /\ q \in Int
        /\ q * ChunkSize <= n + ChunkSize - 1
        /\ n + ChunkSize - 1 < q * ChunkSize + ChunkSize
    BY <1>1
  <1> HIDE DEF q
  <1>3. q * ChunkSize >= n /\ q * ChunkSize - ChunkSize < n
    BY <1>1, <1>2
  <1>4. q > 0
    BY <1>1, <1>2, <1>3
  <1>5. ASSUME NEW i \in 1..q - 1
        PROVE  i * ChunkSize < n
    <2>1. i + 1 <= q /\ i \in Nat
      BY <1>2, <1>4
    <2>2. (i + 1) * ChunkSize <= q * ChunkSize
      BY <1>1, <1>2, <2>1
    <2>3. (i + 1) * ChunkSize = i * ChunkSize + ChunkSize
      BY <1>1, <2>1
    <2>4. i * ChunkSize \in Int /\ q * ChunkSize \in Int
      BY <1>1, <1>2, <2>1
    <2> QED
      BY <1>1, <1>3, <2>2, <2>3, <2>4
  <1> QED
    BY <1>2, <1>3, <1>4, <1>5 DEF q, ChunksOf

(* A listing is chunks, one after the other, to the end of the list.       *)
LEMMA ListingIs ==
    ASSUME NEW n \in Lengths \cup {0}, NEW list, list = Listing(n)
    PROVE  /\ list \in Seq(Frames)
           /\ Len(list) \in Nat \ {0}
           /\ \A i \in 1..Len(list) :
                 /\ list[i].is = "sources"
                 /\ (list[i].more <=> i < Len(list))
                 /\ list[i].upto <= i * ChunkSize
                 /\ IF list[i].more THEN list[i].upto = i * ChunkSize
                    ELSE list[i].upto \in Lengths \cup {0}
  <1>1. ChunkSize \in Nat \ {0} /\ n \in Nat
    BY ControlConstants
  <1>2. CASE n = 0
    <2> DEFINE chunk == [is |-> "sources", upto |-> 0, more |-> FALSE]
    <2>1. list = <<chunk>> /\ chunk \in Frames
      BY <1>2 DEF Listing, Frames
    <2>2. /\ chunk.is = "sources" /\ chunk.upto = 0 /\ chunk.more = FALSE
      OBVIOUS
    <2> HIDE DEF chunk
    <2>3. list \in Seq(Frames) /\ Len(list) = 1 /\ list[1] = chunk
      BY <2>1
    <2>4. ~ (1 < 1) /\ 0 <= 1 * ChunkSize /\ 1 \in Nat \ {0}
      BY <1>1
    <2>5. \A i \in 1..Len(list) : i = 1
      BY <2>3
    <2> QED
      BY <1>2, <2>2, <2>3, <2>4, <2>5
  <1>3. CASE n # 0
    <2> DEFINE k == ChunksOf(n)
    <2>1. /\ k \in Nat \ {0}
          /\ n <= k * ChunkSize
          /\ \A i \in 1..k - 1 : i * ChunkSize < n
      BY <1>1, <1>3, ChunksAre
    <2>2. list = [i \in 1..k |->
                     [is |-> "sources",
                      upto |-> IF i * ChunkSize < n THEN i * ChunkSize ELSE n,
                      more |-> i < k]]
      BY <1>3 DEF Listing
    <2> HIDE DEF k
    <2>3. ASSUME NEW i \in 1..k
          PROVE  /\ list[i] \in Frames
                 /\ list[i].is = "sources"
                 /\ (list[i].more <=> i < k)
                 /\ list[i].upto <= i * ChunkSize
                 /\ IF list[i].more THEN list[i].upto = i * ChunkSize
                    ELSE list[i].upto \in Lengths \cup {0}
      <3>1. i * ChunkSize \in Nat
        BY <1>1, <2>1
      <3>2. PICK u \in Nat : u = IF i * ChunkSize < n THEN i * ChunkSize ELSE n
        BY <1>1, <3>1
      <3>3. list[i] = [is |-> "sources", upto |-> u, more |-> i < k]
        BY <2>2, <3>2
      <3>4. u <= i * ChunkSize
        BY <1>1, <3>1, <3>2
      <3>5. CASE i < k
        <4>1. list[i] = [is |-> "sources", upto |-> u, more |-> TRUE]
          BY <3>3, <3>5
        <4>2. i \in 1..k - 1
          BY <2>1, <3>5
        <4>3. u = i * ChunkSize
          BY <2>1, <3>2, <4>2
        <4> QED
          BY <3>4, <3>5, <4>1, <4>3 DEF Frames
      <3>6. CASE ~ (i < k)
        <4>1. list[i] = [is |-> "sources", upto |-> u, more |-> FALSE]
          <5>1. (i < k) = FALSE
            BY <3>6
          <5> QED
            BY <3>3, <5>1, Zenon
        <4>2. i = k
          BY <2>1, <3>6
        <4>3. u = n
          BY <1>1, <2>1, <3>1, <3>2, <4>2
        <4> QED
          BY <3>4, <3>6, <4>1, <4>3 DEF Frames
      <3> QED
        BY <3>5, <3>6
    <2>4. list \in Seq(Frames) /\ Len(list) = k
      <3>1. list \in [1..k -> Frames]
        BY <2>2, <2>3
      <3> QED
        BY <2>1, <3>1
    <2> QED
      BY <2>1, <2>3, <2>4
  <1> QED
    BY <1>2, <1>3

(* A run grows by a snapshot that follows or by the end of it.             *)
LEMMA RunGrows ==
    ASSUME NEW q \in Seq(Frames), Run(q), NEW frame \in Frames,
           frame.is \in {"snapshot", "torn"},
           q # << >> => Follows(frame, q[Len(q)]),
           NEW t, t = Append(q, frame)
    PROVE  /\ t \in Seq(Frames) /\ Run(t)
           /\ t # << >> /\ t[Len(t)] = frame
  <1>1. /\ Len(q) \in Nat
        /\ t \in Seq(Frames) /\ t # << >>
        /\ Len(t) = Len(q) + 1
        /\ \A i \in 1..Len(q) : t[i] = q[i]
        /\ t[Len(q) + 1] = frame
    BY LenProperties, AppendProperties
  <1>2. \A i \in 1..Len(t) : t[i].is \in {"snapshot", "torn"}
    <2>1. \A i \in 1..Len(t) : i \in 1..Len(q) \/ i = Len(q) + 1
      BY <1>1
    <2> QED
      BY <1>1, <2>1 DEF Run
  <1>3. ASSUME NEW i \in 2..Len(t)
        PROVE  Follows(t[i], t[i - 1])
    <2>1. CASE i = Len(q) + 1
      <3>1. q # << >> /\ i - 1 = Len(q) /\ Len(q) \in 1..Len(q)
        BY <1>1, <2>1
      <3> QED
        BY <1>1, <2>1, <3>1
    <2>2. CASE i \in 2..Len(q)
      <3>1. i \in 1..Len(q) /\ i - 1 \in 1..Len(q)
        BY <1>1, <2>2
      <3> QED
        BY <1>1, <2>2, <3>1 DEF Run
    <2> QED
      BY <1>1, <2>1, <2>2
  <1> QED
    BY <1>1, <1>2, <1>3 DEF Run

LEMMA NoRun == << >> \in Seq(Frames) /\ Run(<< >>)
  BY EmptySeq DEF Run

(* Reading the first of a run leaves one.                                  *)
LEMMA RunShrinks ==
    ASSUME NEW q \in Seq(Frames), q # << >>, Run(q), NEW t, t = Tail(q)
    PROVE  /\ t \in Seq(Frames) /\ Run(t)
           /\ t # << >> => t[Len(t)] = q[Len(q)]
  <1>1. /\ Len(q) \in Nat \ {0}
        /\ t \in Seq(Frames)
        /\ Len(t) = Len(q) - 1
        /\ \A i \in 1..Len(t) : t[i] = q[i + 1]
    BY EmptySeq, HeadTailProperties
  <1>2. \A i \in 1..Len(t) : i + 1 \in 1..Len(q)
    BY <1>1
  <1>3. ASSUME NEW i \in 2..Len(t)
        PROVE  Follows(t[i], t[i - 1])
    <2>1. /\ i \in 1..Len(t) /\ i - 1 \in 1..Len(t)
          /\ i + 1 \in 2..Len(q) /\ i - 1 + 1 = i + 1 - 1
      BY <1>1
    <2>2. t[i] = q[i + 1] /\ t[i - 1] = q[i + 1 - 1]
      BY <1>1, <2>1
    <2> QED
      BY <2>1, <2>2 DEF Run
  <1>4. t # << >> => Len(t) \in 1..Len(t) /\ Len(t) + 1 = Len(q)
    BY <1>1, EmptySeq
  <1> QED
    BY <1>1, <1>2, <1>3, <1>4 DEF Run

LEMMA ControlInitially == ControlInit => ControlIInv
  <1> SUFFICES ASSUME ControlInit
               PROVE  ControlIInv
    OBVIOUS
  <1>1. << >> \in Seq(Clients) /\ DOMAIN << >> = {} /\ ToSet(<< >>) = {}
    BY DEF ToSet
  <1>2. IsFiniteSet({}) /\ Cardinality({}) = 0
    BY FS_EmptySet
  <1>3. Error \in Frames /\ 0 \in 0..Ring - 1 /\ 0 <= MaxClients
    BY ControlConstants DEF Frames
  <1>4. ControlTypeOK
    <2>1. /\ wants \in [Clients -> Queries \cup Orders \cup Unread]
          /\ inbox \in [Clients -> Seq(Frames)]
          /\ latest \in [Clients -> Frames]
      BY <1>3, NoRun DEF ControlInit, Unread
    <2> QED
      BY <1>1, <1>2, <1>3, <2>1 DEF ControlInit, ControlTypeOK
  <1>5. IsInjective(backlog)
    BY <1>1 DEF ControlInit, IsInjective
  <1>6. \A c \in Clients : Sound(c)
    BY <1>1, NoRun DEF ControlInit, Sound
  <1> QED
    BY <1>2, <1>4, <1>5, <1>6 DEF ControlIInv, ControlInit

(* A caller none of whose things changed, while nothing is published.      *)
LEMMA StaysSound ==
    ASSUME NEW c, Sound(c),
           inbox'[c] = inbox[c], latest'[c] = latest[c],
           c \in ToSet(backlog') <=> c \in ToSet(backlog),
           c \in subscribers' <=> c \in subscribers,
           c \in gone' <=> c \in gone,
           generation' = generation, unannounced => unannounced',
           unannounced' \/ synchronised' = synchronised
    PROVE  Sound(c)'
  <1>1. UpToDate(c) => UpToDate(c)'
    <2> SUFFICES ASSUME UpToDate(c)
                 PROVE  UpToDate(c)'
      OBVIOUS
    <2>1. PICK s \in BOOLEAN :
              /\ latest[c] = [is |-> "snapshot", generation |-> generation,
                              synchronised |-> s]
              /\ unannounced \/ s = synchronised
      BY DEF UpToDate
    <2>2. unannounced' \/ s = synchronised'
      BY <2>1
    <2>3. latest'[c] = [is |-> "snapshot", generation |-> generation',
                        synchronised |-> s]
      BY <2>1
    <2> QED
      BY <2>2, <2>3 DEF UpToDate
  <1>2. Run(inbox[c]) => Run(inbox[c])'
    BY DEF Run
  <1>3. Reply(inbox[c]) => Reply(inbox[c])'
    BY DEF Reply
  <1> QED
    BY <1>1, <1>2, <1>3 DEF Sound

(* Everybody served but subscribers is answered and forgotten.             *)
LEMMA AnswersKeeps ==
    ASSUME ControlIInv, NEW c \in Clients,
           NEW frames \in Seq(Frames), Reply(frames), Answers(c, frames),
           automatic' \in BOOLEAN, synchronised' \in BOOLEAN,
           unannounced' \in BOOLEAN, generation' = generation,
           unannounced => unannounced',
           unannounced' \/ synchronised' = synchronised
    PROVE  ControlIInv'
  <1>1. /\ ControlTypeOK /\ IsFiniteSet(subscribers)
        /\ IsInjective(backlog) /\ \A d \in Clients : Sound(d)
        /\ backlog \in Seq(Clients)
    BY DEF ControlIInv, ControlTypeOK
  <1>2. /\ backlog # << >> /\ c = Head(backlog) /\ backlog' = Tail(backlog)
        /\ wants' = [wants EXCEPT ![c] = "silent"]
        /\ inbox' = IF c \in gone THEN inbox
                    ELSE [inbox EXCEPT ![c] = @ \o frames]
        /\ gone' = gone \ {c}
        /\ subscribers' = subscribers /\ latest' = latest
    BY DEF Answers, Serves, Send
  <1>3. /\ c \in ToSet(backlog) /\ backlog' \in Seq(Clients)
        /\ IsInjective(backlog') /\ ToSet(backlog') = ToSet(backlog) \ {c}
    BY <1>1, <1>2, HeadLeaves
  <1>4. c \notin subscribers /\ inbox[c] = << >>
    BY <1>1, <1>3 DEF Sound
  <1>5. << >> \o frames = frames
    BY ConcatEmptySeq
  <1>6. /\ inbox' \in [Clients -> Seq(Frames)]
        /\ inbox'[c] \in {<< >>, frames}
        /\ \A d \in Clients \ {c} : inbox'[d] = inbox[d]
    BY <1>1, <1>2, <1>4, <1>5 DEF ControlTypeOK
  <1>7. ControlTypeOK'
    <2>1. wants' \in [Clients -> Queries \cup Orders \cup Unread]
      BY <1>1, <1>2 DEF ControlTypeOK, Unread
    <2> QED
      BY <1>1, <1>2, <1>3, <1>6, <2>1 DEF ControlTypeOK
  <1>8. ASSUME NEW d \in Clients
        PROVE  Sound(d)'
    <2>1. CASE d = c
      <3>1. Run(inbox[c])' \/ Reply(inbox[c])'
        BY <1>6, NoRun DEF Run, Reply
      <3> QED
        BY <1>2, <1>3, <1>4, <2>1, <3>1 DEF Sound
    <2>2. CASE d # c
      BY <1>1, <1>2, <1>3, <1>6, <2>2, StaysSound
    <2> QED
      BY <2>1, <2>2
  <1>9. IsFiniteSet(subscribers') /\ IsInjective(backlog)'
    BY <1>1, <1>2, <1>3 DEF IsInjective
  <1> QED
    BY <1>7, <1>8, <1>9 DEF ControlIInv

(* publish: who stops taking snapshots is not sent another.                *)
LEMMA PushedKeeps ==
    ASSUME ControlIInv, NEW torn, NEW snapshot, Pushed(torn, snapshot),
           generation' \in {generation, (generation + 1) % Ring},
           synchronised' \in BOOLEAN, unannounced' = FALSE,
           automatic' \in BOOLEAN,
           snapshot = [is |-> "snapshot", generation |-> generation',
                       synchronised |-> synchronised']
    PROVE  ControlIInv'
  <1>1. /\ ControlTypeOK /\ IsFiniteSet(subscribers)
        /\ IsInjective(backlog) /\ \A d \in Clients : Sound(d)
        /\ inbox \in [Clients -> Seq(Frames)]
        /\ latest \in [Clients -> Frames]
    BY DEF ControlIInv, ControlTypeOK
  <1>2. generation' \in 0..Ring - 1
    BY <1>1, ControlConstants DEF ControlTypeOK
  <1>3. /\ snapshot \in Frames /\ snapshot.is = "snapshot"
        /\ snapshot.generation = generation'
        /\ Torn \in Frames /\ Torn.is = "torn" /\ Error \in Frames
    BY <1>2 DEF Frames, Torn
  <1>4. /\ subscribers' \subseteq subscribers
        /\ \A c \in subscribers' : Takes(c)
        /\ torn \subseteq subscribers /\ gone' = gone \ subscribers
        /\ backlog' = backlog /\ wants' = wants
    BY DEF Pushed, Stays
  <1>5. ASSUME NEW c \in subscribers
        PROVE  /\ c \in Clients /\ Run(inbox[c]) /\ inbox[c] \in Seq(Frames)
               /\ c \notin ToSet(backlog)
               /\ inbox[c] # << >> =>
                     /\ Follows(snapshot, inbox[c][Len(inbox[c])])
                     /\ Follows(Torn, inbox[c][Len(inbox[c])])
    <2>1. c \in Clients
      BY <1>1 DEF ControlTypeOK
    <2>2. UpToDate(c) /\ Run(inbox[c]) /\ c \notin ToSet(backlog)
      BY <1>1, <2>1 DEF Sound
    <2>3. /\ latest[c].is = "snapshot" /\ latest[c].generation = generation
          /\ inbox[c] # << >> => inbox[c][Len(inbox[c])] = latest[c]
      BY <2>2 DEF UpToDate
    <2> QED
      BY <1>1, <1>3, <2>1, <2>2, <2>3 DEF Follows
  <1>6. ASSUME NEW c \in Clients
        PROVE  /\ inbox'[c] \in Seq(Frames) /\ latest'[c] \in Frames
               /\ Sound(c)'
    <2>1. inbox'[c] = IF c \notin subscribers THEN inbox[c]
                      ELSE IF Takes(c) THEN Append(inbox[c], snapshot)
                      ELSE IF c \in torn THEN Append(inbox[c], Torn)
                      ELSE inbox[c]
      BY DEF Pushed
    <2>2. latest'[c] = IF c \notin subscribers' THEN Error
                       ELSE IF Takes(c) THEN snapshot ELSE latest[c]
      BY DEF Pushed
    <2>3. latest'[c] \in Frames
      BY <1>1, <1>3, <2>2
    <2>4. CASE c \notin subscribers
      <3>1. inbox'[c] = inbox[c] /\ c \notin subscribers'
        BY <1>4, <2>1, <2>4
      <3>2. Run(inbox[c])' \/ Reply(inbox[c])'
        BY <1>1, <3>1 DEF Sound, Run, Reply
      <3>3. c \in gone' => c \in ToSet(backlog') /\ inbox'[c] = << >>
        BY <1>1, <1>4, <2>4, <3>1 DEF Sound
      <3>4. c \in ToSet(backlog') => inbox'[c] = << >>
        BY <1>1, <1>4, <3>1 DEF Sound
      <3> QED
        BY <1>1, <2>3, <3>1, <3>2, <3>3, <3>4 DEF Sound
    <2>5. CASE c \in subscribers /\ Takes(c)
      <3>1. inbox'[c] = Append(inbox[c], snapshot) /\ latest'[c] = snapshot
        BY <2>1, <2>2, <2>5 DEF Pushed, Stays
      <3>2. /\ inbox'[c] \in Seq(Frames) /\ Run(inbox'[c])
            /\ inbox'[c] # << >> /\ inbox'[c][Len(inbox'[c])] = snapshot
        <4>1. /\ inbox[c] \in Seq(Frames) /\ Run(inbox[c])
              /\ inbox[c] # << >> => Follows(snapshot, inbox[c][Len(inbox[c])])
              /\ snapshot.is \in {"snapshot", "torn"}
          BY <1>3, <1>5, <2>5
        <4>2. \A t : t = Append(inbox[c], snapshot) =>
                 /\ t \in Seq(Frames) /\ Run(t)
                 /\ t # << >> /\ t[Len(t)] = snapshot
          BY <1>3, <4>1, RunGrows
        <4> QED
          BY <3>1, <4>2
      <3>3. UpToDate(c)'
        BY <3>1, <3>2 DEF UpToDate
      <3>4. Run(inbox[c])'
        BY <3>2 DEF Run
      <3>5. c \notin gone' /\ c \notin ToSet(backlog')
        BY <1>4, <1>5, <2>5
      <3> QED
        BY <2>3, <3>2, <3>3, <3>4, <3>5 DEF Sound
    <2>6. CASE c \in subscribers /\ ~Takes(c)
      <3>1. inbox'[c] \in {inbox[c], Append(inbox[c], Torn)}
        BY <2>1, <2>6
      <3>2. inbox'[c] \in Seq(Frames) /\ Run(inbox'[c])
        <4>1. CASE inbox'[c] = inbox[c]
          BY <1>5, <2>6, <4>1
        <4>2. CASE inbox'[c] = Append(inbox[c], Torn)
          <5>1. /\ inbox[c] \in Seq(Frames) /\ Run(inbox[c])
                /\ inbox[c] # << >> => Follows(Torn, inbox[c][Len(inbox[c])])
                /\ Torn.is \in {"snapshot", "torn"}
            BY <1>3, <1>5, <2>6
          <5>2. \A t : t = Append(inbox[c], Torn) =>
                   t \in Seq(Frames) /\ Run(t)
            BY <1>3, <5>1, RunGrows
          <5> QED
            BY <4>2, <5>2
        <4> QED
          BY <3>1, <4>1, <4>2
      <3>3. Run(inbox[c])'
        BY <3>2 DEF Run
      <3>4. c \notin gone' /\ c \notin ToSet(backlog') /\ c \notin subscribers'
        BY <1>4, <1>5, <2>6
      <3> QED
        BY <2>3, <3>2, <3>3, <3>4 DEF Sound
    <2> QED
      BY <2>4, <2>5, <2>6
  <1>7. inbox' \in [Clients -> Seq(Frames)] /\ latest' \in [Clients -> Frames]
    <2>1. inbox' = [c \in Clients |-> inbox'[c]]
          /\ latest' = [c \in Clients |-> latest'[c]]
      BY DEF Pushed
    <2> QED
      BY <1>6, <2>1
  <1>8. /\ IsFiniteSet(subscribers')
        /\ Cardinality(subscribers') <= MaxClients
    <2>1. /\ IsFiniteSet(subscribers')
          /\ Cardinality(subscribers') <= Cardinality(subscribers)
      BY <1>1, <1>4, FS_Subset
    <2>2. Cardinality(subscribers) \in Nat /\ Cardinality(subscribers') \in Nat
      BY <1>1, <2>1, FS_CardinalityType
    <2> QED
      BY <1>1, <2>1, <2>2, ControlConstants DEF ControlTypeOK
  <1>9. ControlTypeOK'
    BY <1>1, <1>2, <1>4, <1>7, <1>8 DEF ControlTypeOK
  <1>10. IsInjective(backlog)'
    BY <1>1, <1>4 DEF IsInjective
  <1> QED
    BY <1>6, <1>8, <1>9, <1>10 DEF ControlIInv

(* A new subscriber is sent the state first of all.                        *)
LEMMA SubscribesKeeps ==
    ASSUME ControlIInv, NEW c \in Clients, Subscribes(c)
    PROVE  ControlIInv'
  <1>1. /\ ControlTypeOK /\ IsFiniteSet(subscribers)
        /\ IsInjective(backlog) /\ \A d \in Clients : Sound(d)
        /\ backlog \in Seq(Clients)
    BY DEF ControlIInv, ControlTypeOK
  <1>2. /\ Snapshot \in Frames /\ Snapshot.is = "snapshot"
        /\ <<Snapshot>> \in Seq(Frames) /\ Len(<<Snapshot>>) = 1
        /\ <<Snapshot>>[1] = Snapshot
        /\ << >> \o <<Snapshot>> = <<Snapshot>>
    <2>1. Snapshot \in Frames /\ Snapshot.is = "snapshot"
      BY <1>1 DEF Snapshot, Frames, ControlTypeOK
    <2> QED
      BY <2>1, ConcatEmptySeq
  <1>3. Run(<<Snapshot>>)
    BY <1>2 DEF Run
  <1>4. /\ ~TooMany
        /\ backlog # << >> /\ c = Head(backlog) /\ backlog' = Tail(backlog)
        /\ wants' = [wants EXCEPT ![c] = "silent"]
        /\ inbox' = IF c \in gone THEN inbox
                    ELSE [inbox EXCEPT ![c] = @ \o <<Snapshot>>]
        /\ IF c \in gone THEN subscribers' = subscribers /\ latest' = latest
           ELSE /\ subscribers' = subscribers \cup {c}
                /\ latest' = [latest EXCEPT ![c] = Snapshot]
        /\ gone' = gone \ {c} /\ UNCHANGED told
    BY DEF Subscribes, Understands, Serves, Send
  <1>5. /\ c \in ToSet(backlog) /\ backlog' \in Seq(Clients)
        /\ IsInjective(backlog') /\ ToSet(backlog') = ToSet(backlog) \ {c}
    BY <1>1, <1>4, HeadLeaves
  <1>6. c \notin subscribers /\ inbox[c] = << >>
    BY <1>1, <1>5 DEF Sound
  <1>7. /\ inbox' \in [Clients -> Seq(Frames)]
        /\ latest' \in [Clients -> Frames]
        /\ inbox'[c] = IF c \in gone THEN << >> ELSE <<Snapshot>>
        /\ c \notin gone => latest'[c] = Snapshot
        /\ \A d \in Clients \ {c} :
              inbox'[d] = inbox[d] /\ latest'[d] = latest[d]
    BY <1>1, <1>2, <1>4, <1>6 DEF ControlTypeOK
  <1>8. /\ IsFiniteSet(subscribers')
        /\ Cardinality(subscribers') <= MaxClients
    <2>1. Cardinality(subscribers) \in Nat
      BY <1>1, FS_CardinalityType
    <2>2. CASE c \in gone
      BY <1>1, <1>4, <2>2 DEF ControlTypeOK
    <2>3. CASE c \notin gone
      <3>1. /\ IsFiniteSet(subscribers \cup {c})
            /\ Cardinality(subscribers \cup {c}) = Cardinality(subscribers) + 1
        BY <1>1, <1>6, FS_AddElement
      <3>2. Cardinality(subscribers) < MaxClients
        BY <1>4, <2>1, ControlConstants DEF TooMany
      <3>3. subscribers' = subscribers \cup {c}
        BY <1>4, <2>3
      <3>4. Cardinality(subscribers) + 1 <= MaxClients
        BY <2>1, <3>2, ControlConstants
      <3> QED
        BY <3>1, <3>3, <3>4
    <2> QED
      BY <2>2, <2>3
  <1>9. ControlTypeOK'
    <2>1. wants' \in [Clients -> Queries \cup Orders \cup Unread]
      BY <1>1, <1>4 DEF ControlTypeOK, Unread
    <2>2. subscribers' \subseteq Clients
      BY <1>1, <1>4 DEF ControlTypeOK
    <2> QED
      BY <1>1, <1>4, <1>5, <1>7, <1>8, <2>1, <2>2 DEF ControlTypeOK, told
  <1>10. ASSUME NEW d \in Clients
         PROVE  Sound(d)'
    <2>1. CASE d # c
      <3>1. /\ inbox'[d] = inbox[d] /\ latest'[d] = latest[d]
            /\ d \in ToSet(backlog') <=> d \in ToSet(backlog)
            /\ d \in subscribers' <=> d \in subscribers
            /\ d \in gone' <=> d \in gone
        BY <1>4, <1>5, <1>7, <2>1
      <3>2. /\ generation' = generation /\ unannounced' = unannounced
            /\ synchronised' = synchronised
        BY <1>4 DEF told
      <3> QED
        BY <1>1, <3>1, <3>2, StaysSound
    <2>2. CASE d = c /\ c \in gone
      <3>1. Run(inbox[c])'
        BY <1>7, <2>2, NoRun DEF Run
      <3> QED
        BY <1>4, <1>5, <1>6, <2>2, <3>1 DEF Sound
    <2>3. CASE d = c /\ c \notin gone
      <3>1. Run(inbox[c])'
        BY <1>3, <1>7, <2>3 DEF Run
      <3>2. UpToDate(c)'
        <4>1. Snapshot = [is |-> "snapshot", generation |-> generation',
                          synchronised |-> synchronised']
          BY <1>4 DEF Snapshot, told
        <4>2. synchronised' \in BOOLEAN
          BY <1>1, <1>4 DEF ControlTypeOK, told
        <4> QED
          BY <1>2, <1>7, <2>3, <4>1, <4>2 DEF UpToDate
      <3> QED
        BY <1>4, <1>5, <2>3, <3>1, <3>2 DEF Sound
    <2> QED
      BY <2>1, <2>2, <2>3
  <1>11. IsInjective(backlog)'
    BY <1>5 DEF IsInjective
  <1> QED
    BY <1>8, <1>9, <1>10, <1>11 DEF ControlIInv

(* service_control, whatever the caller wants.                             *)
LEMMA ServeKeeps ==
    ASSUME ControlIInv, NEW c \in Clients, Serve(c)
    PROVE  ControlIInv'
  <1>1. /\ ControlTypeOK
        /\ automatic \in BOOLEAN /\ synchronised \in BOOLEAN
        /\ unannounced \in BOOLEAN
    BY DEF ControlIInv, ControlTypeOK
  <1>2. ASSUME UNCHANGED told, NEW frames \in Seq(Frames), Reply(frames),
               Answers(c, frames)
        PROVE  ControlIInv'
    BY <1>1, <1>2, AnswersKeeps DEF told
  <1>3. ASSUME NEW frame \in Frames, frame.is \in {"ok", "error", "status"}
        PROVE  <<frame>> \in Seq(Frames) /\ Reply(<<frame>>)
    BY <1>3 DEF Reply
  <1>4. /\ Error \in Frames /\ Error.is = "error"
        /\ Accepted \in Frames /\ Accepted.is = "ok"
        /\ Status \in Frames /\ Status.is = "status"
    BY <1>1 DEF Frames, Error, Accepted, Status
  <1>5. /\ <<Error>> \in Seq(Frames) /\ Reply(<<Error>>)
        /\ <<Accepted>> \in Seq(Frames) /\ Reply(<<Accepted>>)
        /\ <<Status>> \in Seq(Frames) /\ Reply(<<Status>>)
    BY <1>3, <1>4
  <1>6. CASE TurnsAway(c)
    BY <1>2, <1>5, <1>6 DEF TurnsAway
  <1>7. CASE Refuses(c)
    BY <1>2, <1>5, <1>7 DEF Refuses
  <1>8. CASE TellsStatus(c)
    BY <1>2, <1>5, <1>8 DEF TellsStatus
  <1>9. CASE ListsSources(c)
    <2>1. PICK n \in Lengths \cup {0} : Answers(c, Listing(n))
      BY <1>9 DEF ListsSources
    <2>2. Listing(n) \in Seq(Frames) /\ Reply(Listing(n))
      BY ListingIs DEF Reply
    <2> QED
      BY <1>2, <1>9, <2>1, <2>2 DEF ListsSources
  <1>10. CASE Subscribes(c)
    BY <1>10, SubscribesKeeps
  <1>11. ASSUME NEW auto \in BOOLEAN, Reloads(c, auto)
         PROVE  ControlIInv'
    <2>1. /\ automatic' = auto
          /\ synchronised' = (synchronised /\ auto = automatic)
          /\ unannounced' = (unannounced \/ (synchronised /\ auto # automatic))
          /\ generation' = generation
      BY <1>11 DEF Reloads, Reconfigured
    <2>2. /\ automatic' \in BOOLEAN /\ synchronised' \in BOOLEAN
          /\ unannounced' \in BOOLEAN
      BY <1>1, <2>1, Zenon
    <2>3. /\ unannounced => unannounced'
          /\ unannounced' \/ synchronised' = synchronised
      BY <1>1, <2>1
    <2>4. Answers(c, <<Accepted>>)
      BY <1>11 DEF Reloads
    <2> QED
      BY <1>5, <2>1, <2>2, <2>3, <2>4, AnswersKeeps
  <1>12. CASE Sets(c)
    BY <1>2, <1>5, <1>12 DEF Sets
  <1> QED
    BY <1>6, <1>7, <1>8, <1>9, <1>10, <1>11, <1>12 DEF Serve

(* check_registry.                                                         *)
LEMMA RoundKeeps ==
    ASSUME ControlIInv, NEW auto \in BOOLEAN, Round(auto)
    PROVE  ControlIInv'
  <1>1. /\ ControlTypeOK /\ \A d \in Clients : Sound(d)
        /\ automatic \in BOOLEAN /\ synchronised \in BOOLEAN
        /\ unannounced \in BOOLEAN
    BY DEF ControlIInv, ControlTypeOK
  <1>2. /\ automatic' = auto
        /\ synchronised' = (synchronised /\ auto = automatic)
        /\ unannounced' = (unannounced \/ (synchronised /\ auto # automatic))
        /\ generation' = generation
        /\ UNCHANGED callers
    BY DEF Round, Reconfigured
  <1>3. /\ automatic' \in BOOLEAN /\ synchronised' \in BOOLEAN
        /\ unannounced' \in BOOLEAN
    BY <1>1, <1>2, Zenon
  <1>4. /\ unannounced => unannounced'
        /\ unannounced' \/ synchronised' = synchronised
    BY <1>1, <1>2
  <1>5. ASSUME NEW d \in Clients
        PROVE  Sound(d)'
    BY <1>1, <1>2, <1>4, StaysSound DEF callers
  <1>6. ControlTypeOK'
    BY <1>1, <1>2, <1>3 DEF ControlTypeOK, callers
  <1> QED
    BY <1>2, <1>5, <1>6 DEF ControlIInv, callers, IsInjective

(* service_sockets: a poll is completed, and what is decided published.    *)
LEMMA CompletesKeeps ==
    ASSUME ControlIInv, Completes
    PROVE  ControlIInv'
  <1>1. PICK torn : Selected(torn) \/ NoMajority(torn)
    BY DEF Completes
  <1>2. /\ generation \in 0..Ring - 1 /\ synchronised \in BOOLEAN
        /\ automatic \in BOOLEAN
    BY DEF ControlIInv, ControlTypeOK
  <1>3. PICK snapshot : snapshot = Snapshot'
    OBVIOUS
  <1>4. /\ Pushed(torn, snapshot)
        /\ generation' \in {generation, (generation + 1) % Ring}
        /\ synchronised' \in BOOLEAN /\ unannounced' = FALSE
        /\ automatic' \in BOOLEAN
    BY <1>1, <1>2, <1>3 DEF Selected, NoMajority, Publish
  <1>5. snapshot = [is |-> "snapshot", generation |-> generation',
                    synchronised |-> synchronised']
    BY <1>3 DEF Snapshot
  <1> QED
    BY <1>4, <1>5, PushedKeeps

(* The callers.                                                            *)
LEMMA ConnectsKeeps ==
    ASSUME ControlIInv, NEW c \in Clients, NEW request \in Requests(c),
           Connects(c, request), UNCHANGED told
    PROVE  ControlIInv'
  <1>1. /\ ControlTypeOK /\ IsFiniteSet(subscribers)
        /\ IsInjective(backlog) /\ \A d \in Clients : Sound(d)
        /\ backlog \in Seq(Clients)
    BY DEF ControlIInv, ControlTypeOK
  <1>2. /\ c \notin ToSet(backlog) /\ c \notin subscribers
        /\ inbox[c] = << >>
        /\ wants' = [wants EXCEPT ![c] = request]
        /\ backlog' = Append(backlog, c)
        /\ UNCHANGED <<gone, subscribers, inbox, latest>>
    BY DEF Connects, Away
  <1>3. /\ backlog' \in Seq(Clients) /\ IsInjective(backlog')
        /\ ToSet(backlog') = ToSet(backlog) \cup {c}
    BY <1>1, <1>2, LastJoins
  <1>4. ControlTypeOK'
    <2>1. wants' \in [Clients -> Queries \cup Orders \cup Unread]
      BY <1>1, <1>2, ControlConstants DEF ControlTypeOK
    <2> QED
      BY <1>1, <1>2, <1>3, <2>1 DEF ControlTypeOK, told
  <1>5. ASSUME NEW d \in Clients
        PROVE  Sound(d)'
    <2>1. CASE d # c
      <3>1. /\ inbox'[d] = inbox[d] /\ latest'[d] = latest[d]
            /\ d \in ToSet(backlog') <=> d \in ToSet(backlog)
            /\ d \in subscribers' <=> d \in subscribers
            /\ d \in gone' <=> d \in gone
        BY <1>2, <1>3, <2>1
      <3> QED
        BY <1>1, <3>1, StaysSound DEF told
    <2>2. CASE d = c
      <3>1. Run(inbox[c])'
        BY <1>2, NoRun DEF Run
      <3> QED
        BY <1>2, <1>3, <2>2, <3>1 DEF Sound
    <2> QED
      BY <2>1, <2>2
  <1> QED
    BY <1>1, <1>2, <1>3, <1>4, <1>5 DEF ControlIInv, IsInjective

LEMMA ReadsKeeps ==
    ASSUME ControlIInv, NEW c \in Clients, Reads(c), UNCHANGED told
    PROVE  ControlIInv'
  <1>1. /\ ControlTypeOK /\ IsFiniteSet(subscribers)
        /\ IsInjective(backlog) /\ \A d \in Clients : Sound(d)
        /\ inbox \in [Clients -> Seq(Frames)]
    BY DEF ControlIInv, ControlTypeOK
  <1>2. /\ inbox[c] # << >>
        /\ UNCHANGED <<backlog, wants, gone, subscribers, latest>>
        /\ inbox' = [inbox EXCEPT ![c] =
                        IF Head(inbox[c]).is = "snapshot" THEN Tail(inbox[c])
                        ELSE << >>]
    BY DEF Reads
  <1>3. c \notin ToSet(backlog) /\ c \notin gone
    BY <1>1, <1>2 DEF Sound
  <1>4. /\ inbox'[c] \in Seq(Frames) /\ Run(inbox'[c])
        /\ inbox'[c] # << >> =>
              inbox'[c][Len(inbox'[c])] = inbox[c][Len(inbox[c])]
    <2>1. CASE Head(inbox[c]).is = "snapshot"
      <3>1. inbox'[c] = Tail(inbox[c]) /\ inbox[c] \in Seq(Frames)
        BY <1>1, <1>2, <2>1
      <3>2. Head(inbox[c]) = inbox[c][1]
        BY <3>1
      <3>3. ~Reply(inbox[c])
        <4>1. \A n \in Lengths \cup {0} :
                 inbox[c] = Listing(n) => inbox[c][1].is = "sources"
          <5>1. ASSUME NEW n \in Lengths \cup {0}, inbox[c] = Listing(n)
                PROVE  inbox[c][1].is = "sources"
            <6>1. 1 \in 1..Len(inbox[c])
              BY <5>1, ListingIs
            <6> QED
              BY <5>1, <6>1, ListingIs
          <5> QED
            BY <5>1
        <4> QED
          BY <2>1, <3>2, <4>1 DEF Reply
      <3>4. Run(inbox[c])
        BY <1>1, <3>3 DEF Sound
      <3>5. \A t : t = Tail(inbox[c]) =>
               /\ t \in Seq(Frames) /\ Run(t)
               /\ t # << >> => t[Len(t)] = inbox[c][Len(inbox[c])]
        BY <1>2, <3>1, <3>4, RunShrinks
      <3> QED
        BY <3>1, <3>5
    <2>2. CASE Head(inbox[c]).is # "snapshot"
      <3>1. inbox'[c] = << >>
        BY <1>1, <1>2, <2>2
      <3> QED
        BY <3>1, NoRun
    <2> QED
      BY <2>1, <2>2
  <1>5. /\ inbox' \in [Clients -> Seq(Frames)]
        /\ \A d \in Clients \ {c} : inbox'[d] = inbox[d]
    BY <1>1, <1>2, <1>4
  <1>6. ASSUME NEW d \in Clients
        PROVE  Sound(d)'
    <2>1. CASE d # c
      BY <1>1, <1>2, <1>5, <2>1, StaysSound DEF told
    <2>2. CASE d = c
      <3>1. Run(inbox[c])'
        BY <1>4 DEF Run
      <3>2. c \in subscribers => UpToDate(c)'
        BY <1>1, <1>2, <1>4 DEF Sound, UpToDate, told
      <3> QED
        BY <1>2, <1>3, <2>2, <3>1, <3>2 DEF Sound
    <2> QED
      BY <2>1, <2>2
  <1>7. ControlTypeOK'
    BY <1>1, <1>2, <1>5 DEF ControlTypeOK, told
  <1> QED
    BY <1>1, <1>2, <1>6, <1>7 DEF ControlIInv, IsInjective

LEMMA LeavesKeeps ==
    ASSUME ControlIInv, NEW c \in Clients, Leaves(c), UNCHANGED told
    PROVE  ControlIInv'
  <1>1. /\ ControlTypeOK /\ IsFiniteSet(subscribers)
        /\ IsInjective(backlog) /\ \A d \in Clients : Sound(d)
        /\ inbox \in [Clients -> Seq(Frames)]
    BY DEF ControlIInv, ControlTypeOK
  <1>2. /\ c \in ToSet(backlog) \cup subscribers
        /\ gone' = gone \cup {c}
        /\ inbox' = [inbox EXCEPT ![c] = << >>]
        /\ UNCHANGED <<backlog, wants, subscribers, latest>>
    BY DEF Leaves
  <1>3. /\ inbox' \in [Clients -> Seq(Frames)] /\ inbox'[c] = << >>
        /\ \A d \in Clients \ {c} : inbox'[d] = inbox[d]
    BY <1>1, <1>2, NoRun
  <1>4. ASSUME NEW d \in Clients
        PROVE  Sound(d)'
    <2>1. CASE d # c
      BY <1>1, <1>2, <1>3, <2>1, StaysSound DEF told
    <2>2. CASE d = c
      <3>1. Run(inbox[c])'
        BY <1>3, NoRun DEF Run
      <3>2. c \in subscribers => UpToDate(c)'
        BY <1>1, <1>2, <1>3 DEF Sound, UpToDate, told
      <3> QED
        BY <1>1, <1>2, <1>3, <2>2, <3>1, <3>2 DEF Sound
    <2> QED
      BY <2>1, <2>2
  <1>5. ControlTypeOK'
    BY <1>1, <1>2, <1>3 DEF ControlTypeOK, told
  <1> QED
    BY <1>1, <1>2, <1>4, <1>5 DEF ControlIInv, IsInjective

LEMMA ControlKeeps == ControlIInv /\ [ControlNext]_controlVars => ControlIInv'
  <1> SUFFICES ASSUME ControlIInv, [ControlNext]_controlVars
               PROVE  ControlIInv'
    OBVIOUS
  <1>1. ASSUME NEW auto \in BOOLEAN, Round(auto)
        PROVE  ControlIInv'
    BY <1>1, RoundKeeps
  <1>2. CASE Completes
    BY <1>2, CompletesKeeps
  <1>3. ASSUME UNCHANGED <<callers, told>>
        PROVE  ControlIInv'
    <2>1. ControlTypeOK'
      BY <1>3 DEF ControlIInv, ControlTypeOK, callers, told
    <2>2. ASSUME NEW d \in Clients
          PROVE  Sound(d)'
      BY <1>3, StaysSound DEF ControlIInv, callers, told
    <2> QED
      BY <1>3, <2>1, <2>2 DEF ControlIInv, callers, IsInjective
  <1>4. ASSUME NEW c \in Clients, Serving(c)
        PROVE  ControlIInv'
    BY <1>4, ServeKeeps DEF Serving
  <1>5. ASSUME NEW c \in Clients, Comes(c)
        PROVE  ControlIInv'
    BY <1>5, ConnectsKeeps, ReadsKeeps, LeavesKeeps DEF Comes
  <1> QED
    BY <1>1, <1>2, <1>3, <1>4, <1>5
       DEF ControlNext, Loop, HearsNothing, Served, controlVars

(* control.rs and publish: in every behaviour of the socket.               *)
THEOREM ControlInvariance == ControlSpec => []ControlIInv
  <1>1. ControlInit => ControlIInv
    BY ControlInitially
  <1>2. ControlIInv /\ [ControlNext]_controlVars => ControlIInv'
    BY ControlKeeps
  <1> QED
    BY <1>1, <1>2, PTL DEF ControlSpec

(* With the types: there are never more subscribers than MAX_CLIENTS.      *)
THEOREM ControlTypeCorrect == ControlSpec => []ControlTypeOK
  <1>1. ControlIInv => ControlTypeOK
    BY DEF ControlIInv
  <1> QED
    BY <1>1, ControlInvariance, PTL

(* publish: who is still a subscriber was sent the state as it is, unless  *)
(* the configuration changed it since.                                     *)
THEOREM SubscribersKnow == ControlSpec => []SubscribersAreCurrent
  <1>1. ControlIInv => SubscribersAreCurrent
    <2> SUFFICES ASSUME ControlIInv, ~unannounced, NEW c \in subscribers
                 PROVE  latest[c] = Snapshot
      BY DEF SubscribersAreCurrent
    <2>1. UpToDate(c)
      BY DEF ControlIInv, ControlTypeOK, Sound
    <2> QED
      BY <2>1 DEF UpToDate, Snapshot
  <1> QED
    BY <1>1, ControlInvariance, PTL

(* send_nonblocking, publish and sources_of: a caller reads whole frames,  *)
(* snapshots with none left out and lists to their end.                    *)
THEOREM CallersReadWholeFrames == ControlSpec => []FramesAreWhole
  <1>1. ControlIInv => FramesAreWhole
    <2> SUFFICES ASSUME ControlIInv
                 PROVE  FramesAreWhole
      OBVIOUS
    <2>1. ASSUME NEW c \in Clients
          PROVE  /\ inbox[c] \in Seq(Frames) /\ Len(inbox[c]) \in Nat
                 /\ DOMAIN inbox[c] = 1..Len(inbox[c])
                 /\ Run(inbox[c]) \/ Reply(inbox[c])
      BY LenProperties DEF ControlIInv, ControlTypeOK, Sound
    <2>2. ASSUME NEW c \in Clients, NEW n \in Lengths \cup {0},
                 inbox[c] = Listing(n)
          PROVE  /\ inbox[c][1].is # "snapshot"
                 /\ \A i \in 1..Len(inbox[c]) :
                       /\ inbox[c][i].more <=> i < Len(inbox[c])
                       /\ inbox[c][i].upto <= i * ChunkSize
                       /\ IF inbox[c][i].more
                          THEN inbox[c][i].upto = i * ChunkSize
                          ELSE inbox[c][i].upto \in Lengths \cup {0}
      <3>1. 1 \in 1..Len(inbox[c])
        BY <2>2, ListingIs
      <3> QED
        BY <2>2, <3>1, ListingIs
    <2>3. RunsOfSnapshots
      <3> SUFFICES ASSUME NEW c \in Clients, NEW i \in 2..Len(inbox[c]),
                          inbox[c][1].is = "snapshot"
                   PROVE  Follows(inbox[c][i], inbox[c][i - 1])
        BY DEF RunsOfSnapshots
      <3>1. Run(inbox[c])
        BY <2>1, <2>2 DEF Reply
      <3> QED
        BY <3>1 DEF Run
    <2>4. ListsAreWhole
      <3> SUFFICES ASSUME NEW c \in Clients, NEW i \in 1..Len(inbox[c]),
                          inbox[c][i].is = "sources"
                   PROVE  /\ inbox[c][i].more <=> i < Len(inbox[c])
                          /\ inbox[c][i].upto <= i * ChunkSize
                          /\ IF inbox[c][i].more
                             THEN inbox[c][i].upto = i * ChunkSize
                             ELSE inbox[c][i].upto \in Lengths \cup {0}
        BY <2>1 DEF ListsAreWhole
      <3>1. ~Run(inbox[c])
        BY DEF Run
      <3>2. PICK n \in Lengths \cup {0} : inbox[c] = Listing(n)
        BY <2>1, <3>1 DEF Reply
      <3> QED
        BY <2>2, <3>2
    <2> QED
      BY <2>3, <2>4 DEF FramesAreWhole
  <1> QED
    BY <1>1, ControlInvariance, PTL

-----------------------------------------------------------------------------
(* KeExchange *)

(* Where the places of a sequence go when the k-th of them is left out.    *)
Shifted(i, k) == IF i < k THEN i ELSE i + 1

LEMMA LeftOut ==
    ASSUME NEW S, NEW s \in Seq(S), NEW k \in 1..Len(s),
           NEW t, t = RemoveAt(s, k)
    PROVE  /\ t \in Seq(S)
           /\ \A i \in 1..Len(t) :
                 /\ Shifted(i, k) \in 1..Len(s) /\ Shifted(i, k) # k
                 /\ t[i] = s[Shifted(i, k)]
           /\ \A j \in 1..Len(s) :
                 j # k => \E i \in 1..Len(t) : j = Shifted(i, k)
           /\ \A i, j \in 1..Len(t) : i <= j <=> Shifted(i, k) <= Shifted(j, k)
  <1>1. PICK n \in Nat : n = Len(s)
    BY LenProperties
  <1>2. PICK a : a = SubSeq(s, 1, k - 1)
    OBVIOUS
  <1>3. PICK b : b = SubSeq(s, k + 1, n)
    OBVIOUS
  <1>4. k \in 1..n /\ \A i \in 1..n : s[i] \in S
    BY <1>1, ElementOfSeq
  <1>5. /\ a \in Seq(S) /\ Len(a) = k - 1
        /\ \A i \in 1..k - 1 : a[i] = s[i]
    <2>1. \A i \in 1..k - 1 : s[i] \in S
      BY <1>4
    <2>2. /\ a \in Seq(S)
          /\ Len(a) = IF 1 <= k - 1 THEN k - 1 - 1 + 1 ELSE 0
          /\ \A i \in 1..k - 1 - 1 + 1 : a[i] = s[1 + i - 1]
      <3>1. 1 \in Int /\ k - 1 \in Int
        BY <1>4
      <3> QED
        BY <1>2, <2>1, <3>1, SubSeqProperties
    <2>3. \A i \in 1..k - 1 : i \in 1..k - 1 - 1 + 1 /\ 1 + i - 1 = i
      BY <1>4
    <2> QED
      BY <1>4, <2>2, <2>3
  <1>6. /\ b \in Seq(S) /\ Len(b) = n - k
        /\ \A i \in 1..n - k : b[i] = s[k + i]
    <2>1. \A i \in k + 1..n : s[i] \in S
      BY <1>1, <1>4
    <2>2. /\ b \in Seq(S)
          /\ Len(b) = IF k + 1 <= n THEN n - (k + 1) + 1 ELSE 0
          /\ \A i \in 1..n - (k + 1) + 1 : b[i] = s[k + 1 + i - 1]
      <3>1. k + 1 \in Int /\ n \in Int
        BY <1>1, <1>4
      <3> QED
        BY <1>3, <2>1, <3>1, SubSeqProperties
    <2>3. \A i \in 1..n - k : /\ i \in 1..n - (k + 1) + 1
                              /\ k + 1 + i - 1 = k + i
      BY <1>1, <1>4
    <2> QED
      BY <1>1, <1>4, <2>2, <2>3
  <1>7. t = a \o b
    BY <1>1, <1>2, <1>3 DEF RemoveAt
  <1>8. /\ t \in Seq(S) /\ Len(t) = n - 1
        /\ \A i \in 1..n - 1 : t[i] = s[Shifted(i, k)]
    <2>1. /\ a \o b \in Seq(S) /\ Len(a \o b) = Len(a) + Len(b)
          /\ \A i \in 1..Len(a) + Len(b) :
                (a \o b)[i] = IF i <= Len(a) THEN a[i] ELSE b[i - Len(a)]
      BY <1>5, <1>6, ConcatProperties
    <2>2. Len(a) + Len(b) = n - 1
      BY <1>1, <1>4, <1>5, <1>6
    <2>3. ASSUME NEW i \in 1..n - 1
          PROVE  t[i] = s[Shifted(i, k)]
      <3>1. CASE i < k
        <4>1. i \in 1..k - 1 /\ i <= Len(a)
          BY <1>1, <1>4, <1>5, <3>1
        <4> QED
          BY <1>5, <1>7, <2>1, <2>2, <3>1, <4>1 DEF Shifted
      <3>2. CASE ~ (i < k)
        <4>1. /\ ~ (i <= Len(a)) /\ i - Len(a) \in 1..n - k
              /\ k + (i - Len(a)) = i + 1
          BY <1>1, <1>4, <1>5, <3>2
        <4> QED
          BY <1>6, <1>7, <2>1, <2>2, <3>2, <4>1 DEF Shifted
      <3> QED
        BY <3>1, <3>2
    <2> QED
      BY <1>7, <2>1, <2>2, <2>3
  <1>9. ASSUME NEW j \in 1..n, j # k
        PROVE  \E i \in 1..n - 1 : j = Shifted(i, k)
    <2>1. CASE j < k
      BY <1>1, <1>4, <2>1 DEF Shifted
    <2>2. CASE j > k
      <3>1. j - 1 \in 1..n - 1 /\ j = Shifted(j - 1, k)
        BY <1>1, <1>4, <2>2 DEF Shifted
      <3> QED
        BY <3>1
    <2> QED
      BY <1>4, <1>9, <2>1, <2>2
  <1>10. \A i \in 1..n - 1 : Shifted(i, k) \in 1..n /\ Shifted(i, k) # k
    BY <1>1, <1>4 DEF Shifted
  <1>11. \A i, j \in 1..n - 1 : i <= j <=> Shifted(i, k) <= Shifted(j, k)
    BY <1>1, <1>4 DEF Shifted
  <1> QED
    BY <1>1, <1>8, <1>9, <1>10, <1>11

(* interpret passes over what need not be understood.                      *)
LEMMA SkippedMakesNoDifference ==
    ASSUME NEW s \in Seq(Record), NEW k \in 1..Len(s), Skippable(s[k])
    PROVE  Interpret(RemoveAt(s, k)) = Interpret(s)
  <1>1. PICK t : t = RemoveAt(s, k)
    OBVIOUS
  <1>2. /\ t \in Seq(Record)
        /\ \A i \in 1..Len(t) :
              /\ Shifted(i, k) \in 1..Len(s) /\ Shifted(i, k) # k
              /\ t[i] = s[Shifted(i, k)]
        /\ \A j \in 1..Len(s) : j # k => \E i \in 1..Len(t) : j = Shifted(i, k)
        /\ \A i, j \in 1..Len(t) : i <= j <=> Shifted(i, k) <= Shifted(j, k)
    BY <1>1, LeftOut
  <1>3. /\ DOMAIN s = 1..Len(s) /\ DOMAIN t = 1..Len(t)
        /\ Len(s) \in Nat /\ Len(t) \in Nat
        /\ s[k] \in Record
    BY <1>2, LenProperties, ElementOfSeq
  <1>4. s[k].type \in {"unknown", "warning"} /\ ~Fatal(s[k])
    <2>1. PICK type \in DOMAIN Bodies : s[k] \in [type : {type}, body : Bodies[type]]
      BY <1>3 DEF Record
    <2>2. CASE s[k] = [type |-> "unknown", body |-> "skip"]
      BY <2>2 DEF Fatal
    <2>3. CASE s[k].type = "warning"
      <3>1. type = "warning" /\ s[k].body \in Bodies["warning"]
        BY <2>1, <2>3
      <3>2. s[k].body = "good"
        BY <3>1 DEF Bodies
      <3> QED
        BY <2>3, <3>2 DEF Fatal
    <2> QED
      BY <2>2, <2>3 DEF Skippable
  <1>5. ASSUME NEW type \in {"protocol", "aead", "cookie", "server"}
        PROVE  /\ \A i \in 1..Len(t) :
                     i \in OfType(t, type) <=> Shifted(i, k) \in OfType(s, type)
               /\ \A j \in OfType(s, type) :
                     \E i \in OfType(t, type) : j = Shifted(i, k)
    BY <1>2, <1>3, <1>4 DEF OfType
  <1>6. (\E j \in DOMAIN s : Fatal(s[j])) <=> (\E i \in DOMAIN t : Fatal(t[i]))
    BY <1>2, <1>3, <1>4
  <1>7. ASSUME NEW type \in {"protocol", "aead"}
        PROVE  Agreed(s, type) <=> Agreed(t, type)
    <2>1. /\ OfType(t, type) \subseteq 1..Len(t)
          /\ OfType(s, type) \subseteq 1..Len(s)
      BY <1>3 DEF OfType
    <2>2. ASSUME NEW i \in OfType(t, type),
                 \A j \in OfType(t, type) : j <= i, t[i].body = "ours"
          PROVE  Agreed(s, type)
      <3>1. Shifted(i, k) \in OfType(s, type) /\ s[Shifted(i, k)].body = "ours"
        BY <1>2, <1>5, <2>1, <2>2
      <3>2. ASSUME NEW j \in OfType(s, type)
            PROVE  j <= Shifted(i, k)
        <4>1. PICK m \in OfType(t, type) : j = Shifted(m, k)
          BY <1>5
        <4> QED
          BY <1>2, <2>1, <2>2, <4>1
      <3> QED
        BY <3>1, <3>2 DEF Agreed
    <2>3. ASSUME NEW j \in OfType(s, type),
                 \A m \in OfType(s, type) : m <= j, s[j].body = "ours"
          PROVE  Agreed(t, type)
      <3>1. PICK i \in OfType(t, type) : j = Shifted(i, k)
        BY <1>5
      <3>2. t[i].body = "ours"
        BY <1>2, <2>1, <2>3, <3>1
      <3>3. ASSUME NEW m \in OfType(t, type)
            PROVE  m <= i
        <4>1. Shifted(m, k) \in OfType(s, type)
          BY <1>5, <2>1
        <4> QED
          BY <1>2, <2>1, <2>3, <3>1, <4>1
      <3> QED
        BY <3>2, <3>3 DEF Agreed
    <2> QED
      BY <2>2, <2>3 DEF Agreed
  <1>8. OfType(t, "server") # {} <=> OfType(s, "server") # {}
    <2>1. OfType(t, "server") \subseteq 1..Len(t)
      BY <1>3 DEF OfType
    <2> QED
      BY <1>5, <2>1
  <1>9. CookiesIn(t) = CookiesIn(s)
    <2> DEFINE S == OfType(s, "cookie")
               T == OfType(t, "cookie")
               f == [i \in T |-> Shifted(i, k)]
    <2>1. T \subseteq 1..Len(t) /\ S \subseteq 1..Len(s)
      BY <1>3 DEF OfType
    <2>2. /\ \A i \in T : Shifted(i, k) \in S
          /\ \A j \in S : \E i \in T : j = Shifted(i, k)
      BY <1>5, <2>1
    <2> HIDE DEF S, T
    <2>3. f \in Surjection(T, S)
      BY <2>2 DEF Surjection
    <2>4. \A i, j \in T : f[i] = f[j] => i = j
      <3> SUFFICES ASSUME NEW i \in T, NEW j \in T, f[i] = f[j]
                   PROVE  i = j
        OBVIOUS
      <3>1. /\ i \in 1..Len(t) /\ j \in 1..Len(t)
            /\ Shifted(i, k) = Shifted(j, k) /\ Shifted(i, k) \in Int
        BY <1>2, <2>1
      <3>2. i <= j /\ j <= i
        BY <1>2, <3>1
      <3> QED
        BY <3>1, <3>2
    <2>5. f \in Bijection(T, S)
      <3> HIDE DEF f
      <3> QED
        BY <2>3, <2>4 DEF Bijection, Injection, Surjection, IsInjective
    <2>6. IsFiniteSet(T)
      <3>1. IsFiniteSet(1..Len(t))
        BY <1>3, FS_Interval
      <3> QED
        BY <2>1, <3>1, FS_Subset
    <2>7. Cardinality(S) = Cardinality(T)
      <3>1. ExistsBijection(T, S)
        BY <2>5 DEF ExistsBijection
      <3> QED
        BY <2>6, <3>1, FS_Bijection
    <2> QED
      BY <2>7 DEF CookiesIn, S, T
  <1>10. Unworthy(s) <=> Unworthy(t)
    BY <1>6, <1>7, <1>9 DEF Unworthy
  <1>11. Established(s) = Established(t)
    BY <1>8, <1>9, Zenon DEF Established
  <1> QED
    BY <1>1, <1>10, <1>11 DEF Interpret

(* What a worthy answer is worth.                                          *)
LEMMA WorthOf ==
    ASSUME NEW s \in Seq(Record), Interpret(s) # Failed
    PROVE  Interpret(s) \in [is : {"session"}, cookies : 1..MaxCookies,
                             redirected : BOOLEAN]
  <1>1. Interpret(s) = Established(s) /\ CookiesIn(s) # 0
    BY DEF Interpret, Unworthy
  <1>2. IsFiniteSet(OfType(s, "cookie"))
    <2>1. Len(s) \in Nat /\ OfType(s, "cookie") \subseteq 1..Len(s)
      BY LenProperties DEF OfType
    <2>2. IsFiniteSet(1..Len(s))
      BY <2>1, FS_Interval
    <2> QED
      BY <2>1, <2>2, FS_Subset
  <1>3. CookiesIn(s) \in 1..MaxCookies
    BY <1>1, <1>2, FS_CardinalityType, KeConstants DEF CookiesIn
  <1>4. (OfType(s, "server") # {}) \in BOOLEAN
    OBVIOUS
  <1> QED
    BY <1>1, <1>3, <1>4 DEF Established

LEMMA EndsStay == UNCHANGED answer => \A k : EndOf(k)' = EndOf(k)
  BY DEF EndOf, EndsAt

LEMMA KeInitially == KeInit => KeIInv
  <1>1. << >> \in Seq(Record)
    BY EmptySeq
  <1> QED
    BY <1>1, KeConstants DEF KeInit, KeIInv, KeTypeOK, CutDoesNotMatter

(* A failure, of the address or of the last of them, leaves no result.     *)
LEMMA FailsKeeps ==
    ASSUME KeIInv, step # "done", Fails
    PROVE  KeIInv'
  <1>1. KeTypeOK /\ result = Failed /\ << >> \in Seq(Record)
    BY EmptySeq DEF KeIInv
  <1>2. CASE Ends(Failed)
    BY <1>1, <1>2 DEF Ends, KeIInv, KeTypeOK, CutDoesNotMatter
  <1>3. CASE /\ address < MaxAddresses /\ address' = address + 1
             /\ answer' = << >> /\ have' = 0 /\ step' = "connect"
             /\ UNCHANGED result
    <2>1. address' \in 1..MaxAddresses /\ have' \in 0..MaxMessage + ReadSize
      BY <1>1, <1>3, KeConstants DEF KeTypeOK
    <2>2. KeTypeOK'
      BY <1>1, <1>3, <2>1 DEF KeTypeOK
    <2> QED
      BY <1>1, <1>3, <2>2 DEF KeIInv, CutDoesNotMatter
  <1> QED
    BY <1>2, <1>3 DEF Fails

LEMMA KeKeeps == KeIInv /\ [KeNext]_keVars => KeIInv'
  <1> SUFFICES ASSUME KeIInv, [KeNext]_keVars
               PROVE  KeIInv'
    OBVIOUS
  <1>1. /\ KeTypeOK /\ answer \in Seq(Record)
        /\ have \in 0..MaxMessage + ReadSize
        /\ step # "done" => result = Failed
    BY DEF KeIInv, KeTypeOK
  <1>2. CASE Connected
    <2>1. answer' \in Seq(Record)
      BY <1>2, KeConstants DEF Connected
    <2>2. KeTypeOK'
      BY <1>1, <1>2, <2>1 DEF Connected, KeTypeOK
    <2> QED
      BY <1>1, <1>2, <2>2 DEF Connected, KeIInv, CutDoesNotMatter
  <1>3. CASE NotConnected
    BY <1>3, FailsKeeps DEF NotConnected
  <1>4. CASE TooLong
    BY <1>4, FailsKeeps DEF TooLong
  <1>5. CASE Misunderstood
    BY <1>5, FailsKeeps DEF Misunderstood
  <1>6. CASE Broken
    BY <1>6, FailsKeeps DEF Broken
  <1>7. CASE ReadsAgain
    <2>1. KeTypeOK' /\ have' <= MaxMessage
      BY <1>1, <1>7 DEF ReadsAgain, WithinLimit, KeTypeOK
    <2> QED
      BY <1>1, <1>7, <2>1 DEF ReadsAgain, KeIInv, CutDoesNotMatter
  <1>8. ASSUME NEW n \in 1..ReadSize, MoreCame(n)
        PROVE  KeIInv'
    <2>1. have <= MaxMessage
      BY <1>8 DEF MoreCame, KeIInv
    <2>2. have' \in 0..MaxMessage + ReadSize
      BY <1>1, <1>8, <2>1, KeConstants DEF MoreCame
    <2>3. KeTypeOK'
      BY <1>1, <1>8, <2>2 DEF MoreCame, KeTypeOK
    <2> QED
      BY <1>1, <1>8, <2>3 DEF MoreCame, KeIInv, CutDoesNotMatter
  <1>9. CASE Understood
    <2>1. PICK k \in Whole(have) :
              /\ Interpret(SubSeq(answer, 1, k)) # Failed
              /\ Ends(Interpret(SubSeq(answer, 1, k)))
      BY <1>9 DEF Understood
    <2>2. /\ k \in DOMAIN answer /\ EndOf(k) <= have
          /\ answer[k].type = "end"
          /\ \A j \in 1..k - 1 : answer[j].type # "end"
      BY <2>1 DEF Whole, FirstEnd, Complete
    <2>3. SubSeq(answer, 1, k) \in Seq(Record)
      <3>1. k \in Int /\ \A i \in 1..k : answer[i] \in Record
        BY <1>1, <2>2, LenProperties, ElementOfSeq
      <3> QED
        BY <3>1, SubSeqProperties
    <2>4. PICK worth : worth = Interpret(SubSeq(answer, 1, k))
      OBVIOUS
    <2>5. /\ worth \in [is : {"session"}, cookies : 1..MaxCookies,
                        redirected : BOOLEAN]
          /\ step' = "done" /\ result' = worth
          /\ UNCHANGED <<address, answer, have>>
      BY <2>1, <2>3, <2>4, WorthOf DEF Ends
    <2>6. KeTypeOK'
      BY <1>1, <2>5 DEF KeTypeOK
    <2>7. CutDoesNotMatter'
      <3>1. EndOf(k)' = EndOf(k)
        BY <2>5, EndsStay
      <3> QED
        BY <2>2, <2>4, <2>5, <3>1 DEF CutDoesNotMatter
    <2> QED
      BY <2>5, <2>6, <2>7 DEF KeIInv
  <1>10. CASE UNCHANGED keVars
    <2>1. KeTypeOK'
      BY <1>1, <1>10 DEF keVars, KeTypeOK
    <2>2. CutDoesNotMatter'
      <3>1. \A k : EndOf(k)' = EndOf(k)
        BY <1>10, EndsStay DEF keVars
      <3> QED
        BY <1>10, <3>1 DEF KeIInv, CutDoesNotMatter, keVars
    <2> QED
      BY <1>10, <2>1, <2>2 DEF KeIInv, keVars
  <1> QED
    BY <1>2, <1>3, <1>4, <1>5, <1>6, <1>7, <1>8, <1>9, <1>10 DEF KeNext

(* read_message: in every behaviour of a handshake.                        *)
THEOREM KeInvariance == KeSpec => []KeIInv
  <1>1. KeInit => KeIInv
    BY KeInitially
  <1>2. KeIInv /\ [KeNext]_keVars => KeIInv'
    BY KeKeeps
  <1> QED
    BY <1>1, <1>2, PTL DEF KeSpec

(* With the types: what is kept of an answer that never ends has a limit.  *)
THEOREM KeTypeCorrect == KeSpec => []KeTypeOK
  <1>1. KeIInv => KeTypeOK
    BY DEF KeIInv
  <1> QED
    BY <1>1, KeInvariance, PTL

(* read_message and interpret: however an answer is cut on its way, and    *)
(* whatever there is in it that one need not understand, a handshake comes *)
(* to what the answer is worth.                                            *)
THEOREM HandshakesAreWorthTheirAnswers == KeSpec => []WorthTheAnswer
  <1>1. KeIInv => WorthTheAnswer
    <2> SUFFICES ASSUME KeIInv
                 PROVE  WorthTheAnswer
      OBVIOUS
    <2>1. answer \in Seq(Record) /\ DOMAIN answer = 1..Len(answer)
      BY LenProperties DEF KeIInv, KeTypeOK
    <2>2. \A k \in DOMAIN answer :
              Skippable(answer[k])
                 => Interpret(RemoveAt(answer, k)) = Interpret(answer)
      BY <2>1, SkippedMakesNoDifference
    <2>3. (\E k \in DOMAIN answer :
             answer[k] = [type |-> "unknown", body |-> "critical"])
            => Interpret(answer) = Failed
      BY DEF Interpret, Unworthy, Fatal
    <2> QED
      BY <2>2, <2>3 DEF KeIInv, WorthTheAnswer, SkippedOrFatal
  <1> QED
    BY <1>1, KeInvariance, PTL

-----------------------------------------------------------------------------
(* Messages *)

(* A value on the wire.                                                    *)
Lists == {[i \in DOMAIN l |-> EncodedSource(l[i])] : l \in Seq(SourceInfo)}
Value ==
    [is : {"number"}, of : Int] \cup [is : {"text"}, of : Texts]
    \cup [is : {"flag"}, of : BOOLEAN] \cup [is : {"nil"}, of : {None}]
    \cup [is : {"list"}, of : Lists]

(* A key is read, and as a type it is read as.                             *)
IsReadAs(key, value) ==
    \/ key \in DOMAIN RequestTypes /\ value.is \in RequestTypes[key]
    \/ key \in DOMAIN ReplyTypes /\ value.is \in ReplyTypes[key]

(* What is read of a list is the list, but for names of another age.       *)
LEMMA SourceRead ==
    ASSUME NEW s \in SourceInfo
    PROVE  /\ ReadSource(EncodedSource(s)) \in SourceInfo
           /\ s.state \in SourceStates => ReadSource(EncodedSource(s)) = s
  <1> DEFINE fields == EncodedSource(s)
             At(key) == (CHOOSE f \in fields : f.key = key).value.of
  <1>1. At("name") = s.name
    <2>1. PICK f \in fields :
              f.key = "name" /\ f = CHOOSE g \in fields : g.key = "name"
      BY DEF EncodedSource, Field
    <2>2. f.value.of = s.name
      BY <2>1 DEF EncodedSource, Field, Text
    <2> QED
      BY <2>1, <2>2
  <1>2. At("state") = s.state
    <2>1. PICK f \in fields :
              f.key = "state" /\ f = CHOOSE g \in fields : g.key = "state"
      BY DEF EncodedSource, Field
    <2>2. f.value.of = s.state
      BY <2>1 DEF EncodedSource, Field, Text
    <2> QED
      BY <2>1, <2>2
  <1>3. At("note") = s.note
    <2>1. PICK f \in fields :
              f.key = "note" /\ f = CHOOSE g \in fields : g.key = "note"
      BY DEF EncodedSource, Field
    <2>2. f.value.of = s.note
      BY <2>1 DEF EncodedSource, Field, Text, Optional
    <2> QED
      BY <2>1, <2>2
  <1>4. ReadSource(fields) =
            [name |-> s.name, note |-> s.note,
             state |-> IF s.state \in SourceStates THEN s.state
                       ELSE "unreachable"]
    BY <1>1, <1>2, <1>3 DEF ReadSource
  <1>5. s = [name |-> s.name, state |-> s.state, note |-> s.note]
    BY DEF SourceInfo
  <1>6. PICK read : read = ReadSource(fields)
    OBVIOUS
  <1>7. read \in SourceInfo
    <2>1. s.state \in SourceStates \cup Newer /\ "unreachable" \in SourceStates
      BY DEF SourceInfo, SourceStates
    <2> HIDE DEF fields
    <2> QED
      BY <1>4, <1>6, <2>1 DEF SourceInfo
  <1>8. s.state \in SourceStates => read = s
    <2> HIDE DEF fields
    <2> QED
      BY <1>4, <1>5, <1>6
  <1> QED
    BY <1>6, <1>7, <1>8

ListRead(l) == [i \in DOMAIN l |-> ReadSource(l[i])]

LEMMA SourcesRead ==
    ASSUME NEW infos \in Seq(SourceInfo),
           NEW l, l = [i \in DOMAIN infos |-> EncodedSource(infos[i])]
    PROVE  /\ ListRead(l) \in Seq(SourceInfo)
           /\ (\A i \in DOMAIN infos : infos[i].state \in SourceStates)
                 => ListRead(l) = infos
  <1>1. \A i \in DOMAIN infos : infos[i] \in SourceInfo
    OBVIOUS
  <1>2. ListRead(l) =
            [i \in 1..Len(infos) |-> ReadSource(EncodedSource(infos[i]))]
    BY DEF ListRead
  <1>3. \A i \in DOMAIN infos :
            /\ ReadSource(EncodedSource(infos[i])) \in SourceInfo
            /\ infos[i].state \in SourceStates
                  => ReadSource(EncodedSource(infos[i])) = infos[i]
    BY <1>1, SourceRead
  <1>4. Len(infos) \in Nat /\ DOMAIN infos = 1..Len(infos)
    OBVIOUS
  <1>5. ListRead(l) \in Seq(SourceInfo)
    BY <1>2, <1>3, <1>4
  <1>6. (\A i \in DOMAIN infos : infos[i].state \in SourceStates)
            => ListRead(l) = infos
    BY <1>2, <1>3, <1>4
  <1> QED
    BY <1>5, <1>6

LEMMA ListsAreRead ==
    ASSUME NEW value \in Value, value.is = "list"
    PROVE  ListRead(value.of) \in Seq(SourceInfo)
  <1>1. value.of \in Lists
    BY DEF Value
  <1>2. PICK infos \in Seq(SourceInfo) :
            value.of = [i \in DOMAIN infos |-> EncodedSource(infos[i])]
    BY <1>1 DEF Lists
  <1> QED
    BY <1>2, SourcesRead

(* What it takes for a draft to say what a field says.                     *)
Says(d, key, value) ==
    /\ key = "query" => d.query = value.of
    /\ key = "seconds" => d.seconds = value.of
    /\ key = "nanos" => d.nanos = value.of
    /\ key = "reply" => d.reply = value.of
    /\ key = "message" => d.message = value.of
    /\ key = "more" => d.more = value.of
    /\ key = "sources" /\ value.is = "list" => d.list = ListRead(value.of)
    /\ key = "sources" /\ value.is # "list" => d.status.sources = value.of
    /\ key = "generation" => /\ d.status.generation = value.of
                             /\ d.snapshot.generation = value.of
    /\ key = "leap" => /\ d.status.leap = value.of
                       /\ d.snapshot.leap = Unsigned(value.of)
    /\ key = "sync" => d.status.sync = value.of
    /\ key = "manual" => d.status.manual = value.of
    /\ key = "zone" => d.status.zone = value.of
    /\ key = "synchronised" => d.snapshot.synchronised = value.of

LEMMA DraftParts ==
    ASSUME NEW d \in Draft
    PROVE  /\ d = [query |-> d.query, seconds |-> d.seconds,
                   nanos |-> d.nanos, reply |-> d.reply,
                   message |-> d.message, more |-> d.more, list |-> d.list,
                   status |-> d.status, snapshot |-> d.snapshot]
           /\ d.status =
                  [generation |-> d.status.generation, sync |-> d.status.sync,
                   leap |-> d.status.leap, sources |-> d.status.sources,
                   manual |-> d.status.manual, zone |-> d.status.zone]
           /\ d.snapshot =
                  [generation |-> d.snapshot.generation,
                   leap |-> d.snapshot.leap,
                   synchronised |-> d.snapshot.synchronised]
  BY DEF Draft

(* A field that fits changes what it is about, and nothing else.           *)
LEMMA PutKeeps ==
    ASSUME NEW d \in Draft, NEW key, NEW value \in Value, IsReadAs(key, value)
    PROVE  /\ Put(d, key, value) \in Draft
           /\ Says(Put(d, key, value), key, value)
           /\ \A k, v :
                 k # key /\ Says(d, k, v) => Says(Put(d, key, value), k, v)
           /\ key # "seconds" => Put(d, key, value).seconds = d.seconds
           /\ key # "manual" =>
                 Put(d, key, value).status.manual = d.status.manual
           /\ key # "zone" => Put(d, key, value).status.zone = d.status.zone
  <1>1. CASE key = "query" /\ value.is = "text"
    <2>1. PICK new : new = [d EXCEPT !.query = value.of]
      OBVIOUS
    <2>2. new = Put(d, key, value)
      BY <1>1, <2>1 DEF Put
    <2>3. new \in Draft
      BY <1>1, <2>1 DEF Draft, Value
    <2>4. /\ new.query = value.of
          /\ new.seconds = d.seconds /\ new.nanos = d.nanos /\ new.reply = d.reply
          /\ new.message = d.message /\ new.more = d.more /\ new.list = d.list
          /\ new.status = d.status /\ new.snapshot = d.snapshot
      BY <2>1 DEF Draft
    <2> QED
      BY <1>1, <2>2, <2>3, <2>4 DEF Says
  <1>2. CASE key = "seconds" /\ value.is = "number"
    <2>1. PICK new : new = [d EXCEPT !.seconds = value.of]
      OBVIOUS
    <2>2. new = Put(d, key, value)
      BY <1>2, <2>1 DEF Put
    <2>3. new \in Draft
      BY <1>2, <2>1 DEF Draft, Value
    <2>4. /\ new.seconds = value.of
          /\ new.query = d.query /\ new.nanos = d.nanos /\ new.reply = d.reply
          /\ new.message = d.message /\ new.more = d.more /\ new.list = d.list
          /\ new.status = d.status /\ new.snapshot = d.snapshot
      BY <2>1 DEF Draft
    <2> QED
      BY <1>2, <2>2, <2>3, <2>4 DEF Says
  <1>3. CASE key = "nanos" /\ value.is = "number"
    <2>1. PICK new : new = [d EXCEPT !.nanos = value.of]
      OBVIOUS
    <2>2. new = Put(d, key, value)
      BY <1>3, <2>1 DEF Put
    <2>3. new \in Draft
      BY <1>3, <2>1 DEF Draft, Value
    <2>4. /\ new.nanos = value.of
          /\ new.query = d.query /\ new.seconds = d.seconds /\ new.reply = d.reply
          /\ new.message = d.message /\ new.more = d.more /\ new.list = d.list
          /\ new.status = d.status /\ new.snapshot = d.snapshot
      BY <2>1 DEF Draft
    <2> QED
      BY <1>3, <2>2, <2>3, <2>4 DEF Says
  <1>4. CASE key = "reply" /\ value.is = "text"
    <2>1. PICK new : new = [d EXCEPT !.reply = value.of]
      OBVIOUS
    <2>2. new = Put(d, key, value)
      BY <1>4, <2>1 DEF Put
    <2>3. new \in Draft
      BY <1>4, <2>1 DEF Draft, Value
    <2>4. /\ new.reply = value.of
          /\ new.query = d.query /\ new.seconds = d.seconds /\ new.nanos = d.nanos
          /\ new.message = d.message /\ new.more = d.more /\ new.list = d.list
          /\ new.status = d.status /\ new.snapshot = d.snapshot
      BY <2>1 DEF Draft
    <2> QED
      BY <1>4, <2>2, <2>3, <2>4 DEF Says
  <1>5. CASE key = "message" /\ value.is = "text"
    <2>1. PICK new : new = [d EXCEPT !.message = value.of]
      OBVIOUS
    <2>2. new = Put(d, key, value)
      BY <1>5, <2>1 DEF Put
    <2>3. new \in Draft
      BY <1>5, <2>1 DEF Draft, Value
    <2>4. /\ new.message = value.of
          /\ new.query = d.query /\ new.seconds = d.seconds /\ new.nanos = d.nanos
          /\ new.reply = d.reply /\ new.more = d.more /\ new.list = d.list
          /\ new.status = d.status /\ new.snapshot = d.snapshot
      BY <2>1 DEF Draft
    <2> QED
      BY <1>5, <2>2, <2>3, <2>4 DEF Says
  <1>6. CASE key = "more" /\ value.is = "flag"
    <2>1. PICK new : new = [d EXCEPT !.more = value.of]
      OBVIOUS
    <2>2. new = Put(d, key, value)
      BY <1>6, <2>1 DEF Put
    <2>3. new \in Draft
      BY <1>6, <2>1 DEF Draft, Value
    <2>4. /\ new.more = value.of
          /\ new.query = d.query /\ new.seconds = d.seconds /\ new.nanos = d.nanos
          /\ new.reply = d.reply /\ new.message = d.message /\ new.list = d.list
          /\ new.status = d.status /\ new.snapshot = d.snapshot
      BY <2>1 DEF Draft
    <2> QED
      BY <1>6, <2>2, <2>3, <2>4 DEF Says
  <1>7. CASE key = "sources" /\ value.is = "list"
    <2>1. Put(d, key, value) = [d EXCEPT !.list = ListRead(value.of)]
      BY <1>7 DEF Put, ByType, ListRead
    <2>2. ListRead(value.of) \in Seq(SourceInfo)
      BY <1>7, ListsAreRead
    <2>3. PICK new : new = [d EXCEPT !.list = ListRead(value.of)]
      OBVIOUS
    <2>4. new \in Draft
      BY <2>2, <2>3 DEF Draft
    <2>5. /\ new.query = d.query /\ new.seconds = d.seconds
          /\ new.nanos = d.nanos /\ new.reply = d.reply
          /\ new.message = d.message /\ new.more = d.more
          /\ new.list = ListRead(value.of)
          /\ new.status = d.status /\ new.snapshot = d.snapshot
      BY <2>3 DEF Draft
    <2> QED
      <3>1. Says(new, key, value)
        BY <1>7, <2>5 DEF Says
      <3>2. ASSUME NEW k, NEW v, k # key, Says(d, k, v)
            PROVE  Says(new, k, v)
        BY <1>7, <2>5, <3>2 DEF Says
      <3>3. new = Put(d, key, value)
        BY <2>1, <2>3
      <3>4. /\ new.seconds = d.seconds
            /\ new.status.manual = d.status.manual
            /\ new.status.zone = d.status.zone
        BY <2>5
      <3> QED
        BY <2>4, <3>1, <3>2, <3>3, <3>4
  <1>8. CASE key = "sources" /\ value.is = "number"
    <2>1. Put(d, key, value) = [d EXCEPT !.status.sources = value.of]
      BY <1>8 DEF Put, ByType
    <2>2. value.of \in Int
      BY <1>8 DEF Value
    <2>3. PICK new : new = [d EXCEPT !.status.sources = value.of]
      OBVIOUS
    <2>4. new \in Draft
      BY <2>2, <2>3 DEF Draft
    <2>5. /\ new.query = d.query /\ new.seconds = d.seconds
          /\ new.nanos = d.nanos /\ new.reply = d.reply
          /\ new.message = d.message /\ new.more = d.more
          /\ new.list = d.list /\ new.snapshot = d.snapshot
          /\ new.status.generation = d.status.generation
          /\ new.status.sync = d.status.sync
          /\ new.status.leap = d.status.leap
          /\ new.status.sources = value.of
          /\ new.status.manual = d.status.manual
          /\ new.status.zone = d.status.zone
      BY <2>3 DEF Draft
    <2> QED
      <3>1. Says(new, key, value)
        BY <1>8, <2>5 DEF Says
      <3>2. ASSUME NEW k, NEW v, k # key, Says(d, k, v)
            PROVE  Says(new, k, v)
        BY <1>8, <2>5, <3>2 DEF Says
      <3>3. new = Put(d, key, value)
        BY <2>1, <2>3
      <3>4. /\ new.seconds = d.seconds
            /\ new.status.manual = d.status.manual
            /\ new.status.zone = d.status.zone
        BY <2>5
      <3> QED
        BY <2>4, <3>1, <3>2, <3>3, <3>4
  <1>9. CASE key = "generation" /\ value.is = "number"
    <2>1. Put(d, key, value) =
              [d EXCEPT !.status.generation = value.of,
                        !.snapshot.generation = value.of]
      BY <1>9 DEF Put
    <2>2. value.of \in Int
      BY <1>9 DEF Value
    <2>3. PICK new : new =
              [d EXCEPT !.status.generation = value.of,
                        !.snapshot.generation = value.of]
      OBVIOUS
    <2>4. new \in Draft
      BY <2>2, <2>3 DEF Draft
    <2>5. /\ new.query = d.query /\ new.seconds = d.seconds
          /\ new.nanos = d.nanos /\ new.reply = d.reply
          /\ new.message = d.message /\ new.more = d.more
          /\ new.list = d.list
          /\ new.status.generation = value.of
          /\ new.status.sync = d.status.sync
          /\ new.status.leap = d.status.leap
          /\ new.status.sources = d.status.sources
          /\ new.status.manual = d.status.manual
          /\ new.status.zone = d.status.zone
          /\ new.snapshot.generation = value.of
          /\ new.snapshot.leap = d.snapshot.leap
          /\ new.snapshot.synchronised = d.snapshot.synchronised
      BY <2>3 DEF Draft
    <2> QED
      <3>1. Says(new, key, value)
        BY <1>9, <2>5 DEF Says
      <3>2. ASSUME NEW k, NEW v, k # key, Says(d, k, v)
            PROVE  Says(new, k, v)
        BY <1>9, <2>5, <3>2 DEF Says
      <3>3. new = Put(d, key, value)
        BY <2>1, <2>3
      <3>4. /\ new.seconds = d.seconds
            /\ new.status.manual = d.status.manual
            /\ new.status.zone = d.status.zone
        BY <2>5
      <3> QED
        BY <2>4, <3>1, <3>2, <3>3, <3>4
  <1>10. CASE key = "leap" /\ value.is = "number"
    <2>1. Put(d, key, value) =
              [d EXCEPT !.status.leap = value.of,
                        !.snapshot.leap = Unsigned(value.of)]
      BY <1>10 DEF Put, WithLeap
    <2>2. value.of \in Int /\ Unsigned(value.of) \in Nat
      BY <1>10 DEF Value, Unsigned
    <2>3. PICK new : new =
              [d EXCEPT !.status.leap = value.of,
                        !.snapshot.leap = Unsigned(value.of)]
      OBVIOUS
    <2>4. new \in Draft
      BY <2>2, <2>3 DEF Draft
    <2>5. /\ new.query = d.query /\ new.seconds = d.seconds
          /\ new.nanos = d.nanos /\ new.reply = d.reply
          /\ new.message = d.message /\ new.more = d.more
          /\ new.list = d.list
          /\ new.status.generation = d.status.generation
          /\ new.status.sync = d.status.sync
          /\ new.status.leap = value.of
          /\ new.status.sources = d.status.sources
          /\ new.status.manual = d.status.manual
          /\ new.status.zone = d.status.zone
          /\ new.snapshot.generation = d.snapshot.generation
          /\ new.snapshot.leap = Unsigned(value.of)
          /\ new.snapshot.synchronised = d.snapshot.synchronised
      BY <2>3 DEF Draft
    <2> QED
      <3>1. Says(new, key, value)
        BY <1>10, <2>5 DEF Says
      <3>2. ASSUME NEW k, NEW v, k # key, Says(d, k, v)
            PROVE  Says(new, k, v)
        BY <1>10, <2>5, <3>2 DEF Says
      <3>3. new = Put(d, key, value)
        BY <2>1, <2>3
      <3>4. /\ new.seconds = d.seconds
            /\ new.status.manual = d.status.manual
            /\ new.status.zone = d.status.zone
        BY <2>5
      <3> QED
        BY <2>4, <3>1, <3>2, <3>3, <3>4
  <1>11. CASE key = "sync" /\ value.is = "text"
    BY <1>11 DEF Put, Draft, Value, Says
  <1>12. CASE key = "manual" /\ value.is = "flag"
    BY <1>12 DEF Put, Draft, Value, Says
  <1>13. CASE key = "zone" /\ value.is \in {"text", "nil"}
    BY <1>13 DEF Put, Draft, Value, Says
  <1>14. CASE key = "synchronised" /\ value.is = "flag"
    BY <1>14 DEF Put, Draft, Value, Says
  <1> QED
    BY <1>1, <1>2, <1>3, <1>4, <1>5, <1>6, <1>7, <1>8, <1>9, <1>10, <1>11,
       <1>12, <1>13, <1>14 DEF IsReadAs, RequestTypes, ReplyTypes
(* To write over a part what is there changes nothing.                     *)
LEMMA StatusAgain ==
    ASSUME NEW S,
           NEW s \in [generation : S, sync : S, leap : S, sources : S,
                      manual : S, zone : S]
    PROVE  /\ [s EXCEPT !.sources = s.sources] = s
           /\ [s EXCEPT !.generation = s.generation] = s
           /\ [s EXCEPT !.leap = s.leap] = s
           /\ \A key \in {"sync", "manual", "zone"} :
                 [s EXCEPT ![key] = s[key]] = s
  OBVIOUS

LEMMA SnapshotAgain ==
    ASSUME NEW S, NEW s \in [generation : S, leap : S, synchronised : S]
    PROVE  /\ [s EXCEPT !.generation = s.generation] = s
           /\ [s EXCEPT !.leap = s.leap] = s
           /\ [s EXCEPT !.synchronised = s.synchronised] = s
  OBVIOUS

LEMMA PartsAgain ==
    ASSUME NEW d \in Draft
    PROVE  \E S : /\ d.status \in [generation : S, sync : S, leap : S,
                                   sources : S, manual : S, zone : S]
                 /\ d.snapshot \in [generation : S, leap : S, synchronised : S]
  <1> DEFINE S == Int \cup Texts \cup BOOLEAN \cup {None}
  <1>1. /\ d.status \in [generation : S, sync : S, leap : S,
                          sources : S, manual : S, zone : S]
        /\ d.snapshot \in [generation : S, leap : S, synchronised : S]
    <2>1. /\ d.status \in [generation : Int, sync : Texts, leap : Int, sources : Int,
                            manual : BOOLEAN, zone : Texts \cup {None}]
          /\ d.snapshot \in [generation : Int, leap : Nat, synchronised : BOOLEAN]
      BY DEF Draft
    <2> QED
      BY <2>1
  <1> QED
    BY <1>1

LEMMA SaysAgain ==
    ASSUME NEW d \in Draft, NEW key, NEW value \in Value, IsReadAs(key, value)
    PROVE  Put(d, key, value) = d <=> Says(d, key, value)
  <1>1. ASSUME Put(d, key, value) = d
        PROVE  Says(d, key, value)
    BY <1>1, PutKeeps
  <1>2. ASSUME Says(d, key, value)
        PROVE  Put(d, key, value) = d
    <2>0. PICK S : /\ d.status \in [generation : S, sync : S, leap : S,
                                     sources : S, manual : S, zone : S]
                   /\ d.snapshot \in
                         [generation : S, leap : S, synchronised : S]
      BY PartsAgain
    <2>1. CASE key \in {"query", "seconds", "nanos", "reply", "message", "more"}
      BY <1>2, <2>1 DEF Put, Draft, Says
    <2>2. CASE key = "sources" /\ value.is = "list"
      <3>1. ListRead(value.of) = d.list
        BY <1>2, <2>2 DEF Says
      <3>2. Put(d, key, value) = [d EXCEPT !.list = ListRead(value.of)]
        BY <2>2 DEF Put, ByType, ListRead
      <3>3. [d EXCEPT !.list = d.list] = d
        BY DEF Draft
      <3> QED
        BY <3>1, <3>2, <3>3
    <2>3. CASE key = "sources" /\ value.is # "list"
      <3>1. [d EXCEPT !.status = d.status] = d
        BY DEF Draft
      <3>2. [d.status EXCEPT !.sources = value.of] = d.status
        BY <1>2, <2>3, <2>0, StatusAgain DEF Says
      <3> QED
        BY <2>3, <3>1, <3>2 DEF Put, ByType
    <2>4. CASE key = "generation"
      <3>1. [d EXCEPT !.status = d.status, !.snapshot = d.snapshot] = d
        BY DEF Draft
      <3>2. [d.status EXCEPT !.generation = value.of] = d.status
        BY <1>2, <2>4, <2>0, StatusAgain DEF Says
      <3>3. [d.snapshot EXCEPT !.generation = value.of] = d.snapshot
        BY <1>2, <2>4, <2>0, SnapshotAgain DEF Says
      <3> QED
        BY <2>4, <3>1, <3>2, <3>3 DEF Put
    <2>5. CASE key = "leap"
      <3>1. [d EXCEPT !.status = d.status, !.snapshot = d.snapshot] = d
        BY DEF Draft
      <3>2. [d.status EXCEPT !.leap = value.of] = d.status
        BY <1>2, <2>5, <2>0, StatusAgain DEF Says
      <3>3. [d.snapshot EXCEPT !.leap = Unsigned(value.of)] = d.snapshot
        BY <1>2, <2>5, <2>0, SnapshotAgain DEF Says
      <3> QED
        BY <2>5, <3>1, <3>2, <3>3 DEF Put, WithLeap
    <2>6. CASE key \in {"sync", "manual", "zone"}
      <3>1. [d EXCEPT !.status = d.status] = d
        BY DEF Draft
      <3>2. [d.status EXCEPT ![key] = value.of] = d.status
        BY <1>2, <2>6, <2>0, StatusAgain DEF Says
      <3> QED
        BY <2>6, <3>1, <3>2 DEF Put
    <2>7. CASE key = "synchronised"
      <3>1. [d EXCEPT !.snapshot = d.snapshot] = d
        BY DEF Draft
      <3>2. [d.snapshot EXCEPT !.synchronised = value.of] = d.snapshot
        BY <1>2, <2>7, <2>0, SnapshotAgain DEF Says
      <3> QED
        BY <2>7, <3>1, <3>2 DEF Put
    <2> QED
      BY <2>1, <2>2, <2>3, <2>4, <2>5, <2>6, <2>7
         DEF IsReadAs, RequestTypes, ReplyTypes
  <1> QED
    BY <1>1, <1>2

-----------------------------------------------------------------------------
(* What is written *)

Message == [query : Ask] \cup [reply : Tell]
TypesOf(m) == IF IsRequest(m) THEN RequestTypes ELSE ReplyTypes

(* The fields of a message are of the types its reader reads their keys    *)
(* as, and no two have the same key.                                       *)
FieldsOf(m, fields) ==
    /\ \A f \in fields :
          /\ f.key \in DOMAIN TypesOf(m) /\ f.key # "unknown" /\ f.copy = 0
          /\ f.value \in Value /\ f.value.is \in TypesOf(m)[f.key]
          /\ KnownNames(m) /\ f.key = "sync" => f.value.of \in Syncs
    /\ \A f, g \in fields : f.key = g.key => f = g

LEMMA RequestFields ==
    ASSUME NEW m \in [query : Ask]
    PROVE  FieldsOf(m, Encoded(m))
  <1>1. IsRequest(m) /\ TypesOf(m) = RequestTypes
    BY DEF IsRequest, TypesOf
  <1>2. Encoded(m) = EncodedRequest(m.query)
    BY <1>1 DEF Encoded
  <1>3. CASE m.query.is = "set"
    <2>1. m.query.seconds \in Int /\ m.query.nanos \in Int
      BY <1>3 DEF Ask
    <2> QED
      BY <1>1, <1>2, <1>3, <2>1
         DEF FieldsOf, EncodedRequest, Field, Text, Number, Value, RequestTypes,
             Texts, Questions
  <1>4. CASE m.query.is # "set"
    <2>1. m.query.is \in Questions
      BY <1>4 DEF Ask
    <2> QED
      BY <1>1, <1>2, <1>4, <2>1
         DEF FieldsOf, EncodedRequest, Field, Text, Value, RequestTypes, Texts
  <1> QED
    BY <1>3, <1>4
LEMMA ReplyFields ==
    ASSUME NEW m \in [reply : Tell]
    PROVE  FieldsOf(m, Encoded(m))
  <1>1. ~IsRequest(m) /\ TypesOf(m) = ReplyTypes
    BY DEF IsRequest, TypesOf
  <1>2. Encoded(m) = EncodedReply(m.reply)
    BY <1>1 DEF Encoded
  <1>3. m.reply \in Tell
    OBVIOUS
  <1>4. CASE m.reply.is = "ok"
    BY <1>1, <1>2, <1>4
       DEF FieldsOf, EncodedReply, Field, Text, Value, ReplyTypes, Texts
  <1>5. CASE m.reply.is = "error"
    <2>1. m.reply.message \in Names
      BY <1>3, <1>5 DEF Tell
    <2> QED
      BY <1>1, <1>2, <1>5, <2>1
         DEF FieldsOf, EncodedReply, Field, Text, Value, ReplyTypes, Texts
  <1>6. CASE m.reply.is = "status"
    <2>1. /\ m.reply.generation \in Int /\ m.reply.sync \in Texts
          /\ m.reply.leap \in Int /\ m.reply.sources \in Int
          /\ m.reply.manual \in BOOLEAN
          /\ Optional(m.reply.zone) \in Value
          /\ Optional(m.reply.zone).is \in {"text", "nil"}
      BY <1>3, <1>6 DEF Tell, Texts, Optional, Text, Value
    <2>2. PICK zone : zone = Optional(m.reply.zone)
      OBVIOUS
    <2>3. KnownNames(m) => m.reply.sync \in Syncs
      BY <1>1, <1>6 DEF KnownNames
    <2>4. Encoded(m) =
              {Field("reply", Text("status")),
               Field("generation", Number(m.reply.generation)),
               Field("sync", Text(m.reply.sync)),
               Field("leap", Number(m.reply.leap)),
               Field("sources", Number(m.reply.sources)),
               Field("manual", Flag(m.reply.manual)), Field("zone", zone)}
      BY <1>2, <1>6, <2>2 DEF EncodedReply
    <2>5. "status" \in Texts
      BY DEF Texts, Questions
    <2>6. /\ Text("status") \in Value /\ Number(m.reply.generation) \in Value
          /\ Text(m.reply.sync) \in Value /\ Number(m.reply.leap) \in Value
          /\ Number(m.reply.sources) \in Value
          /\ Flag(m.reply.manual) \in Value /\ zone \in Value
      BY <2>1, <2>2, <2>5 DEF Value, Text, Number, Flag
    <2>7. \A f, g \in Encoded(m) : f.key = g.key => f = g
      BY <2>4 DEF Field
    <2>8. ASSUME NEW f \in Encoded(m)
          PROVE  /\ f.key \in DOMAIN ReplyTypes /\ f.key # "unknown"
                 /\ f.copy = 0 /\ f.value \in Value
                 /\ f.value.is \in ReplyTypes[f.key]
                 /\ KnownNames(m) /\ f.key = "sync" => f.value.of \in Syncs
      BY <2>1, <2>2, <2>3, <2>4, <2>6 DEF Field, Text, Number, Flag, ReplyTypes
    <2> QED
      BY <1>1, <2>7, <2>8 DEF FieldsOf
  <1>7. CASE m.reply.is = "sources"
    <2>1. m.reply.more \in BOOLEAN /\ m.reply.sources \in Seq(SourceInfo)
      BY <1>3, <1>7 DEF Tell
    <2>2. PICK list : list = [i \in DOMAIN m.reply.sources |->
                                 EncodedSource(m.reply.sources[i])]
      OBVIOUS
    <2>3. list \in Lists
      BY <2>1, <2>2 DEF Lists
    <2>4. Encoded(m) =
              {Field("reply", Text("sources")), Field("more", Flag(m.reply.more)),
               Field("sources", List(list))}
      BY <1>2, <1>7, <2>2 DEF EncodedReply
    <2>5. "sources" \in Texts
      BY DEF Texts, Questions
    <2>6. /\ Text("sources") \in Value /\ Flag(m.reply.more) \in Value
          /\ List(list) \in Value
      BY <2>1, <2>3, <2>5 DEF Value, Text, Flag, List
    <2>7. \A f, g \in Encoded(m) : f.key = g.key => f = g
      BY <2>4 DEF Field
    <2>8. ASSUME NEW f \in Encoded(m)
          PROVE  /\ f.key \in DOMAIN ReplyTypes /\ f.key # "unknown"
                 /\ f.copy = 0 /\ f.value \in Value
                 /\ f.value.is \in ReplyTypes[f.key]
                 /\ KnownNames(m) /\ f.key = "sync" => f.value.of \in Syncs
      BY <2>4, <2>6 DEF Field, Text, Flag, List, ReplyTypes
    <2> QED
      BY <1>1, <2>7, <2>8 DEF FieldsOf
  <1>8. CASE m.reply.is = "snapshot"
    <2>1. /\ m.reply.generation \in Int /\ m.reply.leap \in Int
          /\ m.reply.synchronised \in BOOLEAN
      BY <1>3, <1>8 DEF Tell
    <2> QED
      BY <1>1, <1>2, <1>8, <2>1
         DEF FieldsOf, EncodedReply, Field, Text, Number, Flag, Value,
             ReplyTypes, Texts
  <1> QED
    BY <1>3, <1>4, <1>5, <1>6, <1>7, <1>8 DEF Tell

LEMMA Fields ==
    ASSUME NEW m \in Message
    PROVE  FieldsOf(m, Encoded(m))
  BY RequestFields, ReplyFields DEF Message

(* So it is with what a writer of another age writes, where one key may be *)
(* that of two fields or of one the reader does not know.                  *)
LEMMA VariantFields ==
    ASSUME NEW m \in Message, NEW all \in Variants(Encoded(m)),
           NEW f \in all
    PROVE  /\ f.key \in DOMAIN TypesOf(m) =>
                 /\ f.value \in Value
                 /\ f.value.is \in TypesOf(m)[f.key] => IsReadAs(f.key, f.value)
  <1>1. PICK g \in Encoded(m) \cup {Unknown} : f.key = g.key /\ f.value = g.value
    <2>1. \A g \in Encoded(m) : [g EXCEPT !.copy = 1].key = g.key
                             /\ [g EXCEPT !.copy = 1].value = g.value
      OBVIOUS
    <2>2. CASE f \in Encoded(m) \cup {Unknown}
      BY <2>2
    <2>3. CASE \E g \in Encoded(m) : f = [g EXCEPT !.copy = 1]
      BY <2>1, <2>3
    <2> QED
      BY <2>2, <2>3 DEF Variants
  <1>2. g # Unknown => g.value \in Value
    BY Fields DEF FieldsOf
  <1>3. f.key \in DOMAIN TypesOf(m) => g # Unknown
    BY <1>1 DEF Unknown, Field, TypesOf, RequestTypes, ReplyTypes
  <1>4. TypesOf(m) = RequestTypes \/ TypesOf(m) = ReplyTypes
    BY DEF TypesOf
  <1> QED
    BY <1>1, <1>2, <1>3, <1>4 DEF IsReadAs
-----------------------------------------------------------------------------
(* What is understood *)

LEMMA RequestUnderstood ==
    ASSUME NEW m \in [query : Ask], NEW d \in Draft, KnownNames(m),
           \A f \in Encoded(m) : Says(d, f.key, f.value)
    PROVE  Question(d) = m
  <1>1. IsRequest(m) /\ Encoded(m) = EncodedRequest(m.query)
    BY DEF IsRequest, Encoded
  <1>2. m = [query |-> m.query] /\ m.query \in Ask
    OBVIOUS
  <1>3. CASE m.query.is = "set"
    <2>1. m.query = [is |-> "set", seconds |-> m.query.seconds,
                     nanos |-> m.query.nanos]
          /\ m.query.seconds \in Int /\ m.query.nanos \in Nat
      BY <1>2, <1>3 DEF Ask
    <2>2. d.query = "set"
      BY <1>1, <1>3 DEF EncodedRequest, Field, Text, Says
    <2>3. d.seconds = m.query.seconds
      BY <1>1, <1>3 DEF EncodedRequest, Field, Number, Says
    <2>4. d.nanos = m.query.nanos
      BY <1>1, <1>3 DEF EncodedRequest, Field, Number, Says
    <2>5. m.query.nanos < Second /\ m.query.seconds # None
      BY <1>1, <1>3, <2>1, MessageConstants DEF KnownNames
    <2>6. ~ (m.query.nanos >= Second)
      BY <2>1, <2>5, MessageConstants
    <2>7. Question(d) = [query |-> [is |-> "set", seconds |-> d.seconds,
                                    nanos |-> d.nanos]]
      BY <2>2, <2>3, <2>4, <2>5, <2>6 DEF Question, Questions
    <2> QED
      BY <1>2, <2>1, <2>3, <2>4, <2>7
  <1>4. CASE m.query.is # "set"
    <2>1. m.query = [is |-> m.query.is] /\ m.query.is \in Questions
      BY <1>2, <1>4 DEF Ask
    <2>2. d.query = m.query.is
      <3>1. Field("query", Text(m.query.is)) \in Encoded(m)
        BY <1>1, <1>4 DEF EncodedRequest
      <3> QED
        BY <3>1 DEF Field, Text, Says
    <2>3. Question(d) = [query |-> [is |-> d.query]]
      BY <1>4, <2>1, <2>2 DEF Question
    <2> QED
      BY <1>2, <2>1, <2>2, <2>3
  <1> QED
    BY <1>3, <1>4

LEMMA ReplyUnderstood ==
    ASSUME NEW m \in [reply : Tell], NEW d \in Draft, KnownNames(m),
           \A f \in Encoded(m) : Says(d, f.key, f.value)
    PROVE  Answer(d) = m
  <1>1. ~IsRequest(m) /\ Encoded(m) = EncodedReply(m.reply)
    BY DEF IsRequest, Encoded
  <1>2. m = [reply |-> m.reply] /\ m.reply \in Tell
    OBVIOUS
  <1>3. d.reply = m.reply.is
    <2>1. Field("reply", Text(m.reply.is)) \in Encoded(m)
      BY <1>1 DEF EncodedReply
    <2> QED
      BY <2>1 DEF Field, Text, Says
  <1>4. CASE m.reply.is = "ok"
    <2>1. m.reply = [is |-> "ok"]
      BY <1>2, <1>4 DEF Tell
    <2> QED
      BY <1>2, <1>3, <1>4, <2>1 DEF Answer
  <1>5. CASE m.reply.is = "error"
    <2>1. m.reply = [is |-> "error", message |-> m.reply.message]
      BY <1>2, <1>5 DEF Tell
    <2>2. d.message = m.reply.message
      <3>1. Field("message", Text(m.reply.message)) \in Encoded(m)
        BY <1>1, <1>5 DEF EncodedReply
      <3> QED
        BY <3>1 DEF Field, Text, Says
    <2>3. Answer(d) = [reply |-> [is |-> "error", message |-> d.message]]
      BY <1>3, <1>5 DEF Answer
    <2> QED
      BY <1>2, <2>1, <2>2, <2>3
  <1>6. CASE m.reply.is = "status"
    <2>1. m.reply = [is |-> "status", generation |-> m.reply.generation,
                     sync |-> m.reply.sync, leap |-> m.reply.leap,
                     sources |-> m.reply.sources, manual |-> m.reply.manual,
                     zone |-> m.reply.zone]
      BY <1>2, <1>6 DEF Tell
    <2>2. /\ Field("generation", Number(m.reply.generation)) \in Encoded(m)
          /\ Field("sync", Text(m.reply.sync)) \in Encoded(m)
          /\ Field("leap", Number(m.reply.leap)) \in Encoded(m)
          /\ Field("sources", Number(m.reply.sources)) \in Encoded(m)
          /\ Field("manual", Flag(m.reply.manual)) \in Encoded(m)
          /\ Field("zone", Optional(m.reply.zone)) \in Encoded(m)
      BY <1>1, <1>6 DEF EncodedReply
    <2>3. /\ d.status.generation = m.reply.generation
          /\ d.status.sync = m.reply.sync /\ d.status.leap = m.reply.leap
          /\ d.status.sources = m.reply.sources
          /\ d.status.manual = m.reply.manual
      BY <2>2 DEF Field, Number, Text, Flag, Says
    <2>4. d.status.zone = m.reply.zone
      BY <2>2 DEF Field, Optional, Text, Says
    <2>5. PICK status : status = d.status
      OBVIOUS
    <2>6. status = [generation |-> m.reply.generation, sync |-> m.reply.sync,
                    leap |-> m.reply.leap, sources |-> m.reply.sources,
                    manual |-> m.reply.manual, zone |-> m.reply.zone]
      BY <2>3, <2>4, <2>5, DraftParts
    <2>7. Labelled("status", status) = m.reply
      BY <2>1, <2>6 DEF Labelled
    <2>8. Answer(d) = [reply |-> Labelled("status", status)]
      BY <1>3, <1>6, <2>5 DEF Answer
    <2> QED
      BY <1>2, <2>7, <2>8
  <1>7. CASE m.reply.is = "sources"
    <2>1. /\ m.reply = [is |-> "sources", more |-> m.reply.more,
                        sources |-> m.reply.sources]
          /\ m.reply.sources \in Seq(SourceInfo)
      BY <1>2, <1>7 DEF Tell
    <2>2. PICK list : list = [i \in DOMAIN m.reply.sources |->
                                 EncodedSource(m.reply.sources[i])]
      OBVIOUS
    <2>3. /\ Field("more", Flag(m.reply.more)) \in Encoded(m)
          /\ Field("sources", List(list)) \in Encoded(m)
      BY <1>1, <1>7, <2>2 DEF EncodedReply
    <2>4. d.more = m.reply.more
      BY <2>3 DEF Field, Flag, Says
    <2>5. d.list = ListRead(list)
      BY <2>3 DEF Field, List, Says
    <2>6. \A i \in DOMAIN m.reply.sources :
              m.reply.sources[i].state \in SourceStates
      BY <1>1, <1>7 DEF KnownNames
    <2>7. d.list = m.reply.sources
      BY <2>1, <2>2, <2>5, <2>6, SourcesRead
    <2>8. Answer(d) = [reply |-> [is |-> "sources", sources |-> d.list,
                                  more |-> d.more]]
      BY <1>3, <1>7 DEF Answer
    <2> QED
      BY <1>2, <2>1, <2>4, <2>7, <2>8
  <1>8. CASE m.reply.is = "snapshot"
    <2>1. /\ m.reply = [is |-> "snapshot", generation |-> m.reply.generation,
                        leap |-> m.reply.leap,
                        synchronised |-> m.reply.synchronised]
          /\ m.reply.leap \in Nat
      BY <1>2, <1>8 DEF Tell
    <2>2. /\ Field("generation", Number(m.reply.generation)) \in Encoded(m)
          /\ Field("leap", Number(m.reply.leap)) \in Encoded(m)
          /\ Field("synchronised", Flag(m.reply.synchronised)) \in Encoded(m)
      BY <1>1, <1>8 DEF EncodedReply
    <2>3. /\ d.snapshot.generation = m.reply.generation
          /\ d.snapshot.leap = Unsigned(m.reply.leap)
          /\ d.snapshot.synchronised = m.reply.synchronised
      BY <2>2 DEF Field, Number, Flag, Says
    <2>4. Unsigned(m.reply.leap) = m.reply.leap
      BY <2>1 DEF Unsigned
    <2>5. PICK snapshot : snapshot = d.snapshot
      OBVIOUS
    <2>6. snapshot = [generation |-> m.reply.generation,
                      leap |-> m.reply.leap,
                      synchronised |-> m.reply.synchronised]
      BY <2>3, <2>4, <2>5, DraftParts
    <2>7. Labelled("snapshot", snapshot) = m.reply
      BY <2>1, <2>6 DEF Labelled
    <2>8. Answer(d) = [reply |-> Labelled("snapshot", snapshot)]
      BY <1>3, <1>8, <2>5 DEF Answer
    <2> QED
      BY <1>2, <2>7, <2>8
  <1> QED
    BY <1>2, <1>4, <1>5, <1>6, <1>7, <1>8 DEF Tell

Meaning(m, d) == IF IsRequest(m) THEN Question(d) ELSE Answer(d)

(* A draft that says what every field of a message says is the message.    *)
LEMMA WholeIsUnderstood ==
    ASSUME NEW m \in Message, NEW d \in Draft, KnownNames(m),
           \A f \in Encoded(m) : Says(d, f.key, f.value)
    PROVE  Meaning(m, d) = m
  <1>1. CASE m \in [query : Ask]
    BY <1>1, RequestUnderstood DEF Meaning, IsRequest
  <1>2. CASE m \in [reply : Tell]
    BY <1>2, ReplyUnderstood DEF Meaning, IsRequest
  <1> QED
    BY <1>1, <1>2 DEF Message
(* A message with another flag or zone differs in that field alone.        *)
LEMMA OtherManual ==
    ASSUME NEW m \in [reply : Tell], m.reply.is = "status", KnownNames(m),
           NEW off \in BOOLEAN,
           NEW keeps, keeps = [m EXCEPT !.reply.manual = off]
    PROVE  /\ keeps \in [reply : Tell] /\ KnownNames(keeps)
           /\ \A f \in Encoded(keeps) :
                 \/ f \in Encoded(m) /\ f.key # "manual"
                 \/ f = Field("manual", Flag(off))
  <1>1. PICK r : r = m.reply
    OBVIOUS
  <1>2. r = [is |-> "status", generation |-> r.generation, sync |-> r.sync,
             leap |-> r.leap, sources |-> r.sources, manual |-> r.manual,
             zone |-> r.zone]
        /\ r.generation \in Nat /\ r.sync \in Syncs \cup Newer /\ r.leap \in Int
        /\ r.sources \in Nat /\ r.manual \in BOOLEAN /\ r.zone \in Names \cup {None}
    BY <1>1 DEF Tell
  <1>3. PICK s : s = [is |-> "status", generation |-> r.generation,
                      sync |-> r.sync, leap |-> r.leap, sources |-> r.sources,
                      manual |-> off, zone |-> r.zone]
    OBVIOUS
  <1>4. s \in Tell
    BY <1>2, <1>3 DEF Tell
  <1>5. keeps = [reply |-> s]
    <2>1. m = [reply |-> r]
      BY <1>1
    <2>2. [r EXCEPT !.manual = off] = s
      BY <1>2, <1>3
    <2>3. keeps = [m EXCEPT !.reply = [r EXCEPT !.manual = off]]
      BY <1>1
    <2> QED
      BY <2>1, <2>2, <2>3
  <1>6. ~IsRequest(m) /\ ~IsRequest(keeps)
    BY <1>5 DEF IsRequest
  <1>7. r.sync \in Syncs
    BY <1>1, <1>6 DEF KnownNames
  <1>8. s.is = "status" /\ s.sync = r.sync /\ keeps.reply = s
    BY <1>3, <1>5
  <1>9. KnownNames(keeps)
    BY <1>6, <1>7, <1>8 DEF KnownNames
  <1>10. Encoded(keeps) =
            {Field("reply", Text("status")),
             Field("generation", Number(r.generation)),
             Field("sync", Text(r.sync)), Field("leap", Number(r.leap)),
             Field("sources", Number(r.sources)),
             Field("manual", Flag(off)), Field("zone", Optional(r.zone))}
    BY <1>3, <1>6, <1>8 DEF Encoded, EncodedReply
  <1>11. Encoded(m) =
            {Field("reply", Text("status")),
             Field("generation", Number(r.generation)),
             Field("sync", Text(r.sync)), Field("leap", Number(r.leap)),
             Field("sources", Number(r.sources)),
             Field("manual", Flag(r.manual)), Field("zone", Optional(r.zone))}
    BY <1>1, <1>6 DEF Encoded, EncodedReply
  <1>12. ASSUME NEW f \in Encoded(keeps), f # Field("manual", Flag(off))
         PROVE  f \in Encoded(m) /\ f.key # "manual"
    BY <1>10, <1>11, <1>12 DEF Field
  <1> QED
    BY <1>4, <1>5, <1>9, <1>12

LEMMA OtherZone ==
    ASSUME NEW m \in [reply : Tell], m.reply.is = "status", KnownNames(m),
           NEW inUtc, inUtc = [m EXCEPT !.reply.zone = None]
    PROVE  /\ inUtc \in [reply : Tell] /\ KnownNames(inUtc)
           /\ \A f \in Encoded(inUtc) :
                 \/ f \in Encoded(m) /\ f.key # "zone"
                 \/ f = Field("zone", Optional(None))
  <1>1. PICK r : r = m.reply
    OBVIOUS
  <1>2. r = [is |-> "status", generation |-> r.generation, sync |-> r.sync,
             leap |-> r.leap, sources |-> r.sources, manual |-> r.manual,
             zone |-> r.zone]
        /\ r.generation \in Nat /\ r.sync \in Syncs \cup Newer /\ r.leap \in Int
        /\ r.sources \in Nat /\ r.manual \in BOOLEAN
    BY <1>1 DEF Tell
  <1>3. PICK s : s = [is |-> "status", generation |-> r.generation,
                      sync |-> r.sync, leap |-> r.leap, sources |-> r.sources,
                      manual |-> r.manual, zone |-> None]
    OBVIOUS
  <1>4. s \in Tell
    BY <1>2, <1>3 DEF Tell
  <1>5. inUtc = [reply |-> s]
    <2>1. m = [reply |-> r]
      BY <1>1
    <2>2. [r EXCEPT !.zone = None] = s
      BY <1>2, <1>3
    <2>3. inUtc = [m EXCEPT !.reply = [r EXCEPT !.zone = None]]
      BY <1>1
    <2> QED
      BY <2>1, <2>2, <2>3
  <1>6. ~IsRequest(m) /\ ~IsRequest(inUtc)
    BY <1>5 DEF IsRequest
  <1>7. r.sync \in Syncs
    BY <1>1, <1>6 DEF KnownNames
  <1>8. s.is = "status" /\ s.sync = r.sync /\ inUtc.reply = s
    BY <1>3, <1>5
  <1>9. KnownNames(inUtc)
    BY <1>6, <1>7, <1>8 DEF KnownNames
  <1>10. Encoded(inUtc) =
            {Field("reply", Text("status")),
             Field("generation", Number(r.generation)),
             Field("sync", Text(r.sync)), Field("leap", Number(r.leap)),
             Field("sources", Number(r.sources)),
             Field("manual", Flag(r.manual)), Field("zone", Optional(None))}
    BY <1>3, <1>6, <1>8 DEF Encoded, EncodedReply
  <1>11. Encoded(m) =
            {Field("reply", Text("status")),
             Field("generation", Number(r.generation)),
             Field("sync", Text(r.sync)), Field("leap", Number(r.leap)),
             Field("sources", Number(r.sources)),
             Field("manual", Flag(r.manual)), Field("zone", Optional(r.zone))}
    BY <1>1, <1>6 DEF Encoded, EncodedReply
  <1>12. ASSUME NEW f \in Encoded(inUtc), f # Field("zone", Optional(None))
         PROVE  f \in Encoded(m) /\ f.key # "zone"
    BY <1>10, <1>11, <1>12 DEF Field
  <1> QED
    BY <1>4, <1>5, <1>9, <1>12

-----------------------------------------------------------------------------
(* The invariant *)

LEMMA TypesAreOfMeant == Types = TypesOf(meant)
  BY DEF Types, TypesOf

LEMMA NothingRead == NoDraft \in Draft
  BY DEF NoDraft, Draft, Texts, Syncs, SourceInfo

LEMMA MessageStart == MessageInit => MessageIInv
  <1> SUFFICES ASSUME MessageInit
               PROVE  MessageIInv
    OBVIOUS
  <1>1. MessageTypeOK
    BY NothingRead DEF MessageInit, MessageTypeOK
  <1>2. Taken = {}
    BY DEF MessageInit, Taken
  <1>3. Reading
    BY <1>2 DEF Reading, MessageInit, Defaults, NoDraft
  <1>4. MeantOrRefused
    BY DEF MessageInit, MeantOrRefused, HeardAsMeant, OnceOrRefused
  <1> QED
    BY <1>1, <1>3, <1>4 DEF MessageIInv, MessageInit

LEMMA Outcomes ==
    /\ Refused # Unheard
    /\ \A m : [query |-> m] # Unheard /\ [query |-> m] # Refused
    /\ \A m : [reply |-> m] # Unheard /\ [reply |-> m] # Refused
  <1>1. DOMAIN Unheard = {"is"} /\ DOMAIN Refused = {"is"}
    BY DEF Unheard, Refused
  <1>2. Refused # Unheard
    BY DEF Unheard, Refused
  <1>3. \A m : DOMAIN [query |-> m] # {"is"} /\ DOMAIN [reply |-> m] # {"is"}
    OBVIOUS
  <1> QED
    BY <1>1, <1>2, <1>3
(* What a draft says of a field is what the invariant says of it.          *)
LEMMA TakenIsSaid ==
    ASSUME MessageIInv, heard = Unheard, NEW f \in Taken,
           f \in Encoded(meant)
    PROVE  Says(draft, f.key, f.value)
  <1>1. meant \in Message /\ draft \in Draft
    BY MessageConstants DEF MessageIInv, MessageTypeOK, Message
  <1>2. /\ f.key \in DOMAIN TypesOf(meant) /\ f.value \in Value
        /\ f.value.is \in TypesOf(meant)[f.key]
    BY <1>1, Fields DEF FieldsOf
  <1>3. IsReadAs(f.key, f.value)
    BY <1>2 DEF IsReadAs, TypesOf
  <1>4. Put(draft, f.key, f.value) = draft
    BY <1>2, TypesAreOfMeant DEF MessageIInv, Reading
  <1> QED
    BY <1>1, <1>2, <1>3, <1>4, SaysAgain

(* No field is refused of a message that is all there.                     *)
LEMMA NothingToRefuse ==
    ASSUME MessageIInv, heard = Unheard, KnownNames(meant),
           written \subseteq Encoded(meant) \cup {Unknown},
           NEW f \in unread
    PROVE  ~Unreadable(f)
  <1>1. meant \in Message /\ unread \subseteq written
    BY MessageConstants DEF MessageIInv, MessageTypeOK, Message
  <1>2. \A g, h \in written : g.key = h.key => g = h
    BY <1>1, Fields DEF FieldsOf, Unknown, Field
  <1>3. ~Twice(f)
    BY <1>1, <1>2 DEF Twice, MessageIInv, Reading, Taken
  <1>4. CASE f = Unknown
    <2>1. f.key = "unknown"
      BY <1>4 DEF Unknown, Field
    <2>2. f.key \notin DOMAIN Types
      BY <2>1 DEF Types, RequestTypes, ReplyTypes
    <2> QED
      BY <1>3, <2>1, <2>2 DEF Unreadable
  <1>5. CASE f \in Encoded(meant)
    <2>1. /\ f.value.is \in Types[f.key]
          /\ f.key = "sync" => f.value.of \in Syncs
      BY <1>1, <1>5, Fields, TypesAreOfMeant DEF FieldsOf
    <2> QED
      BY <1>3, <2>1 DEF Unreadable
  <1> QED
    BY <1>1, <1>4, <1>5

LEMMA AfterRefusing ==
    ASSUME MessageIInv, NEW f \in unread, Refusing(f)
    PROVE  MessageIInv'
  <1>1. heard = Unheard
    BY DEF MessageIInv
  <1>2. /\ heard' = Refused /\ unread' = {} /\ seen' = {} /\ draft' = NoDraft
        /\ meant' = meant /\ written' = written
    BY DEF Refusing, Closed
  <1>3. MessageTypeOK'
    BY <1>2, NothingRead DEF MessageIInv, MessageTypeOK
  <1>4. HeardAsMeant'
    <2>1. ASSUME KnownNames(meant)
          PROVE  ~ (written \subseteq Encoded(meant) \cup {Unknown})
      BY <1>1, <2>1, NothingToRefuse DEF Refusing
    <2>2. \A field : OlderThan(field) => written \subseteq Encoded(meant)
      BY DEF OlderThan
    <2> QED
      BY <1>2, <2>1, <2>2 DEF HeardAsMeant, OlderThan
  <1>5. OnceOrRefused'
    BY <1>2 DEF OnceOrRefused
  <1> QED
    BY <1>2, <1>3, <1>4, <1>5, Outcomes DEF MessageIInv, MeantOrRefused

LEMMA AfterTaking ==
    ASSUME MessageIInv, NEW f \in unread, Taking(f)
    PROVE  MessageIInv'
  <1>1. heard = Unheard /\ Reading /\ MessageTypeOK
    BY DEF MessageIInv
  <1>2. /\ heard' = heard /\ meant' = meant /\ written' = written
        /\ unread' = unread \ {f} /\ seen' = seen \cup {f.key}
        /\ draft' = IF f.key \in DOMAIN Types
                    THEN Put(draft, f.key, f.value) ELSE draft
    BY DEF Taking
  <1>3. f \in written /\ meant \in Message /\ draft \in Draft
    BY <1>1, MessageConstants DEF MessageTypeOK, Message
  <1>4. Taken' = Taken \cup {f} /\ f \notin Taken
    BY <1>2, <1>3 DEF Taken
  <1>5. f.key \notin seen
    BY DEF Taking, Unreadable, Twice
  <1>6. Types' = Types
    BY <1>2 DEF Types
  <1>7. ASSUME NEW g \in written, g.key \in DOMAIN Types,
               g.value.is \in Types[g.key]
        PROVE  g.value \in Value /\ IsReadAs(g.key, g.value)
    <2>1. written \in Variants(Encoded(meant))
      BY DEF MessageIInv
    <2> QED
      BY <1>3, <1>7, <2>1, VariantFields, TypesAreOfMeant
  <1>8. f.key \in DOMAIN Types => f.value.is \in Types[f.key]
    BY DEF Taking, Unreadable
  <1>9. \A g, h \in Taken' : g.key = h.key => g = h
    BY <1>1, <1>4, <1>5 DEF Reading
  <1>10. seen' = {g.key : g \in Taken'}
    BY <1>1, <1>2, <1>4 DEF Reading
  <1>11. /\ draft' \in Draft
         /\ f.key # "seconds" => draft'.seconds = draft.seconds
         /\ f.key # "manual" => draft'.status.manual = draft.status.manual
         /\ f.key # "zone" => draft'.status.zone = draft.status.zone
    <2>1. CASE f.key \in DOMAIN Types
      BY <1>2, <1>3, <1>7, <1>8, <2>1, PutKeeps
    <2>2. CASE f.key \notin DOMAIN Types
      BY <1>2, <1>3, <2>2
    <2> QED
      BY <2>1, <2>2
  <1>12. ASSUME NEW g \in Taken', g.key \in DOMAIN Types
         PROVE  /\ g.value.is \in Types[g.key]
                /\ Put(draft', g.key, g.value) = draft'
    <2>1. CASE g = f
      <3>1. /\ g.value.is \in Types[g.key] /\ g \in written
            /\ draft' = Put(draft, g.key, g.value)
        BY <1>2, <1>3, <1>8, <1>12, <2>1
      <3>2. g.value \in Value /\ IsReadAs(g.key, g.value)
        BY <1>7, <1>12, <3>1
      <3>3. Says(draft', g.key, g.value)
        BY <1>3, <3>1, <3>2, PutKeeps
      <3> QED
        BY <1>11, <3>1, <3>2, <3>3, SaysAgain
    <2>2. CASE g \in Taken
      <3>1. /\ g.value.is \in Types[g.key] /\ g \in written
            /\ Put(draft, g.key, g.value) = draft
        BY <1>1, <1>12, <2>2 DEF Reading, Taken
      <3>2. g.value \in Value /\ IsReadAs(g.key, g.value)
        BY <1>7, <1>12, <3>1
      <3>3. Says(draft, g.key, g.value)
        BY <1>3, <3>1, <3>2, SaysAgain
      <3>4. g.key # f.key
        BY <1>1, <1>5, <2>2 DEF Reading
      <3>5. Says(draft', g.key, g.value)
        <4>1. CASE f.key \in DOMAIN Types
          BY <1>2, <1>3, <1>7, <1>8, <3>3, <3>4, <4>1, PutKeeps
        <4>2. CASE f.key \notin DOMAIN Types
          BY <1>2, <3>3, <4>2
        <4> QED
          BY <4>1, <4>2
      <3> QED
        BY <1>11, <3>1, <3>2, <3>5, SaysAgain
    <2> QED
      BY <1>4, <2>1, <2>2
  <1>13. Defaults'
    BY <1>1, <1>2, <1>11 DEF Reading, Defaults
  <1>14. Reading'
    BY <1>6, <1>9, <1>10, <1>12, <1>13 DEF Reading
  <1>15. MessageTypeOK'
    BY <1>1, <1>2, <1>3, <1>11 DEF MessageTypeOK
  <1>16. MeantOrRefused'
    BY <1>1, <1>2 DEF MeantOrRefused, HeardAsMeant, OnceOrRefused
  <1> QED
    BY <1>1, <1>2, <1>14, <1>15, <1>16 DEF MessageIInv

(* What the fields come to.  A draft that lacks the flag or the zone of a  *)
(* status says what it says of a message whose writer has the default.     *)
LEMMA AfterUnderstanding ==
    ASSUME MessageIInv, Understanding
    PROVE  MessageIInv'
  <1>1. heard = Unheard /\ unread = {} /\ Reading /\ MessageTypeOK
    BY DEF MessageIInv, Understanding
  <1>2. /\ heard' = Meaning(meant, draft)
        /\ unread' = {} /\ seen' = {} /\ draft' = NoDraft
        /\ meant' = meant /\ written' = written
    BY DEF Understanding, Closed, Meaning
  <1>3. Taken = written /\ meant \in Message /\ draft \in Draft
    BY <1>1, MessageConstants DEF Taken, MessageTypeOK, Message
  <1>4. MessageTypeOK'
    BY <1>1, <1>2, NothingRead DEF MessageTypeOK
  <1>5. \A f \in Encoded(meant) \cap written : Says(draft, f.key, f.value)
    BY <1>1, <1>3, TakenIsSaid
  <1>6. ASSUME KnownNames(meant), Encoded(meant) \subseteq written
        PROVE  heard' = meant
    BY <1>2, <1>3, <1>5, <1>6, WholeIsUnderstood
  <1>7. ASSUME KnownNames(meant), ~IsRequest(meant), meant.reply.is = "status",
               OlderThan("manual")
        PROVE  heard' = [meant EXCEPT !.reply.manual = FALSE]
    <2>1. meant \in [reply : Tell]
      BY <1>3, <1>7 DEF Message, IsRequest
    <2>2. PICK off \in BOOLEAN : off = FALSE
      OBVIOUS
    <2>3. PICK keeps : keeps = [meant EXCEPT !.reply.manual = off]
      OBVIOUS
    <2>4. /\ keeps \in [reply : Tell] /\ KnownNames(keeps)
          /\ \A f \in Encoded(keeps) :
                \/ f \in Encoded(meant) /\ f.key # "manual"
                \/ f = Field("manual", Flag(off))
      BY <1>7, <2>1, <2>3, OtherManual
    <2>5. "manual" \notin seen
      BY <1>1, <1>3, <1>7 DEF Reading, OlderThan
    <2>6. draft.status.manual = off
      <3>1. ~draft.status.manual
        BY <1>1, <2>5 DEF Reading, Defaults
      <3>2. draft.status.manual \in BOOLEAN
        BY <1>3 DEF Draft
      <3> QED
        BY <2>2, <3>1, <3>2
    <2>7. ASSUME NEW f \in Encoded(keeps)
          PROVE  Says(draft, f.key, f.value)
      <3>1. CASE f \in Encoded(meant) /\ f.key # "manual"
        BY <1>5, <1>7, <3>1 DEF OlderThan
      <3>2. CASE f = Field("manual", Flag(off))
        BY <2>6, <3>2 DEF Field, Flag, Says
      <3> QED
        BY <2>4, <3>1, <3>2
    <2>8. Answer(draft) = keeps
      BY <1>3, <2>4, <2>7, ReplyUnderstood
    <2> QED
      BY <1>2, <1>7, <2>2, <2>3, <2>8 DEF Meaning
  <1>8. ASSUME KnownNames(meant), ~IsRequest(meant), meant.reply.is = "status",
               OlderThan("zone")
        PROVE  heard' = [meant EXCEPT !.reply.zone = None]
    <2>1. meant \in [reply : Tell]
      BY <1>3, <1>8 DEF Message, IsRequest
    <2>2. PICK inUtc : inUtc = [meant EXCEPT !.reply.zone = None]
      OBVIOUS
    <2>3. /\ inUtc \in [reply : Tell] /\ KnownNames(inUtc)
          /\ \A f \in Encoded(inUtc) :
                \/ f \in Encoded(meant) /\ f.key # "zone"
                \/ f = Field("zone", Optional(None))
      BY <1>8, <2>1, <2>2, OtherZone
    <2>4. "zone" \notin seen
      BY <1>1, <1>3, <1>8 DEF Reading, OlderThan
    <2>5. draft.status.zone = None
      BY <1>1, <2>4 DEF Reading, Defaults
    <2>6. ASSUME NEW f \in Encoded(inUtc)
          PROVE  Says(draft, f.key, f.value)
      <3>1. CASE f \in Encoded(meant) /\ f.key # "zone"
        BY <1>5, <1>8, <3>1 DEF OlderThan
      <3>2. CASE f = Field("zone", Optional(None))
        BY <2>5, <3>2 DEF Field, Optional, Says
      <3> QED
        BY <2>3, <3>1, <3>2
    <2>7. Answer(draft) = inUtc
      BY <1>3, <2>3, <2>6, ReplyUnderstood
    <2> QED
      BY <1>2, <1>8, <2>2, <2>7 DEF Meaning
  <1>9. HeardAsMeant'
    BY <1>2, <1>6, <1>7, <1>8 DEF HeardAsMeant, OlderThan
  <1>10. \A f, g \in written : f.key = g.key => f = g
    BY <1>1, <1>3 DEF Reading
  <1>11. ASSUME heard' \notin {Unheard, Refused}, IsRequest(heard'),
                heard'.query.is = "set"
         PROVE  /\ \E f \in written : f.key = "seconds"
                /\ heard'.query.nanos < Second
    <2>1. IsRequest(meant)
      <3>1. \A m : ~IsRequest([reply |-> m])
        BY DEF IsRequest
      <3>2. Answer(draft) = Refused \/ \E m : Answer(draft) = [reply |-> m]
        BY DEF Answer
      <3> QED
        BY <1>2, <1>11, <3>1, <3>2 DEF Meaning
    <2>2. heard' = Question(draft)
      BY <1>2, <2>1 DEF Meaning
    <2>3. /\ draft.query \in Questions
          /\ draft.query = "set" =>
                draft.seconds # None /\ ~ (draft.nanos >= Second)
      BY <1>11, <2>2 DEF Question
    <2>4. heard' = [query |-> IF draft.query = "set"
                              THEN [is |-> "set", seconds |-> draft.seconds,
                                    nanos |-> draft.nanos]
                              ELSE [is |-> draft.query]]
      BY <2>2, <2>3 DEF Question
    <2>5. draft.query = "set" /\ heard'.query.nanos = draft.nanos
      BY <1>11, <2>4
    <2>6. "seconds" \in seen
      BY <1>1, <2>3, <2>5 DEF Reading, Defaults
    <2>7. draft.nanos \in Int /\ Second \in Int
      BY <1>3, MessageConstants DEF Draft
    <2> QED
      BY <1>1, <1>3, <2>3, <2>5, <2>6, <2>7 DEF Reading
  <1>12. OnceOrRefused'
    BY <1>2, <1>10, <1>11 DEF OnceOrRefused
  <1>13. heard' # Unheard
    <2>1. Question(draft) = Refused \/ \E m : Question(draft) = [query |-> m]
      BY DEF Question
    <2>2. Answer(draft) = Refused \/ \E m : Answer(draft) = [reply |-> m]
      BY DEF Answer
    <2> QED
      BY <1>2, <2>1, <2>2, Outcomes DEF Meaning
  <1> QED
    BY <1>2, <1>4, <1>9, <1>12, <1>13 DEF MessageIInv, MeantOrRefused

LEMMA MessageKeeps == MessageIInv /\ [MessageNext]_messageVars => MessageIInv'
  <1> SUFFICES ASSUME MessageIInv, [MessageNext]_messageVars
               PROVE  MessageIInv'
    OBVIOUS
  <1>1. CASE UNCHANGED messageVars
    BY <1>1 DEF messageVars, MessageIInv, MessageTypeOK, Reading, Defaults,
                Taken, Types, MeantOrRefused, HeardAsMeant, OnceOrRefused,
                OlderThan
  <1>2. ASSUME NEW f \in unread, Refusing(f)
        PROVE  MessageIInv'
    BY <1>2, AfterRefusing
  <1>3. ASSUME NEW f \in unread, Taking(f)
        PROVE  MessageIInv'
    BY <1>3, AfterTaking
  <1>4. CASE Understanding
    BY <1>4, AfterUnderstanding
  <1> QED
    BY <1>1, <1>2, <1>3, <1>4 DEF MessageNext

(* The inductive invariant: what has been taken of a message is in the     *)
(* draft, each key once.                                                   *)
THEOREM MessageInvariance == MessageSpec => []MessageIInv
  BY MessageStart, MessageKeeps, PTL DEF MessageSpec

(* Drafts of all replies at once stay of their types, in whatever order    *)
(* the fields come.                                                        *)
THEOREM MessageTypeCorrect == MessageSpec => []MessageTypeOK
  <1>1. MessageIInv => MessageTypeOK
    BY DEF MessageIInv
  <1> QED
    BY <1>1, MessageInvariance, PTL

(* For any messages and any order of their fields, what is heard is what   *)
(* was meant, or the message is refused.                                   *)
THEOREM MessagesAreMeant == MessageSpec => []MeantOrRefused
  <1>1. MessageIInv => MeantOrRefused
    BY DEF MessageIInv
  <1> QED
    BY <1>1, MessageInvariance, PTL

-----------------------------------------------------------------------------
(* All four, side by side, each of them as it is alone: the backoff within *)
(* its limits, no more subscribers than MAX_CLIENTS, no more of an answer  *)
(* than a read past the limit, and drafts of their types.                  *)
THEOREM ChannelsTypeCorrect == MCSpec => []ChannelsTypeOK
  <1> DEFINE IInvs == NetdIInv /\ ControlIInv /\ KeIInv /\ MessageIInv
  <1>1. MCInit => IInvs
    BY NetdInitially, ControlInitially, KeInitially, MessageStart DEF MCInit
  <1>2. IInvs /\ [MCNext]_mcVars => IInvs'
    <2> SUFFICES ASSUME IInvs, [MCNext]_mcVars
                 PROVE  IInvs'
      OBVIOUS
    <2>1. /\ [NetdNext]_netdVars /\ [ControlNext]_controlVars
          /\ [KeNext]_keVars /\ [MessageNext]_messageVars
      BY DEF MCNext, OnNetd, OnSocket, OnHandshake, OnMessage, Rests, mcVars
    <2> QED
      BY <2>1, NetdKeeps, ControlKeeps, KeKeeps, MessageKeeps
  <1>3. IInvs => ChannelsTypeOK
    BY DEF NetdIInv, ControlIInv, KeIInv, MessageIInv, ChannelsTypeOK
  <1> QED
    BY <1>1, <1>2, <1>3, PTL DEF MCSpec
=============================================================================
