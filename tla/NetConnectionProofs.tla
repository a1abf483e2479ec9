------------------------ MODULE NetConnectionProofs -------------------------
(***************************************************************************)
(* That the two ends of a connection stay in step: types, what the resend  *)
(* buffer keeps, what the acknowledgements mean, and that one direction    *)
(* implements ReliableStream.                                              *)
(***************************************************************************)
EXTENDS NetConnection, NumberFacts, SequenceTheorems

USE DEF End

\* What the assumption on the constants says of the half of the numbers.
LEMMA Sizes ==
    /\ MaxSequence \in Nat /\ BufferSize \in Nat \ {0} /\ PacketSize \in Nat \ {0}
    /\ MaxInFlight \in Nat /\ MaxFaults \in Nat /\ First \in Number
    /\ MaxSequence \div 2 \in Nat
    /\ BufferSize < MaxSequence \div 2
    /\ 2 * (MaxSequence \div 2) <= MaxSequence
    /\ 4 <= MaxSequence
  BY ConnectionAssumption, SMT DEF Number

LEMMA Ends ==
    /\ \A e \in End : Other(e) \in End /\ Other(e) # e /\ Other(Other(e)) = e
    /\ \A e, d \in End : d # e => d = Other(e)
  BY DEF Other
-----------------------------------------------------------------------------
(* Sequences *)

\* A part of a sequence has elements of the same set.
LEMMA SubSeqType ==
    ASSUME NEW S, NEW s \in Seq(S), NEW m \in Nat \ {0}, NEW n \in 0..Len(s)
    PROVE  /\ SubSeq(s, m, n) \in Seq(S)
           /\ Len(SubSeq(s, m, n)) = IF m <= n THEN n - m + 1 ELSE 0
           /\ \A i \in 1..(n - m + 1) : SubSeq(s, m, n)[i] = s[m + i - 1]
<1>1. \A i \in m..n : s[i] \in S
  BY ElementOfSeq
<1>2. m \in Int /\ n \in Int
  OBVIOUS
<1> QED
  BY <1>1, <1>2, SubSeqProperties

LEMMA RemoveAtType ==
    ASSUME NEW S, NEW s \in Seq(S), NEW i \in 1..Len(s)
    PROVE  RemoveAt(s, i) \in Seq(S) /\ Len(RemoveAt(s, i)) = Len(s) - 1
<1> DEFINE a == SubSeq(s, 1, i - 1)
           b == SubSeq(s, i + 1, Len(s))
<1>1. a \in Seq(S) /\ Len(a) = i - 1
  BY SubSeqType
<1>2. b \in Seq(S) /\ Len(b) = Len(s) - i
  BY SubSeqType, LenProperties
<1> HIDE DEF a, b
<1>3. a \o b \in Seq(S) /\ Len(a \o b) = Len(a) + Len(b)
  BY <1>1, <1>2, ConcatProperties, Zenon
<1>4. RemoveAt(s, i) = a \o b
  BY Zenon DEF RemoveAt, a, b
<1>5. Len(a) + Len(b) = Len(s) - 1
  BY <1>1, <1>2, LenProperties
<1> QED
  BY <1>3, <1>4, <1>5, Zenon

LEMMA PutType ==
    ASSUME NEW P, NEW u \in Seq(P), NEW packets \in Seq(P)
    PROVE  Put(u, packets) \in Seq(P) /\ Len(Put(u, packets)) <= MaxInFlight
<1> DEFINE all == u \o packets
           n == Min({Len(all), MaxInFlight})
<1>1. all \in Seq(P)
  BY ConcatProperties, Zenon
<1> HIDE DEF all
<1>2. Len(all) \in Nat /\ MaxInFlight \in Nat
  BY <1>1, Sizes, LenProperties
<1>3. n \in {Len(all), MaxInFlight} /\ n <= Len(all) /\ n <= MaxInFlight
  <2>1. \E x \in {Len(all), MaxInFlight} : \A y \in {Len(all), MaxInFlight} : x <= y
    BY <1>2
  <2> QED
    BY <2>1, <1>2 DEF Min
<1> HIDE DEF n
<1>4. SubSeq(all, 1, n) \in Seq(P) /\ Len(SubSeq(all, 1, n)) <= MaxInFlight
  BY <1>1, <1>2, <1>3, SubSeqType
<1> QED
  BY <1>4, Zenon DEF Put, all, n
-----------------------------------------------------------------------------
(* Packets *)

\* A positive number is its full packets and a rest between one chunk and a
\* packet of them.
LEMMA FullPacketsFit ==
    ASSUME NEW S, NEW cs \in Seq(S)
    PROVE  /\ FullPackets(cs) \in Nat
           /\ FullPackets(cs) * PacketSize \in 0..Len(cs)
           /\ Len(cs) - FullPackets(cs) * PacketSize <= PacketSize
<1>1. CASE cs = <<>>
  BY <1>1, Sizes, SMT DEF FullPackets
<1>2. CASE cs # <<>>
  <2> DEFINE n == Len(cs) - 1
             q == n \div PacketSize
  <2>1. n \in Nat
    BY <1>2, EmptySeq, LenProperties
  <2>2. q \in Int /\ n % PacketSize \in 0..(PacketSize - 1) /\ n = PacketSize * q + (n % PacketSize)
    <3> HIDE DEF n
    <3> QED
      BY <2>1, Sizes, DivMod
  <2>3. FullPackets(cs) = q /\ Len(cs) = n + 1
    BY <1>2, LenProperties DEF FullPackets
  <2> HIDE DEF n, q
  <2> DEFINE r == n % PacketSize
             m == PacketSize * q
  <2>4. m = q * PacketSize /\ m \in Int /\ r \in 0..(PacketSize - 1) /\ n = m + r
    BY <2>2, Sizes
  <2> HIDE DEF r
  <2>5. q >= 0
    <3>1. SUFFICES ASSUME q <= -1 PROVE FALSE
      BY <2>2
    <3>2. m <= -PacketSize
      BY <3>1, <2>2, Sizes, SMT
    <3> HIDE DEF m
    <3> QED
      BY <3>2, <2>1, <2>4, Sizes
  <2>6. m >= 0
    BY <2>5, <2>2, Sizes, SMT
  <2> HIDE DEF m
  <2>7. m \in 0..Len(cs) /\ Len(cs) - m <= PacketSize
    BY <2>1, <2>3, <2>4, <2>6, Sizes
  <2>8. q \in Nat
    BY <2>2, <2>5
  <2> QED
    BY <2>3, <2>4, <2>7, <2>8
<1> QED
  BY <1>1, <1>2

LEMMA RemainingType ==
    ASSUME NEW S, NEW cs \in Seq(S)
    PROVE  Remaining(cs) \in Seq(S) /\ Len(Remaining(cs)) <= PacketSize
<1> DEFINE m == FullPackets(cs) * PacketSize
<1>1. m \in 0..Len(cs) /\ Len(cs) - m <= PacketSize /\ Len(cs) \in Nat
  BY FullPacketsFit, LenProperties
<1> HIDE DEF m
<1>2. SubSeq(cs, m + 1, Len(cs)) \in Seq(S)
      /\ Len(SubSeq(cs, m + 1, Len(cs))) = IF m + 1 <= Len(cs) THEN Len(cs) - (m + 1) + 1 ELSE 0
  BY <1>1, SubSeqType
<1>3. Len(SubSeq(cs, m + 1, Len(cs))) <= PacketSize
  BY <1>1, <1>2, Sizes
<1> QED
  BY <1>2, <1>3 DEF Remaining, m

\* P has every packet of chunks from S that tells a and t.
Carries(P, a, t, S) ==
    \A b \in BOOLEAN : \A cs \in Seq(S) :
        [ack |-> a, resend |-> b, taken |-> t, chunks |-> cs] \in P

LEMMA FlushedType ==
    ASSUME NEW P, NEW S, NEW e \in End, NEW cs \in Seq(S),
           Carries(P, ack[e], Len(received[e]), S), resend[e] \in BOOLEAN
    PROVE  Flushed(e, cs) \in Seq(P)
<1> DEFINE F == FullPackets(cs)
           part(i) == SubSeq(cs, (i - 1) * PacketSize + 1, i * PacketSize)
<1>1. F \in Nat /\ F * PacketSize <= Len(cs) /\ Len(cs) \in Nat
  BY FullPacketsFit, LenProperties
<1>2. ASSUME NEW i \in 1..F PROVE part(i) \in Seq(S)
  <2> DEFINE m == (i - 1) * PacketSize
             n == i * PacketSize
  <2> HIDE DEF F
  <2>1. m \in Nat /\ n \in Nat
    <3>1. i - 1 \in Nat /\ i \in Nat /\ PacketSize \in Nat
      BY <1>1, Sizes
    <3> QED
      BY <3>1, SMT
  <2>2. n <= F * PacketSize
    BY <1>1, Sizes, SMT
  <2>3. n <= Len(cs)
    <3> HIDE DEF n
    <3>1. F * PacketSize \in Int
      BY <1>1, Sizes, SMT
    <3> QED
      BY <2>1, <2>2, <1>1, <3>1
  <2> HIDE DEF m, n
  <2>4. SubSeq(cs, m + 1, n) \in Seq(S)
    BY <2>1, <2>3, <1>1, SubSeqType
  <2> QED
    BY <2>4 DEF m, n
<1> DEFINE packet(i) == [ack |-> ack[e], resend |-> resend[e] /\ i = 1,
                         taken |-> Len(received[e]), chunks |-> part(i)]
<1>3. ASSUME NEW i \in 1..F PROVE packet(i) \in P
  <2>1. (resend[e] /\ i = 1) \in BOOLEAN
    OBVIOUS
  <2> HIDE DEF part, F
  <2> QED
    BY <1>2, <2>1, Zenon DEF Carries
<1>4. Flushed(e, cs) = [i \in 1..F |-> packet(i)]
  BY Zenon DEF Flushed
<1> HIDE DEF packet, F
<1>5. [i \in 1..F |-> packet(i)] \in [1..F -> P]
  BY <1>3
<1> QED
  BY <1>1, <1>4, <1>5, FunctionIsSeq
-----------------------------------------------------------------------------
(* Numbers and what is under way *)

\* The number of the n-th chunk of a stream.
Num(n) == (First + n) % MaxSequence

\* The chunks among the first n of a stream that carry their own number, and
\* the packets with such chunks whose acknowledgement is the number of a chunk
\* that was taken, among the first t.
Genuine(n) == {c \in Chunk : c.data \in 1..n /\ c.seq = Num(c.data)}

UnderWay(t, n) ==
    {p \in Packet : /\ p.taken \in 0..t /\ p.ack = Num(p.taken)
                    /\ p.chunks \in Seq(Genuine(n))}

LEMMA NumType ==
    ASSUME NEW n \in Nat
    PROVE  Num(n) \in Number /\ Num(n) \in Nat
<1>1. First + n \in Nat /\ MaxSequence \in Nat \ {0}
  BY Sizes DEF Number
<1>2. (First + n) % MaxSequence \in 0..(MaxSequence - 1)
  BY <1>1, DivMod
<1> QED
  BY <1>2, Sizes DEF Num, Number

LEMMA NumFirst == Num(0) = First
<1>1. First \in Nat /\ MaxSequence \in Nat \ {0} /\ First < MaxSequence
  BY Sizes DEF Number
<1>2. First % MaxSequence = First
  BY <1>1, SMT
<1>3. First + 0 = First
  BY <1>1
<1> QED
  BY <1>2, <1>3 DEF Num

LEMMA NumNext ==
    ASSUME NEW n \in Nat
    PROVE  (Num(n) + 1) % MaxSequence = Num(n + 1)
<1>1. First + n \in Nat /\ MaxSequence \in Nat \ {0} /\ (First + n) + 1 = First + (n + 1)
  BY Sizes DEF Number
<1>2. (((First + n) % MaxSequence) + 1) % MaxSequence = ((First + n) + 1) % MaxSequence
  BY <1>1, ModNext
<1> QED
  BY <1>1, <1>2 DEF Num

\* Going d chunks on, for less than a turn, adds d and wraps at most once.
LEMMA NumShift ==
    ASSUME NEW n \in Nat, NEW d \in 0..(MaxSequence - 1)
    PROVE  Num(n + d) = IF Num(n) + d < MaxSequence THEN Num(n) + d
                        ELSE Num(n) + d - MaxSequence
<1> DEFINE a == First + n
           b == First + (n + d)
           p == a \div MaxSequence
           q == b \div MaxSequence
<1>1. a \in Nat /\ b \in Nat /\ b = a + d /\ MaxSequence \in Nat \ {0} /\ d \in Nat
  BY Sizes DEF Number
<1> HIDE DEF a, b
<1>2. p \in Int /\ a % MaxSequence \in 0..(MaxSequence - 1) /\ a = MaxSequence * p + (a % MaxSequence)
  BY <1>1, DivMod
<1>3. q \in Int /\ b % MaxSequence \in 0..(MaxSequence - 1) /\ b = MaxSequence * q + (b % MaxSequence)
  BY <1>1, DivMod
<1>4. Num(n) = a % MaxSequence /\ Num(n + d) = b % MaxSequence
  BY DEF Num, a, b
<1> DEFINE r == a % MaxSequence
           s == b % MaxSequence
<1> HIDE DEF p, q, r, s
<1>5. CASE r + d < MaxSequence
  <2>1. r + d \in 0..(MaxSequence - 1) /\ MaxSequence * p + (r + d) = MaxSequence * q + s
    <3>1. MaxSequence * p \in Int /\ MaxSequence * q \in Int
      BY <1>1, <1>2, <1>3
    <3> QED
      BY <3>1, <1>1, <1>2, <1>3, <1>5 DEF r, s
  <2>2. r + d = s
    BY <2>1, <1>1, <1>2, <1>3, DivModUnique DEF s
  <2> QED
    BY <2>2, <1>4, <1>5 DEF r, s
<1>6. CASE ~(r + d < MaxSequence)
  <2> DEFINE t == r + d - MaxSequence
  <2>1. MaxSequence * (p + 1) = MaxSequence * p + MaxSequence /\ p + 1 \in Int
        /\ MaxSequence * p \in Int /\ MaxSequence * q \in Int
    BY <1>1, <1>2, <1>3, SMT
  <2>2. t \in 0..(MaxSequence - 1) /\ MaxSequence * (p + 1) + t = MaxSequence * q + s
    BY <2>1, <1>1, <1>2, <1>3, <1>6 DEF r, s
  <2> HIDE DEF t
  <2>3. t = s
    BY <2>1, <2>2, <1>1, <1>3, DivModUnique DEF s
  <2> QED
    BY <2>3, <1>4, <1>6 DEF r, s, t
<1> QED
  BY <1>5, <1>6

\* Chunks less than a turn apart have different numbers.
LEMMA NumDistinct ==
    ASSUME NEW m \in Nat, NEW n \in Nat, m < n, n < m + MaxSequence
    PROVE  Num(m) # Num(n)
<1>1. n - m \in 0..(MaxSequence - 1) /\ n - m > 0 /\ m + (n - m) = n
  BY Sizes
<1>2. Num(m + (n - m)) = IF Num(m) + (n - m) < MaxSequence THEN Num(m) + (n - m)
                         ELSE Num(m) + (n - m) - MaxSequence
  BY <1>1, NumShift
<1> QED
  BY <1>1, <1>2, NumType, Sizes

LEMMA GenuineGrows ==
    ASSUME NEW m \in Nat, NEW n \in Nat, m <= n
    PROVE  Genuine(m) \subseteq Genuine(n) /\ Seq(Genuine(m)) \subseteq Seq(Genuine(n))
<1>1. Genuine(m) \subseteq Genuine(n)
  BY DEF Genuine
<1>2. ASSUME NEW s \in Seq(Genuine(m)) PROVE s \in Seq(Genuine(n))
  BY <1>1, SeqMonotonic
<1> QED
  BY <1>1, <1>2

LEMMA GenuineType ==
    ASSUME NEW n \in Nat, NEW s \in Seq(Genuine(n))
    PROVE  s \in Seq(Chunk)
<1>1. Genuine(n) \subseteq Chunk
  BY DEF Genuine
<1> QED
  BY <1>1, SeqMonotonic

LEMMA UnderWayGrows ==
    ASSUME NEW t \in Nat, NEW u \in Nat, t <= u, NEW m \in Nat, NEW n \in Nat, m <= n,
           NEW s \in Seq(UnderWay(t, m))
    PROVE  s \in Seq(UnderWay(u, n))
<1>1. Seq(Genuine(m)) \subseteq Seq(Genuine(n))
  BY GenuineGrows
<1>2. 0..t \subseteq 0..u
  OBVIOUS
<1>3. UnderWay(t, m) \subseteq UnderWay(u, n)
  BY <1>1, <1>2, Zenon DEF UnderWay
<1> QED
  BY <1>3, SeqMonotonic

LEMMA UnderWayType ==
    ASSUME NEW t \in Nat, NEW n \in Nat, NEW s \in Seq(UnderWay(t, n))
    PROVE  s \in Seq(Packet)
<1>1. UnderWay(t, n) \subseteq Packet
  BY DEF UnderWay
<1> QED
  BY <1>1, SeqMonotonic

LEMMA UnderWayCarries ==
    ASSUME NEW t \in Nat, NEW n \in Nat
    PROVE  Carries(UnderWay(t, n), Num(t), t, Genuine(n))
<1> SUFFICES ASSUME NEW b \in BOOLEAN, NEW cs \in Seq(Genuine(n))
             PROVE  [ack |-> Num(t), resend |-> b, taken |-> t, chunks |-> cs] \in UnderWay(t, n)
  BY DEF Carries
<1>1. Num(t) \in Number /\ cs \in Seq(Chunk) /\ t \in 0..t
  BY NumType, GenuineType
<1> DEFINE p == [ack |-> Num(t), resend |-> b, taken |-> t, chunks |-> cs]
<1>2. p \in Packet
  BY <1>1, Zenon DEF Packet
<1>3. p.ack = Num(t) /\ p.taken = t /\ p.chunks = cs
  OBVIOUS
<1> HIDE DEF p
<1>4. p \in UnderWay(t, n)
  BY <1>1, <1>2, <1>3, Zenon DEF UnderWay
<1> QED
  BY <1>4 DEF p
-----------------------------------------------------------------------------
(***************************************************************************)
(* Every number under way is genuine: a chunk carries the number of its    *)
(* place, an acknowledgement the number of a chunk that was taken.  This   *)
(* holds whatever the network does and for streams of any length.          *)
(***************************************************************************)
Shape ==
    /\ sequence = [e \in End |-> sequence[e]]
    /\ ack = [e \in End |-> ack[e]]
    /\ peerAck = [e \in End |-> peerAck[e]]
    /\ buffer = [e \in End |-> buffer[e]]
    /\ construct = [e \in End |-> construct[e]]
    /\ resend = [e \in End |-> resend[e]]
    /\ unpacker = [e \in End |-> unpacker[e]]
    /\ net = [e \in End |-> net[e]]
    /\ sent = [e \in End |-> sent[e]]
    /\ received = [e \in End |-> received[e]]
    /\ overflow = [e \in End |-> overflow[e]]

Numbered(e) ==
    /\ sent[e] \in 0..MaxSent(e) /\ received[e] \in Seq(Nat)
    /\ peerAck[e] \in Number
    /\ resend[e] \in BOOLEAN /\ overflow[e] \in BOOLEAN
    /\ sequence[e] = Num(sent[e])
    /\ ack[e] = Num(Len(received[e]))
    /\ construct[e] \in Seq(Genuine(sent[e])) /\ Len(construct[e]) <= PacketSize
    /\ buffer[e] \in Seq(Genuine(sent[e])) /\ Len(buffer[e]) <= BufferSize
    /\ unpacker[e] \in Seq(Genuine(sent[Other(e)]))
    /\ net[e] \in Seq(UnderWay(Len(received[Other(e)]), sent[Other(e)]))
    /\ Len(net[e]) <= MaxInFlight

NumberedInv == Shape /\ faults \in 0..MaxFaults /\ \A e \in End : Numbered(e)

LEMMA NumberedFacts ==
    ASSUME NEW e \in End, Numbered(e)
    PROVE  /\ sent[e] \in Nat /\ Len(received[e]) \in Nat /\ MaxSent(e) \in Nat
           /\ ack[e] \in Number /\ sequence[e] \in Number
<1>1. MaxSent(e) \in Nat
  BY ConnectionAssumption DEF MaxSent
<1>2. sent[e] \in Nat /\ Len(received[e]) \in Nat
  BY <1>1, LenProperties DEF Numbered
<1>3. Num(sent[e]) \in Number /\ Num(Len(received[e])) \in Number
  BY <1>2, NumType
<1> QED
  BY <1>1, <1>2, <1>3, Zenon DEF Numbered

LEMMA NumberedTypes == NumberedInv => TypeOK
<1> SUFFICES ASSUME NumberedInv PROVE TypeOK
  OBVIOUS
<1>1. ASSUME NEW e \in End
      PROVE  /\ sent[e] \in Nat /\ received[e] \in Seq(Nat) /\ peerAck[e] \in Number
             /\ resend[e] \in BOOLEAN /\ overflow[e] \in BOOLEAN
             /\ sequence[e] \in Number /\ ack[e] \in Number
             /\ construct[e] \in Seq(Chunk) /\ Len(construct[e]) <= PacketSize
             /\ buffer[e] \in Seq(Chunk) /\ Len(buffer[e]) <= BufferSize
             /\ unpacker[e] \in Seq(Chunk)
             /\ net[e] \in Seq(Packet) /\ Len(net[e]) <= MaxInFlight
  <2> DEFINE o == Other(e)
  <2>1. o \in End /\ Numbered(e) /\ Numbered(o)
    BY Ends DEF NumberedInv
  <2> HIDE DEF o
  <2>2. /\ sent[e] \in Nat /\ sequence[e] \in Number /\ ack[e] \in Number
        /\ sent[o] \in Nat /\ Len(received[o]) \in Nat
    BY <2>1, NumberedFacts
  <2>3. /\ construct[e] \in Seq(Genuine(sent[e])) /\ buffer[e] \in Seq(Genuine(sent[e]))
        /\ unpacker[e] \in Seq(Genuine(sent[o]))
        /\ net[e] \in Seq(UnderWay(Len(received[o]), sent[o]))
    BY <2>1, Zenon DEF Numbered, o
  <2>4. construct[e] \in Seq(Chunk) /\ buffer[e] \in Seq(Chunk) /\ unpacker[e] \in Seq(Chunk)
    BY <2>2, <2>3, GenuineType
  <2>5. net[e] \in Seq(Packet)
    BY <2>2, <2>3, UnderWayType
  <2> QED
    BY <2>1, <2>2, <2>4, <2>5, Zenon DEF Numbered
<1>2. Shape /\ faults \in 0..MaxFaults
  BY DEF NumberedInv
<1>3. {sequence, ack, peerAck} \subseteq [End -> Number]
  BY <1>1, <1>2 DEF Shape
<1>4. {buffer, construct, unpacker} \subseteq [End -> Seq(Chunk)]
  BY <1>1, <1>2 DEF Shape
<1>5. {resend, overflow} \subseteq [End -> BOOLEAN]
  <2>1. resend \in [End -> BOOLEAN] /\ overflow \in [End -> BOOLEAN]
    BY <1>1, <1>2, Zenon DEF Shape
  <2> QED
    BY <2>1
<1>6. net \in [End -> Seq(Packet)] /\ sent \in [End -> Nat] /\ received \in [End -> Seq(Nat)]
  BY <1>1, <1>2, Zenon DEF Shape
<1> QED
  BY <1>1, <1>2, <1>3, <1>4, <1>5, <1>6, Zenon DEF TypeOK

LEMMA NumberedInit == Init => NumberedInv
<1> SUFFICES ASSUME Init PROVE NumberedInv
  OBVIOUS
<1>1. Shape
  BY DEF Init, Shape
<1>2. faults \in 0..MaxFaults
  BY Sizes DEF Init
<1>3. ASSUME NEW e \in End PROVE Numbered(e)
  <2>1. Other(e) \in End
    BY Ends
  <2>2. \A d \in End : /\ sequence[d] = First /\ ack[d] = First /\ peerAck[d] = First
                       /\ buffer[d] = <<>> /\ construct[d] = <<>> /\ resend[d] = FALSE
                       /\ unpacker[d] = <<>> /\ net[d] = <<>> /\ sent[d] = 0
                       /\ received[d] = <<>> /\ overflow[d] = FALSE
    BY DEF Init
  <2>3. MaxSent(e) \in Nat
    BY ConnectionAssumption DEF MaxSent
  <2>4. \A S : <<>> \in Seq(S) /\ Len(<<>>) = 0
    BY EmptySeq
  <2>5. 0 \in 0..MaxSent(e) /\ 0 <= PacketSize /\ 0 <= BufferSize /\ 0 <= MaxInFlight
    BY <2>3, Sizes
  <2> QED
    BY <2>1, <2>2, <2>4, <2>5, NumFirst, Sizes, Zenon DEF Numbered
<1> QED
  BY <1>1, <1>2, <1>3 DEF NumberedInv

\* Chunks that are queued, sent again or flushed: what stays in construction
\* and what goes out is genuine.
LEMMA QueueChunkExKeeps ==
    ASSUME Shape, NEW e \in End, Numbered(e), NEW n \in Nat, sent[e] <= n,
           NEW cs \in Seq(Genuine(n)), QueueChunkEx(e, cs)
    PROVE  /\ construct' = [construct EXCEPT ![e] = construct'[e]]
           /\ construct'[e] \in Seq(Genuine(n)) /\ Len(construct'[e]) <= PacketSize
           /\ resend' = [resend EXCEPT ![e] = resend'[e]] /\ resend'[e] \in BOOLEAN
           /\ Flushed(e, construct[e] \o cs) \in Seq(UnderWay(Len(received[e]), n))
<1>1. construct[e] \in Seq(Genuine(n))
  <2>1. construct[e] \in Seq(Genuine(sent[e])) /\ sent[e] \in Nat
    BY NumberedFacts DEF Numbered
  <2> QED
    BY <2>1, GenuineGrows
<1>2. PICK all : all = construct[e] \o cs
  OBVIOUS
<1>3. all \in Seq(Genuine(n))
  BY <1>1, <1>2, ConcatProperties, Zenon
<1>4. Remaining(all) \in Seq(Genuine(n)) /\ Len(Remaining(all)) <= PacketSize
  BY <1>3, RemainingType
<1>5. /\ construct' = [construct EXCEPT ![e] = Remaining(all)]
      /\ resend' = [resend EXCEPT ![e] = @ /\ FullPackets(all) = 0]
  BY <1>2, Zenon DEF QueueChunkEx
<1>6. construct'[e] = Remaining(all) /\ resend'[e] = (resend[e] /\ FullPackets(all) = 0)
  BY <1>5, Zenon DEF Shape
<1>7. Flushed(e, all) \in Seq(UnderWay(Len(received[e]), n))
  <2>1. Len(received[e]) \in Nat /\ ack[e] = Num(Len(received[e])) /\ resend[e] \in BOOLEAN
    BY NumberedFacts DEF Numbered
  <2>2. Carries(UnderWay(Len(received[e]), n), ack[e], Len(received[e]), Genuine(n))
    BY <2>1, UnderWayCarries
  <2> QED
    BY <1>3, <2>1, <2>2, FlushedType
<1>8. resend'[e] \in BOOLEAN
  BY <1>6, Zenon
<1> QED
  BY <1>2, <1>4, <1>5, <1>6, <1>7, <1>8, Zenon

\* A step that leaves an end and what is under way to it alone.
LEMMA NumberedUnchanged ==
    ASSUME NEW e \in End, Numbered(e),
           /\ sent'[e] = sent[e] /\ received'[e] = received[e] /\ peerAck'[e] = peerAck[e]
           /\ resend'[e] = resend[e] /\ overflow'[e] = overflow[e]
           /\ sequence'[e] = sequence[e] /\ ack'[e] = ack[e] /\ construct'[e] = construct[e]
           /\ buffer'[e] = buffer[e] /\ unpacker'[e] = unpacker[e] /\ net'[e] = net[e]
           /\ sent'[Other(e)] = sent[Other(e)]
           /\ received'[Other(e)] = received[Other(e)]
    PROVE  Numbered(e)'
BY Zenon DEF Numbered

\* Genuine packets put on the way to an end leave genuine packets there.
LEMMA PutKeeps ==
    ASSUME NEW e \in End, Numbered(e), Numbered(Other(e)), NEW n \in Nat, sent[Other(e)] <= n,
           NEW packets \in Seq(UnderWay(Len(received[Other(e)]), n))
    PROVE  /\ Put(net[e], packets) \in Seq(UnderWay(Len(received[Other(e)]), n))
           /\ Len(Put(net[e], packets)) <= MaxInFlight
<1> DEFINE o == Other(e)
<1>1. o \in End /\ Numbered(o)
  BY Ends
<1>2. sent[o] \in Nat /\ Len(received[o]) \in Nat
  BY <1>1, NumberedFacts
<1>3. net[e] \in Seq(UnderWay(Len(received[o]), sent[o]))
  BY Zenon DEF Numbered
<1>4. net[e] \in Seq(UnderWay(Len(received[o]), n))
  BY <1>2, <1>3, UnderWayGrows
<1> QED
  BY <1>4, PutType

LEMMA QueueChunkNumbered ==
    ASSUME NumberedInv, NEW e \in End, QueueChunk(e)
    PROVE  NumberedInv'
<1> DEFINE n == sent[e] + 1
           chunk == [seq |-> (sequence[e] + 1) % MaxSequence, data |-> n]
           out == Flushed(e, construct[e] \o <<chunk>>)
<1>1. PICK o \in End : o = Other(e) /\ o # e /\ e = Other(o) /\ \A d \in End : d = e \/ d = o
  BY Ends
<1>2. Shape /\ Numbered(e) /\ Numbered(o) /\ faults \in 0..MaxFaults
  BY <1>1 DEF NumberedInv
<1>3. n \in Nat /\ sent[e] <= n /\ sent[e] \in Nat /\ n \in 0..MaxSent(e) /\ n \in 1..n
  BY <1>2, NumberedFacts DEF QueueChunk
<1>4. sequence[e] = Num(sent[e]) /\ (sequence[e] + 1) % MaxSequence = Num(n)
  BY <1>2, <1>3, NumNext DEF Numbered
<1>5. chunk \in Genuine(n)
  <2>1. Num(n) \in Number
    BY <1>3, NumType
  <2>2. chunk = [seq |-> Num(n), data |-> n]
    BY <1>4, Zenon
  <2>3. [seq |-> Num(n), data |-> n] \in Chunk
    BY <2>1, <1>3 DEF Chunk
  <2> QED
    BY <2>2, <2>3, <1>3 DEF Genuine
<1> HIDE DEF chunk
<1>6. <<chunk>> \in Seq(Genuine(n))
  BY <1>5
<1>7. /\ sent' = [sent EXCEPT ![e] = n]
      /\ sequence' = [sequence EXCEPT ![e] = Num(n)]
      /\ QueueChunkEx(e, <<chunk>>)
      /\ net' = [net EXCEPT ![o] = Put(net[o], out)]
      /\ buffer' = [buffer EXCEPT ![e] = IF Len(buffer[e]) < BufferSize
                                         THEN Append(buffer[e], chunk) ELSE buffer[e]]
      /\ overflow' = [overflow EXCEPT ![e] = overflow[e] \/ ~(Len(buffer[e]) < BufferSize)]
      /\ UNCHANGED <<ack, peerAck, unpacker, received, faults>>
  BY <1>1, <1>4, Zenon DEF QueueChunk, chunk
<1>8. /\ construct' = [construct EXCEPT ![e] = construct'[e]]
      /\ construct'[e] \in Seq(Genuine(n)) /\ Len(construct'[e]) <= PacketSize
      /\ resend' = [resend EXCEPT ![e] = resend'[e]] /\ resend'[e] \in BOOLEAN
      /\ out \in Seq(UnderWay(Len(received[e]), n))
  BY <1>2, <1>3, <1>6, <1>7, QueueChunkExKeeps
<1> HIDE DEF n, out
<1>9. Shape'
  BY <1>2, <1>7, <1>8, Zenon DEF Shape
<1>10. /\ sent'[e] = n /\ sent'[o] = sent[o]
       /\ sequence'[e] = Num(n) /\ sequence'[o] = sequence[o]
       /\ construct'[o] = construct[o] /\ resend'[o] = resend[o]
       /\ net'[e] = net[e] /\ net'[o] = Put(net[o], out)
       /\ buffer'[e] = (IF Len(buffer[e]) < BufferSize THEN Append(buffer[e], chunk) ELSE buffer[e])
       /\ buffer'[o] = buffer[o]
       /\ overflow'[e] = (overflow[e] \/ ~(Len(buffer[e]) < BufferSize)) /\ overflow'[o] = overflow[o]
       /\ UNCHANGED <<ack, peerAck, unpacker, received, faults>>
  BY <1>1, <1>2, <1>7, <1>8, Zenon DEF Shape
<1>11. Numbered(e)'
  <2>1. sent'[e] \in 0..MaxSent(e) /\ sequence'[e] = Num(sent'[e])
    BY <1>3, <1>10
  <2>2. buffer'[e] \in Seq(Genuine(sent'[e])) /\ Len(buffer'[e]) <= BufferSize
    <3>1. buffer[e] \in Seq(Genuine(sent[e])) /\ Len(buffer[e]) <= BufferSize /\ Len(buffer[e]) \in Nat
      BY <1>2, LenProperties DEF Numbered
    <3>2. buffer[e] \in Seq(Genuine(n))
      BY <3>1, <1>3, GenuineGrows
    <3>3. Append(buffer[e], chunk) \in Seq(Genuine(n)) /\ Len(Append(buffer[e], chunk)) = Len(buffer[e]) + 1
      BY <3>2, <1>5
    <3> QED
      BY <3>1, <3>2, <3>3, <1>10, Sizes
  <2>3. construct'[e] \in Seq(Genuine(sent'[e])) /\ Len(construct'[e]) <= PacketSize
    BY <1>8, <1>10, Zenon
  <2>4. overflow'[e] \in BOOLEAN /\ resend'[e] \in BOOLEAN
    BY <1>8, <1>10, Zenon
  <2> QED
    BY <1>1, <1>2, <1>10, <2>1, <2>2, <2>3, <2>4, Zenon DEF Numbered
<1>12. Numbered(o)'
  <2>1. unpacker[o] \in Seq(Genuine(n))
    <3>1. unpacker[o] \in Seq(Genuine(sent[e]))
      BY <1>1, <1>2, Zenon DEF Numbered
    <3> QED
      BY <3>1, <1>3, GenuineGrows
  <2>2. net'[o] \in Seq(UnderWay(Len(received[e]), n)) /\ Len(net'[o]) <= MaxInFlight
    BY <1>1, <1>2, <1>3, <1>8, <1>10, PutKeeps
  <2> QED
    BY <1>1, <1>2, <1>10, <2>1, <2>2, Zenon DEF Numbered
<1> QED
  BY <1>1, <1>2, <1>9, <1>10, <1>11, <1>12 DEF NumberedInv

\* A packet of chunks of an end, with its acknowledgement, is genuine.
LEMMA PacketKeeps ==
    ASSUME NEW e \in End, Numbered(e), Numbered(Other(e)), Len(net[e]) < MaxInFlight,
           NEW b \in BOOLEAN, NEW cs \in Seq(Genuine(sent[Other(e)])),
           NEW all, all = Append(net[e], [ack |-> ack[Other(e)], resend |-> b,
                                          taken |-> Len(received[Other(e)]), chunks |-> cs])
    PROVE  /\ all \in Seq(UnderWay(Len(received[Other(e)]), sent[Other(e)]))
           /\ Len(all) <= MaxInFlight
<1> DEFINE o == Other(e)
           P == UnderWay(Len(received[o]), sent[o])
           p == [ack |-> ack[o], resend |-> b, taken |-> Len(received[o]), chunks |-> cs]
<1>1. sent[o] \in Nat /\ Len(received[o]) \in Nat /\ ack[o] = Num(Len(received[o]))
  BY NumberedFacts, Ends DEF Numbered
<1>2. p \in P
  <2>1. Carries(P, Num(Len(received[o])), Len(received[o]), Genuine(sent[o]))
    BY <1>1, UnderWayCarries
  <2> QED
    BY <2>1, <1>1, Zenon DEF Carries
<1>3. net[e] \in Seq(P) /\ all = Append(net[e], p)
  BY Zenon DEF Numbered
<1>4. Len(net[e]) \in Nat
  BY <1>3, LenProperties
<1> HIDE DEF P, p
<1>5. all \in Seq(P) /\ Len(all) = Len(net[e]) + 1
  BY <1>2, <1>3
<1> QED
  BY <1>4, <1>5, Sizes DEF P

LEMMA FlushNumbered ==
    ASSUME NumberedInv, NEW e \in End, Flush(e)
    PROVE  NumberedInv'
<1>1. PICK o \in End : o = Other(e) /\ o # e /\ e = Other(o) /\ \A d \in End : d = e \/ d = o
  BY Ends
<1>2. Shape /\ Numbered(e) /\ Numbered(o) /\ faults \in 0..MaxFaults
  BY <1>1 DEF NumberedInv
<1>3. PICK all : all = Append(net[o], [ack |-> ack[e], resend |-> resend[e],
                                       taken |-> Len(received[e]), chunks |-> construct[e]])
  OBVIOUS
<1>4. /\ net' = [net EXCEPT ![o] = all]
      /\ construct' = [construct EXCEPT ![e] = <<>>]
      /\ resend' = [resend EXCEPT ![e] = FALSE]
      /\ UNCHANGED <<sequence, ack, peerAck, buffer, unpacker, faults, sent, received, overflow>>
  BY <1>1, <1>3, Zenon DEF Flush
<1>5. Shape'
  BY <1>2, <1>4, Zenon DEF Shape
<1>6. /\ net'[e] = net[e] /\ net'[o] = all
      /\ construct'[e] = <<>> /\ construct'[o] = construct[o]
      /\ resend'[e] = FALSE /\ resend'[o] = resend[o]
  BY <1>1, <1>2, <1>4, Zenon DEF Shape
<1>7. all \in Seq(UnderWay(Len(received[e]), sent[e])) /\ Len(all) <= MaxInFlight
  <2>1. Len(net[o]) < MaxInFlight
    BY <1>1 DEF Flush, HasRoom
  <2>2. resend[e] \in BOOLEAN /\ construct[e] \in Seq(Genuine(sent[e]))
    BY <1>2 DEF Numbered
  <2> QED
    BY <1>1, <1>2, <1>3, <2>1, <2>2, PacketKeeps
<1>8. <<>> \in Seq(Genuine(sent[e])) /\ Len(<<>>) <= PacketSize
  BY Sizes
<1>9. Numbered(e)'
  BY <1>1, <1>2, <1>4, <1>6, <1>8, Zenon DEF Numbered
<1>10. Numbered(o)'
  BY <1>1, <1>2, <1>4, <1>6, <1>7, Zenon DEF Numbered
<1> QED
  BY <1>1, <1>2, <1>4, <1>5, <1>9, <1>10 DEF NumberedInv

LEMMA KeepAliveNumbered ==
    ASSUME NumberedInv, NEW e \in End, KeepAlive(e)
    PROVE  NumberedInv'
<1>1. PICK o \in End : o = Other(e) /\ o # e /\ e = Other(o) /\ \A d \in End : d = e \/ d = o
  BY Ends
<1>2. Shape /\ Numbered(e) /\ Numbered(o) /\ faults \in 0..MaxFaults
  BY <1>1 DEF NumberedInv
<1>3. PICK all : all = Append(net[o], [ack |-> ack[e], resend |-> FALSE,
                                       taken |-> Len(received[e]), chunks |-> <<>>])
  OBVIOUS
<1>4. /\ net' = [net EXCEPT ![o] = all]
      /\ UNCHANGED <<ack, peerAck, unpacker, received, outgoing, faults>>
  BY <1>1, <1>3, Zenon DEF KeepAlive
<1>5. UNCHANGED <<sequence, ack, peerAck, buffer, construct, resend, unpacker, faults, sent,
                  received, overflow>>
  BY <1>4 DEF outgoing
<1>6. Shape'
  BY <1>2, <1>4, <1>5, Zenon DEF Shape
<1>7. net'[e] = net[e] /\ net'[o] = all
  BY <1>1, <1>2, <1>4, Zenon DEF Shape
<1>8. all \in Seq(UnderWay(Len(received[e]), sent[e])) /\ Len(all) <= MaxInFlight
  <2>1. Len(net[o]) < MaxInFlight
    BY <1>1 DEF KeepAlive, HasRoom
  <2>2. <<>> \in Seq(Genuine(sent[e])) /\ FALSE \in BOOLEAN
    OBVIOUS
  <2> QED
    BY <1>1, <1>2, <1>3, <2>1, <2>2, PacketKeeps
<1>9. Numbered(e)'
  BY <1>1, <1>2, <1>5, <1>7, Zenon DEF Numbered
<1>10. Numbered(o)'
  BY <1>1, <1>2, <1>5, <1>7, <1>8, Zenon DEF Numbered
<1> QED
  BY <1>1, <1>2, <1>5, <1>6, <1>9, <1>10 DEF NumberedInv

LEMMA ResendChunkNumbered ==
    ASSUME NumberedInv, NEW e \in End, ResendChunk(e)
    PROVE  NumberedInv'
<1> DEFINE cs == <<Head(buffer[e])>>
           out == Flushed(e, construct[e] \o cs)
<1>1. PICK o \in End : o = Other(e) /\ o # e /\ e = Other(o) /\ \A d \in End : d = e \/ d = o
  BY Ends
<1>2. Shape /\ Numbered(e) /\ Numbered(o) /\ faults \in 0..MaxFaults
  BY <1>1 DEF NumberedInv
<1>3. sent[e] \in Nat /\ sent[e] <= sent[e]
  BY <1>2, NumberedFacts
<1>4. cs \in Seq(Genuine(sent[e]))
  <2>1. buffer[e] \in Seq(Genuine(sent[e])) /\ buffer[e] # <<>>
    BY <1>2 DEF Numbered, ResendChunk
  <2>2. Head(buffer[e]) \in Genuine(sent[e])
    BY <2>1, HeadTailProperties
  <2> QED
    BY <2>2
<1> HIDE DEF cs
<1>5. /\ QueueChunkEx(e, cs)
      /\ net' = [net EXCEPT ![o] = Put(net[o], out)]
      /\ UNCHANGED <<sequence, ack, peerAck, buffer, unpacker, faults, sent, received, overflow>>
  BY <1>1, Zenon DEF ResendChunk, cs
<1>6. /\ construct' = [construct EXCEPT ![e] = construct'[e]]
      /\ construct'[e] \in Seq(Genuine(sent[e])) /\ Len(construct'[e]) <= PacketSize
      /\ resend' = [resend EXCEPT ![e] = resend'[e]] /\ resend'[e] \in BOOLEAN
      /\ out \in Seq(UnderWay(Len(received[e]), sent[e]))
  BY <1>2, <1>3, <1>4, <1>5, QueueChunkExKeeps
<1> HIDE DEF out
<1>7. Shape'
  BY <1>2, <1>5, <1>6, Zenon DEF Shape
<1>8. /\ net'[e] = net[e] /\ net'[o] = Put(net[o], out)
      /\ construct'[o] = construct[o] /\ resend'[o] = resend[o]
  BY <1>1, <1>2, <1>5, <1>6, Zenon DEF Shape
<1>9. net'[o] \in Seq(UnderWay(Len(received[e]), sent[e])) /\ Len(net'[o]) <= MaxInFlight
  BY <1>1, <1>2, <1>3, <1>6, <1>8, PutKeeps
<1>10. Numbered(e)'
  BY <1>1, <1>2, <1>5, <1>6, <1>8, Zenon DEF Numbered
<1>11. Numbered(o)'
  BY <1>1, <1>2, <1>5, <1>8, <1>9, Zenon DEF Numbered
<1> QED
  BY <1>1, <1>2, <1>5, <1>7, <1>10, <1>11 DEF NumberedInv

LEMMA FetchChunkNumbered ==
    ASSUME NumberedInv, NEW e \in End, FetchChunk(e)
    PROVE  NumberedInv'
<1> DEFINE chunk == Head(unpacker[e])
           next == chunk.seq = (ack[e] + 1) % MaxSequence
           old == InBackroom(chunk.seq, ack[e])
<1>1. PICK o \in End : o = Other(e) /\ o # e /\ e = Other(o) /\ \A d \in End : d = e \/ d = o
  BY Ends
<1>2. Shape /\ Numbered(e) /\ Numbered(o) /\ faults \in 0..MaxFaults
  BY <1>1 DEF NumberedInv
<1>3. /\ unpacker[e] # <<>>
      /\ unpacker' = [unpacker EXCEPT ![e] = Tail(unpacker[e])]
      /\ ack' = [ack EXCEPT ![e] = IF next THEN chunk.seq ELSE ack[e]]
      /\ received' = [received EXCEPT ![e] = IF next THEN Append(received[e], chunk.data)
                                             ELSE received[e]]
      /\ resend' = [resend EXCEPT ![e] = resend[e] \/ (~next /\ ~old)]
      /\ UNCHANGED <<sequence, peerAck, buffer, construct, sent, overflow, net, faults>>
  BY Zenon DEF FetchChunk, network
<1>4. unpacker[e] \in Seq(Genuine(sent[o])) /\ received[e] \in Seq(Nat) /\ Len(received[e]) \in Nat
      /\ ack[e] = Num(Len(received[e]))
  BY <1>1, <1>2, NumberedFacts DEF Numbered
<1>5. chunk \in Genuine(sent[o]) /\ Tail(unpacker[e]) \in Seq(Genuine(sent[o]))
  BY <1>3, <1>4, HeadTailProperties
<1> HIDE DEF chunk, old
<1>6. chunk.data \in Nat
  BY <1>5 DEF Genuine, Chunk
<1> DEFINE r == IF next THEN Append(received[e], chunk.data) ELSE received[e]
<1>7. /\ r \in Seq(Nat) /\ Len(r) \in Nat /\ Len(received[e]) <= Len(r)
      /\ (IF next THEN chunk.seq ELSE ack[e]) = Num(Len(r))
  <2>1. CASE next
    <3>1. Append(received[e], chunk.data) \in Seq(Nat)
          /\ Len(Append(received[e], chunk.data)) = Len(received[e]) + 1
      BY <1>4, <1>6
    <3>2. (ack[e] + 1) % MaxSequence = Num(Len(received[e]) + 1)
      BY <1>4, NumNext
    <3>3. r = Append(received[e], chunk.data) /\ chunk.seq = (ack[e] + 1) % MaxSequence
      BY <2>1
    <3> HIDE DEF r, next
    <3>4. chunk.seq = Num(Len(r))
      BY <3>1, <3>2, <3>3, Zenon
    <3> QED
      BY <2>1, <3>1, <3>3, <3>4, <1>4
  <2>2. CASE ~next
    BY <2>2, <1>4
  <2> QED
    BY <2>1, <2>2
<1> DEFINE b == resend[e] \/ (~next /\ ~old)
<1>8. b \in BOOLEAN
  OBVIOUS
<1>9. /\ unpacker' = [unpacker EXCEPT ![e] = Tail(unpacker[e])]
      /\ ack' = [ack EXCEPT ![e] = IF next THEN chunk.seq ELSE ack[e]]
      /\ received' = [received EXCEPT ![e] = r]
      /\ resend' = [resend EXCEPT ![e] = b]
  BY <1>3, Zenon
<1> HIDE DEF r, b, next
<1>10. Shape'
  BY <1>2, <1>3, <1>9, Zenon DEF Shape
<1>11. /\ unpacker'[e] = Tail(unpacker[e]) /\ unpacker'[o] = unpacker[o]
       /\ ack'[e] = Num(Len(r)) /\ ack'[o] = ack[o]
       /\ received'[e] = r /\ received'[o] = received[o]
       /\ resend'[e] = b /\ resend'[o] = resend[o]
  BY <1>1, <1>2, <1>7, <1>9, Zenon DEF Shape
<1>12. Numbered(e)'
  BY <1>1, <1>2, <1>3, <1>5, <1>7, <1>8, <1>11, Zenon DEF Numbered
<1>13. net[o] \in Seq(UnderWay(Len(r), sent[e]))
  <2>1. net[o] \in Seq(UnderWay(Len(received[e]), sent[e]))
    BY <1>1, <1>2, Zenon DEF Numbered
  <2>2. sent[e] \in Nat /\ sent[e] <= sent[e]
    BY <1>2, NumberedFacts
  <2> QED
    BY <2>1, <2>2, <1>4, <1>7, UnderWayGrows
<1>14. Numbered(o)'
  BY <1>1, <1>2, <1>3, <1>11, <1>13, Zenon DEF Numbered
<1> QED
  BY <1>1, <1>2, <1>3, <1>10, <1>12, <1>14 DEF NumberedInv

\* AckChunks leaves what follows the longest run of chunks at the head of the
\* buffer that are in the half of the numbers it closes.
LEMMA AckChunksSuffix ==
    ASSUME NEW S, NEW b \in Seq(S), NEW a
    PROVE  \E from \in 1..(Len(b) + 1) :
              /\ AckChunks(b, a) = SubSeq(b, from, Len(b))
              /\ \A i \in 1..(from - 1) : InBackroom(b[i].seq, a)
              /\ from <= Len(b) => ~InBackroom(b[from].seq, a)
<1> DEFINE kept == {i \in 1..Len(b) : ~InBackroom(b[i].seq, a)}
           from == IF kept = {} THEN Len(b) + 1
                   ELSE CHOOSE i \in kept : \A j \in kept : i <= j
<1>0. Len(b) \in Nat
  BY LenProperties
<1>1. AckChunks(b, a) = SubSeq(b, from, Len(b))
  BY Zenon DEF AckChunks
<1>2. \A i \in 1..Len(b) : i \in kept <=> ~InBackroom(b[i].seq, a)
  BY Zenon
<1>3. kept \subseteq 1..Len(b)
  BY Zenon
<1>4. CASE kept = {}
  <2>1. from = Len(b) + 1
    BY <1>4, Zenon
  <2> HIDE DEF from
  <2>2. \A i \in 1..(from - 1) : i \in 1..Len(b)
    BY <2>1, <1>0
  <2>3. from \in 1..(Len(b) + 1) /\ ~(from <= Len(b))
    BY <2>1, <1>0
  <2>4. \A i \in 1..(from - 1) : InBackroom(b[i].seq, a)
    <3> HIDE DEF kept
    <3> QED
      BY <2>2, <1>2, <1>4, Zenon
  <2> QED
    BY <2>3, <2>4, <1>1, Zenon
<1>5. CASE kept # {}
  <2>1. \E i \in kept : \A j \in kept : i <= j
    <3> HIDE DEF kept
    <3>1. kept \in SUBSET Nat
      BY <1>3, <1>0
    <3> QED
      BY <3>1, <1>5, Smallest
  <2>2. from \in kept /\ \A j \in kept : from <= j
    <3> HIDE DEF kept
    <3> QED
      BY <2>1, <1>5, Zenon
  <2> HIDE DEF from, kept
  <2>3. from \in 1..(Len(b) + 1) /\ from \in 1..Len(b)
    BY <2>2, <1>3, <1>0
  <2>4. ASSUME NEW i \in 1..(from - 1) PROVE InBackroom(b[i].seq, a)
    <3>1. i \in 1..Len(b) /\ ~(from <= i)
      BY <2>3, <1>0
    <3> QED
      BY <3>1, <2>2, <1>2, Zenon
  <2>5. ~InBackroom(b[from].seq, a)
    BY <2>2, <2>3, <1>2, Zenon
  <2> QED
    BY <2>3, <2>4, <2>5, <1>1, Zenon
<1> QED
  BY <1>4, <1>5

LEMMA AckChunksType ==
    ASSUME NEW S, NEW b \in Seq(S), NEW a
    PROVE  AckChunks(b, a) \in Seq(S) /\ Len(AckChunks(b, a)) <= Len(b)
<1>1. PICK from \in 1..(Len(b) + 1) : AckChunks(b, a) = SubSeq(b, from, Len(b))
  BY AckChunksSuffix
<1>2. Len(b) \in Nat
  BY LenProperties
<1>3. from \in Nat \ {0} /\ Len(b) \in 0..Len(b)
  BY <1>2
<1>4. /\ SubSeq(b, from, Len(b)) \in Seq(S)
      /\ Len(SubSeq(b, from, Len(b))) = IF from <= Len(b) THEN Len(b) - from + 1 ELSE 0
  BY <1>3, SubSeqType
<1>5. Len(SubSeq(b, from, Len(b))) <= Len(b)
  BY <1>2, <1>3, <1>4
<1> QED
  BY <1>1, <1>4, <1>5, Zenon

\* The packet that is fed, and what stays under way.
LEMMA FedPacket ==
    ASSUME NEW e \in End, Numbered(e), NEW i \in 1..Len(net[e])
    PROVE  /\ net[e][i] \in UnderWay(Len(received[Other(e)]), sent[Other(e)])
           /\ RemoveAt(net[e], i) \in Seq(UnderWay(Len(received[Other(e)]), sent[Other(e)]))
           /\ Len(RemoveAt(net[e], i)) <= MaxInFlight
<1>1. PICK P : P = UnderWay(Len(received[Other(e)]), sent[Other(e)])
  OBVIOUS
<1>2. net[e] \in Seq(P) /\ Len(net[e]) <= MaxInFlight
  BY <1>1, Zenon DEF Numbered
<1>3. net[e][i] \in P /\ RemoveAt(net[e], i) \in Seq(P) /\ Len(RemoveAt(net[e], i)) = Len(net[e]) - 1
  BY <1>2, ElementOfSeq, RemoveAtType
<1>4. Len(net[e]) \in Nat
  BY <1>2, LenProperties
<1>5. Len(RemoveAt(net[e], i)) <= MaxInFlight
  BY <1>2, <1>3, <1>4, Sizes
<1> QED
  BY <1>1, <1>3, <1>5, Zenon

LEMMA LoseNumbered ==
    ASSUME NumberedInv, NEW e \in End, Lose(e)
    PROVE  NumberedInv'
<1>1. PICK o \in End : o = Other(e) /\ o # e /\ e = Other(o) /\ \A d \in End : d = e \/ d = o
  BY Ends
<1>2. Shape /\ Numbered(e) /\ Numbered(o) /\ faults \in 0..MaxFaults
  BY <1>1 DEF NumberedInv
<1>3. PICK i \in 1..Len(net[e]) : net' = [net EXCEPT ![e] = RemoveAt(net[e], i)]
  BY DEF Lose
<1>4. /\ UNCHANGED <<sequence, ack, peerAck, buffer, construct, resend, unpacker, sent,
                     received, overflow>>
      /\ faults < MaxFaults /\ faults' = faults + 1
  BY DEF Lose, outgoing
<1>5. faults' \in 0..MaxFaults
  BY <1>2, <1>4, Sizes
<1>6. Shape'
  BY <1>2, <1>3, <1>4, Zenon DEF Shape
<1>7. net'[e] = RemoveAt(net[e], i) /\ net'[o] = net[o]
  BY <1>1, <1>2, <1>3, Zenon DEF Shape
<1>8. RemoveAt(net[e], i) \in Seq(UnderWay(Len(received[o]), sent[o]))
      /\ Len(RemoveAt(net[e], i)) <= MaxInFlight
  BY <1>1, <1>2, FedPacket
<1>9. Numbered(e)'
  BY <1>1, <1>2, <1>4, <1>7, <1>8, Zenon DEF Numbered
<1>10. Numbered(o)'
  BY <1>1, <1>2, <1>4, <1>7, Zenon DEF Numbered
<1> QED
  BY <1>1, <1>5, <1>6, <1>9, <1>10 DEF NumberedInv

\* What Feed does to each end, in one place: "p" is the packet, "left" what
\* stays under way, "again" what is sent again.
Fed(e, o, p, left, again) ==
    /\ p \in UnderWay(Len(received[o]), sent[o])
    /\ left \in Seq(UnderWay(Len(received[o]), sent[o])) /\ Len(left) <= MaxInFlight
    /\ again \in Seq(Genuine(sent[e]))
    /\ net'[e] = left
    /\ net'[o] = Put(net[o], Flushed(e, construct[e] \o again))
    /\ net' = [d \in End |-> net'[d]]
    /\ QueueChunkEx(e, again)
    /\ peerAck' = [peerAck EXCEPT ![e] = IF ValidAck(e, p.ack) THEN p.ack ELSE peerAck[e]]
    /\ buffer' = [buffer EXCEPT ![e] = IF ValidAck(e, p.ack) THEN AckChunks(buffer[e], p.ack)
                                       ELSE buffer[e]]
    /\ unpacker' = [unpacker EXCEPT ![e] = IF ValidAck(e, p.ack) THEN p.chunks
                                           ELSE unpacker[e]]
    /\ UNCHANGED <<sequence, ack, sent, received, overflow>>

LEMMA FeedIsFed ==
    ASSUME NumberedInv, NEW e \in End, Feed(e)
    PROVE  /\ \E i \in 1..Len(net[e]) : \E left, again : Fed(e, Other(e), net[e][i], left, again)
           /\ faults' \in 0..MaxFaults
<1>1. PICK o \in End : o = Other(e) /\ o # e /\ e = Other(o) /\ \A d \in End : d = e \/ d = o
  BY Ends
<1>2. Shape /\ Numbered(e) /\ Numbered(o) /\ faults \in 0..MaxFaults
  BY <1>1 DEF NumberedInv
<1>3. PICK i \in 1..Len(net[e]), repeated \in BOOLEAN :
        LET p == net[e][i]
            left == IF repeated THEN net[e] ELSE RemoveAt(net[e], i)
            valid == ValidAck(e, p.ack)
            again == IF valid /\ p.resend THEN buffer[e] ELSE <<>>
        IN
        /\ unpacker[e] = <<>>
        /\ faults' = faults + (IF i > 1 THEN 1 ELSE 0) + (IF repeated THEN 1 ELSE 0)
        /\ faults' <= MaxFaults
        /\ net' = [net EXCEPT ![e] = left,
                              ![Other(e)] = Put(@, Flushed(e, construct[e] \o again))]
        /\ QueueChunkEx(e, again)
        /\ IF valid
           THEN /\ peerAck' = [peerAck EXCEPT ![e] = p.ack]
                /\ buffer' = [buffer EXCEPT ![e] = AckChunks(@, p.ack)]
                /\ unpacker' = [unpacker EXCEPT ![e] = p.chunks]
           ELSE UNCHANGED <<peerAck, buffer, unpacker>>
        /\ UNCHANGED <<sequence, ack, sent, received, overflow>>
  BY Zenon DEF Feed
<1>4. PICK p : p = net[e][i]
  OBVIOUS
<1>5. PICK left : left = IF repeated THEN net[e] ELSE RemoveAt(net[e], i)
  OBVIOUS
<1>6. PICK again : again = IF ValidAck(e, p.ack) /\ p.resend THEN buffer[e] ELSE <<>>
  OBVIOUS
<1>7. /\ faults' = faults + (IF i > 1 THEN 1 ELSE 0) + (IF repeated THEN 1 ELSE 0)
      /\ faults' <= MaxFaults
      /\ net' = [net EXCEPT ![e] = left, ![o] = Put(@, Flushed(e, construct[e] \o again))]
      /\ QueueChunkEx(e, again)
      /\ IF ValidAck(e, p.ack)
         THEN /\ peerAck' = [peerAck EXCEPT ![e] = p.ack]
              /\ buffer' = [buffer EXCEPT ![e] = AckChunks(@, p.ack)]
              /\ unpacker' = [unpacker EXCEPT ![e] = p.chunks]
         ELSE UNCHANGED <<peerAck, buffer, unpacker>>
      /\ UNCHANGED <<sequence, ack, sent, received, overflow>>
  BY <1>1, <1>3, <1>4, <1>5, <1>6, Zenon
<1>8. faults' \in 0..MaxFaults
  BY <1>2, <1>7, Sizes
<1>9. /\ p \in UnderWay(Len(received[o]), sent[o])
      /\ left \in Seq(UnderWay(Len(received[o]), sent[o])) /\ Len(left) <= MaxInFlight
  <2>1. /\ net[e] \in Seq(UnderWay(Len(received[o]), sent[o])) /\ Len(net[e]) <= MaxInFlight
    BY <1>1, <1>2, Zenon DEF Numbered
  <2>2. /\ net[e][i] \in UnderWay(Len(received[o]), sent[o])
        /\ RemoveAt(net[e], i) \in Seq(UnderWay(Len(received[o]), sent[o]))
        /\ Len(RemoveAt(net[e], i)) <= MaxInFlight
    BY <1>1, <1>2, FedPacket
  <2> QED
    BY <2>1, <2>2, <1>4, <1>5, Zenon
<1>10. again \in Seq(Genuine(sent[e]))
  <2>1. buffer[e] \in Seq(Genuine(sent[e])) /\ <<>> \in Seq(Genuine(sent[e]))
    BY <1>2 DEF Numbered
  <2> QED
    BY <2>1, <1>6, Zenon
<1>11. /\ net'[e] = left
       /\ net'[o] = Put(net[o], Flushed(e, construct[e] \o again))
       /\ net' = [d \in End |-> net'[d]]
  BY <1>1, <1>2, <1>7, Zenon DEF Shape
<1>12. /\ peerAck' = [peerAck EXCEPT ![e] = IF ValidAck(e, p.ack) THEN p.ack ELSE peerAck[e]]
       /\ buffer' = [buffer EXCEPT ![e] = IF ValidAck(e, p.ack) THEN AckChunks(buffer[e], p.ack)
                                          ELSE buffer[e]]
       /\ unpacker' = [unpacker EXCEPT ![e] = IF ValidAck(e, p.ack) THEN p.chunks
                                              ELSE unpacker[e]]
  <2>1. CASE ValidAck(e, p.ack)
    BY <2>1, <1>7, Zenon
  <2>2. CASE ~ValidAck(e, p.ack)
    <3>1. peerAck' = peerAck /\ buffer' = buffer /\ unpacker' = unpacker
      BY <2>2, <1>7, Zenon
    <3> QED
      BY <2>2, <3>1, <1>2, Zenon DEF Shape
  <2> QED
    BY <2>1, <2>2
<1>13. Fed(e, o, p, left, again)
  BY <1>7, <1>9, <1>10, <1>11, <1>12, Zenon DEF Fed
<1> QED
  BY <1>1, <1>4, <1>8, <1>13, Zenon

LEMMA FeedNumbered ==
    ASSUME NumberedInv, NEW e \in End, Feed(e)
    PROVE  NumberedInv'
<1>1. PICK o \in End : o = Other(e) /\ o # e /\ e = Other(o) /\ \A d \in End : d = e \/ d = o
  BY Ends
<1>2. Shape /\ Numbered(e) /\ Numbered(o) /\ faults \in 0..MaxFaults
  BY <1>1 DEF NumberedInv
<1>3. PICK p, left, again : Fed(e, o, p, left, again)
  BY <1>1, FeedIsFed, Zenon
<1>4. faults' \in 0..MaxFaults
  BY FeedIsFed
<1> DEFINE out == Flushed(e, construct[e] \o again)
           b == IF ValidAck(e, p.ack) THEN AckChunks(buffer[e], p.ack) ELSE buffer[e]
           u == IF ValidAck(e, p.ack) THEN p.chunks ELSE unpacker[e]
           a == IF ValidAck(e, p.ack) THEN p.ack ELSE peerAck[e]
<1>5. /\ p \in UnderWay(Len(received[o]), sent[o])
      /\ left \in Seq(UnderWay(Len(received[o]), sent[o])) /\ Len(left) <= MaxInFlight
      /\ again \in Seq(Genuine(sent[e]))
      /\ net'[e] = left /\ net'[o] = Put(net[o], out) /\ net' = [d \in End |-> net'[d]]
      /\ QueueChunkEx(e, again)
      /\ peerAck' = [peerAck EXCEPT ![e] = a]
      /\ buffer' = [buffer EXCEPT ![e] = b]
      /\ unpacker' = [unpacker EXCEPT ![e] = u]
      /\ UNCHANGED <<sequence, ack, sent, received, overflow>>
  BY <1>3, Zenon DEF Fed
<1>6. sent[e] \in Nat /\ sent[e] <= sent[e]
  BY <1>2, NumberedFacts
<1>7. /\ construct' = [construct EXCEPT ![e] = construct'[e]]
      /\ construct'[e] \in Seq(Genuine(sent[e])) /\ Len(construct'[e]) <= PacketSize
      /\ resend' = [resend EXCEPT ![e] = resend'[e]] /\ resend'[e] \in BOOLEAN
      /\ out \in Seq(UnderWay(Len(received[e]), sent[e]))
  BY <1>2, <1>5, <1>6, QueueChunkExKeeps
<1>8. p.ack \in Number /\ p.chunks \in Seq(Genuine(sent[o]))
  BY <1>5 DEF UnderWay, Packet
<1>9. a \in Number /\ u \in Seq(Genuine(sent[o]))
  <2>1. peerAck[e] \in Number /\ unpacker[e] \in Seq(Genuine(sent[o]))
    BY <1>1, <1>2, Zenon DEF Numbered
  <2> QED
    BY <2>1, <1>8, Zenon
<1>10. b \in Seq(Genuine(sent[e])) /\ Len(b) <= BufferSize
  <2>1. buffer[e] \in Seq(Genuine(sent[e])) /\ Len(buffer[e]) <= BufferSize
    BY <1>2 DEF Numbered
  <2>2. PICK kept : kept = AckChunks(buffer[e], p.ack)
    OBVIOUS
  <2>3. kept \in Seq(Genuine(sent[e])) /\ Len(kept) <= Len(buffer[e])
    BY <2>1, <2>2, AckChunksType
  <2>4. Len(kept) \in Nat /\ Len(buffer[e]) \in Nat
    BY <2>1, <2>3, LenProperties
  <2>5. Len(kept) <= BufferSize
    BY <2>1, <2>3, <2>4, Sizes
  <2> QED
    BY <2>1, <2>2, <2>3, <2>5, Zenon
<1> HIDE DEF out, a, b, u
<1>11. Shape'
  BY <1>2, <1>5, <1>7, Zenon DEF Shape
<1>12. /\ construct'[o] = construct[o] /\ resend'[o] = resend[o]
       /\ peerAck'[e] = a /\ peerAck'[o] = peerAck[o]
       /\ buffer'[e] = b /\ buffer'[o] = buffer[o]
       /\ unpacker'[e] = u /\ unpacker'[o] = unpacker[o]
  BY <1>1, <1>2, <1>5, <1>7, Zenon DEF Shape
<1>13. net'[o] \in Seq(UnderWay(Len(received[e]), sent[e])) /\ Len(net'[o]) <= MaxInFlight
  <2>1. /\ Numbered(Other(o)) /\ sent[Other(o)] <= sent[e]
        /\ out \in Seq(UnderWay(Len(received[Other(o)]), sent[e]))
    BY <1>1, <1>2, <1>6, <1>7, Zenon
  <2>2. /\ Put(net[o], out) \in Seq(UnderWay(Len(received[Other(o)]), sent[e]))
        /\ Len(Put(net[o], out)) <= MaxInFlight
    BY ONLY <2>1, <1>2, <1>6, PutKeeps, Zenon
  <2> QED
    BY <2>2, <1>1, <1>5, Zenon
<1>14. Numbered(e)'
  BY <1>1, <1>2, <1>5, <1>7, <1>9, <1>10, <1>12, Zenon DEF Numbered
<1>15. Numbered(o)'
  BY <1>1, <1>2, <1>5, <1>12, <1>13, Zenon DEF Numbered
<1> QED
  BY <1>1, <1>4, <1>11, <1>14, <1>15 DEF NumberedInv

LEMMA NumberedStep == NumberedInv /\ [Next]_vars => NumberedInv'
<1> SUFFICES ASSUME NumberedInv, [Next]_vars PROVE NumberedInv'
  OBVIOUS
<1>1. CASE UNCHANGED vars
  <2>1. UNCHANGED <<sequence, ack, peerAck, buffer, construct, resend, unpacker, net, faults,
                    sent, received, overflow>>
    BY <1>1 DEF vars, outgoing, network
  <2>2. \A e \in End : Numbered(e)' <=> Numbered(e)
    BY <2>1, Zenon DEF Numbered
  <2> QED
    BY <2>1, <2>2, Zenon DEF NumberedInv, Shape
<1>2. ASSUME NEW e \in End, EndNext(e) \/ Lose(e) PROVE NumberedInv'
  BY <1>2, QueueChunkNumbered, FlushNumbered, ResendChunkNumbered, KeepAliveNumbered,
     FeedNumbered, FetchChunkNumbered, LoseNumbered, Zenon DEF EndNext
<1> QED
  BY <1>1, <1>2, Zenon DEF Next

LEMMA NumberedHolds == Spec => []NumberedInv
  BY NumberedInit, NumberedStep, PTL DEF Spec

\* The numbers, buffers, packets and histories of both ends keep their types,
\* whatever the network does.
THEOREM TypeCorrect == Spec => []TypeOK
  BY NumberedHolds, NumberedTypes, PTL
-----------------------------------------------------------------------------
(***************************************************************************)
(* What the numbers are good for: as long as nothing under way is a turn   *)
(* of the numbers old, they stand for the chunks they were given to.       *)
(***************************************************************************)

\* How many chunks of an end its peer has taken, and how many the end knows of.
Taken(e) == Len(received[Other(e)])

Acked(e) == sent[e] - Len(buffer[e])

\* The network and the peer's unpacker hold nothing that is a whole turn of the
\* sequence numbers old: an acknowledgement, or a chunk still to fetch.  The
\* protocol has no other protection against a packet of an earlier turn.
Recent ==
    \A e \in End :
        /\ \A i \in 1..Len(net[e]) : sent[e] < net[e][i].taken + MaxSequence
        /\ \A i \in 1..Len(unpacker[e]) :
               sent[Other(e)] + 1 < unpacker[e][i].data + MaxSequence

\* An end and its peer are in step: what is acknowledged was taken, what was
\* taken was sent, and the buffer holds what is not acknowledged, in order.
InStep(e) ==
    /\ Len(buffer[e]) <= sent[e]
    /\ Acked(e) <= Taken(e) /\ Taken(e) <= sent[e]
    /\ peerAck[e] = Num(Acked(e))
    /\ \A i \in 1..Len(buffer[e]) : buffer[e][i].data = Acked(e) + i

InStepInv == \A e \in End : overflow[e] \/ InStep(e)

LEMMA InStepInit == Init => InStepInv
<1> SUFFICES ASSUME Init, NEW e \in End PROVE InStep(e)
  BY DEF InStepInv
<1>1. /\ sent[e] = 0 /\ buffer[e] = <<>> /\ received[Other(e)] = <<>> /\ peerAck[e] = First
  BY Ends DEF Init
<1>2. Len(buffer[e]) = 0 /\ Acked(e) = 0 /\ Taken(e) = 0 /\ sent[e] = 0
  <2>1. Len(buffer[e]) = 0
    BY <1>1
  <2>2. Taken(e) = 0
    BY <1>1 DEF Taken
  <2>3. Acked(e) = 0
    <3>1. sent[e] = 0
      BY <1>1
    <3> QED
      BY ONLY <2>1, <3>1 DEF Acked
  <2> QED
    BY <1>1, <2>1, <2>2, <2>3
<1>3. peerAck[e] = Num(Acked(e))
  BY <1>1, <1>2, NumFirst, Zenon
<1> QED
  BY <1>2, <1>3 DEF InStep

\* Less than half the numbers apart, IsSeqInBackroom tells which is older.
LEMMA BackroomOlder ==
    ASSUME NEW m \in Nat, NEW n \in Nat, m <= n, n - m < MaxSequence \div 2
    PROVE  InBackroom(Num(m), Num(n))
<1>1. n - m \in 0..(MaxSequence - 1) /\ m + (n - m) = n
  BY Sizes
<1>2. Num(m + (n - m)) = IF Num(m) + (n - m) < MaxSequence THEN Num(m) + (n - m)
                         ELSE Num(m) + (n - m) - MaxSequence
  BY <1>1, NumShift
<1>3. Num(m) \in Number /\ Num(n) \in Number
  BY NumType
<1>4. PICK half, x, y : half = MaxSequence \div 2 /\ x = Num(m) /\ y = Num(n)
  OBVIOUS
<1>5. /\ half \in Nat /\ 2 * half <= MaxSequence /\ MaxSequence \in Nat
      /\ x \in Nat /\ y \in Nat /\ x < MaxSequence /\ y < MaxSequence
      /\ n - m \in Nat /\ n - m < half
      /\ y = IF x + (n - m) < MaxSequence THEN x + (n - m) ELSE x + (n - m) - MaxSequence
  BY <1>1, <1>2, <1>3, <1>4, Sizes DEF Number
<1>6. IF y < half THEN x <= y \/ x >= y + MaxSequence - half
      ELSE x <= y /\ x >= y - half
  BY <1>5
<1> QED
  BY <1>4, <1>6 DEF InBackroom

LEMMA BackroomNewer ==
    ASSUME NEW m \in Nat, NEW n \in Nat, m < n, n - m < MaxSequence \div 2
    PROVE  ~InBackroom(Num(n), Num(m))
<1>1. n - m \in 0..(MaxSequence - 1) /\ m + (n - m) = n
  BY Sizes
<1>2. Num(m + (n - m)) = IF Num(m) + (n - m) < MaxSequence THEN Num(m) + (n - m)
                         ELSE Num(m) + (n - m) - MaxSequence
  BY <1>1, NumShift
<1>3. Num(m) \in Number /\ Num(n) \in Number
  BY NumType
<1>4. PICK half, x, y : half = MaxSequence \div 2 /\ x = Num(m) /\ y = Num(n)
  OBVIOUS
<1>5. /\ half \in Nat /\ 2 * half <= MaxSequence /\ MaxSequence \in Nat
      /\ x \in Nat /\ y \in Nat /\ x < MaxSequence /\ y < MaxSequence
      /\ n - m \in Nat /\ 0 < n - m /\ n - m < half
      /\ y = IF x + (n - m) < MaxSequence THEN x + (n - m) ELSE x + (n - m) - MaxSequence
  BY <1>1, <1>2, <1>3, <1>4, Sizes DEF Number
<1>6. ~(IF x < half THEN y <= x \/ y >= x + MaxSequence - half
        ELSE y <= x /\ y >= x - half)
  BY <1>5
<1> QED
  BY <1>4, <1>6 DEF InBackroom

\* An acknowledgement that Feed accepts is not older than the last one ...
LEMMA ValidIsNew ==
    ASSUME NEW e \in End, NEW a \in Nat, NEW p \in Nat, NEW s \in Nat,
           peerAck[e] = Num(p), sequence[e] = Num(s),
           p <= s, s < a + MaxSequence, ValidAck(e, Num(a))
    PROVE  p <= a
<1> SUFFICES ASSUME a < p PROVE FALSE
  OBVIOUS
<1>1. /\ p - a \in 0..(MaxSequence - 1) /\ a + (p - a) = p
      /\ s - a \in 0..(MaxSequence - 1) /\ a + (s - a) = s
  BY Sizes
<1>2. Num(a + (p - a)) = IF Num(a) + (p - a) < MaxSequence THEN Num(a) + (p - a)
                         ELSE Num(a) + (p - a) - MaxSequence
  BY <1>1, NumShift
<1>3. Num(a + (s - a)) = IF Num(a) + (s - a) < MaxSequence THEN Num(a) + (s - a)
                         ELSE Num(a) + (s - a) - MaxSequence
  BY <1>1, NumShift
<1>4. Num(a) \in Number
  BY NumType
<1>5. PICK x, y, z : x = Num(a) /\ y = Num(p) /\ z = Num(s)
  OBVIOUS
<1>6. /\ MaxSequence \in Nat /\ x \in Nat /\ x < MaxSequence
      /\ y = IF x + (p - a) < MaxSequence THEN x + (p - a) ELSE x + (p - a) - MaxSequence
      /\ z = IF x + (s - a) < MaxSequence THEN x + (s - a) ELSE x + (s - a) - MaxSequence
  BY <1>1, <1>2, <1>3, <1>4, <1>5, Sizes DEF Number
<1>7. IF z >= y THEN x >= y /\ x <= z ELSE x >= y \/ x <= z
  BY <1>5 DEF ValidAck
<1> QED
  BY <1>6, <1>7

\* ... and Feed accepts every one between the last one and the last chunk.
LEMMA NewIsValid ==
    ASSUME NEW e \in End, NEW a \in Nat, NEW p \in Nat, NEW s \in Nat,
           peerAck[e] = Num(p), sequence[e] = Num(s),
           p <= a, a <= s, s < p + MaxSequence
    PROVE  ValidAck(e, Num(a))
<1>1. /\ a - p \in 0..(MaxSequence - 1) /\ p + (a - p) = a
      /\ s - p \in 0..(MaxSequence - 1) /\ p + (s - p) = s
  BY Sizes
<1>2. Num(p + (a - p)) = IF Num(p) + (a - p) < MaxSequence THEN Num(p) + (a - p)
                         ELSE Num(p) + (a - p) - MaxSequence
  BY <1>1, NumShift
<1>3. Num(p + (s - p)) = IF Num(p) + (s - p) < MaxSequence THEN Num(p) + (s - p)
                         ELSE Num(p) + (s - p) - MaxSequence
  BY <1>1, NumShift
<1>4. Num(p) \in Number
  BY NumType
<1>5. PICK x, y, z : x = Num(a) /\ y = Num(p) /\ z = Num(s)
  OBVIOUS
<1>6. /\ MaxSequence \in Nat /\ y \in Nat /\ y < MaxSequence
      /\ x = IF y + (a - p) < MaxSequence THEN y + (a - p) ELSE y + (a - p) - MaxSequence
      /\ z = IF y + (s - p) < MaxSequence THEN y + (s - p) ELSE y + (s - p) - MaxSequence
  BY <1>1, <1>2, <1>3, <1>4, <1>5, Sizes DEF Number
<1>7. IF z >= y THEN x >= y /\ x <= z ELSE x >= y \/ x <= z
  BY <1>6
<1> QED
  BY <1>5, <1>7 DEF ValidAck

\* AckChunks drops exactly the chunks up to the one acknowledged.
LEMMA AckChunksExact ==
    ASSUME NEW n \in Nat, NEW b \in Seq(Genuine(n)), Len(b) < MaxSequence \div 2,
           NEW p \in Nat, \A i \in 1..Len(b) : b[i].data = p + i,
           NEW a \in Nat, p <= a, a <= p + Len(b)
    PROVE  AckChunks(b, Num(a)) = SubSeq(b, a - p + 1, Len(b))
<1>1. PICK from \in 1..(Len(b) + 1) :
              /\ AckChunks(b, Num(a)) = SubSeq(b, from, Len(b))
              /\ \A i \in 1..(from - 1) : InBackroom(b[i].seq, Num(a))
              /\ from <= Len(b) => ~InBackroom(b[from].seq, Num(a))
  BY AckChunksSuffix
<1>2. Len(b) \in Nat
  BY LenProperties
<1>3. ASSUME NEW i \in 1..Len(b) PROVE b[i].seq = Num(p + i) /\ p + i \in Nat
  <2>1. b[i] \in Genuine(n)
    BY ElementOfSeq
  <2> QED
    BY <2>1 DEF Genuine
<1>4. ~(from < a - p + 1)
  <2>1. SUFFICES ASSUME from < a - p + 1 PROVE FALSE
    OBVIOUS
  <2>2. from \in 1..Len(b) /\ p + from <= a /\ a - (p + from) < MaxSequence \div 2
    BY <1>2, <2>1, Sizes
  <2>3. b[from].seq = Num(p + from) /\ p + from \in Nat
    BY <1>3, <2>2
  <2>4. InBackroom(Num(p + from), Num(a))
    BY <2>2, <2>3, BackroomOlder
  <2> QED
    BY <1>1, <2>2, <2>3, <2>4
<1>5. ~(from > a - p + 1)
  <2>1. SUFFICES ASSUME from > a - p + 1 PROVE FALSE
    OBVIOUS
  <2> DEFINE i == a - p + 1
  <2>2. i \in 1..(from - 1) /\ i \in 1..Len(b) /\ p + i = a + 1
    BY <1>2, <2>1
  <2>3. b[i].seq = Num(a + 1)
    BY <1>3, <2>2, Zenon
  <2>4. a + 1 \in Nat /\ a < a + 1 /\ (a + 1) - a < MaxSequence \div 2
    BY Sizes
  <2>5. ~InBackroom(Num(a + 1), Num(a))
    BY <2>4, BackroomNewer
  <2> HIDE DEF i
  <2> QED
    BY <1>1, <2>2, <2>3, <2>5, Zenon
<1>6. from = a - p + 1
  BY <1>2, <1>4, <1>5
<1> QED
  BY <1>1, <1>6

\* Nothing that concerns the direction from this end to its peer has changed.
LEMMA InStepUnchanged ==
    ASSUME NEW e \in End, InStep(e),
           sent'[e] = sent[e], buffer'[e] = buffer[e], peerAck'[e] = peerAck[e],
           received'[Other(e)] = received[Other(e)]
    PROVE  InStep(e)'
BY Zenon DEF InStep, Acked, Taken

LEMMA InStepFacts ==
    ASSUME NEW e \in End, NumberedInv, InStep(e)
    PROVE  /\ sent[e] \in Nat /\ Len(buffer[e]) \in Nat /\ Acked(e) \in Nat /\ Taken(e) \in Nat
           /\ Acked(e) + Len(buffer[e]) = sent[e]
           /\ Len(buffer[e]) <= BufferSize
           /\ Acked(e) <= Taken(e) /\ Taken(e) <= sent[e]
           /\ sequence[e] = Num(sent[e]) /\ peerAck[e] = Num(Acked(e))
           /\ ack[Other(e)] = Num(Taken(e))
<1>1. Other(e) \in End /\ Numbered(e) /\ Numbered(Other(e))
  BY Ends DEF NumberedInv
<1>2. sent[e] \in Nat /\ Len(received[Other(e)]) \in Nat
  BY <1>1, NumberedFacts
<1>3. buffer[e] \in Seq(Genuine(sent[e])) /\ Len(buffer[e]) <= BufferSize
  BY <1>1 DEF Numbered
<1>4. Len(buffer[e]) \in Nat
  BY <1>3, LenProperties
<1>5. sequence[e] = Num(sent[e]) /\ ack[Other(e)] = Num(Len(received[Other(e)]))
  BY <1>1, Zenon DEF Numbered
<1> QED
  BY <1>2, <1>3, <1>4, <1>5 DEF InStep, Acked, Taken

LEMMA QueueChunkInStep ==
    ASSUME NumberedInv, NEW e \in End, QueueChunk(e), overflow[e] \/ InStep(e)
    PROVE  (overflow[e] \/ InStep(e))'
<1> DEFINE n == sent[e] + 1
           chunk == [seq |-> (sequence[e] + 1) % MaxSequence, data |-> n]
<1>1. Shape /\ Numbered(e)
  BY DEF NumberedInv
<1>2. /\ sent' = [sent EXCEPT ![e] = n]
      /\ buffer' = [buffer EXCEPT ![e] = IF Len(buffer[e]) < BufferSize
                                         THEN Append(buffer[e], chunk) ELSE buffer[e]]
      /\ overflow' = [overflow EXCEPT ![e] = overflow[e] \/ ~(Len(buffer[e]) < BufferSize)]
      /\ UNCHANGED <<peerAck, received>>
  BY Zenon DEF QueueChunk
<1>3. chunk.data = n
  OBVIOUS
<1> HIDE DEF chunk, n
<1>4. /\ sent'[e] = n
      /\ buffer'[e] = (IF Len(buffer[e]) < BufferSize THEN Append(buffer[e], chunk) ELSE buffer[e])
      /\ overflow'[e] = (overflow[e] \/ ~(Len(buffer[e]) < BufferSize))
  BY <1>1, <1>2, Zenon DEF Shape
<1> SUFFICES ASSUME ~overflow[e], Len(buffer[e]) < BufferSize
             PROVE  InStep(e)'
  BY <1>4, Zenon
<1>5. InStep(e)
  OBVIOUS
<1>6. /\ sent[e] \in Nat /\ Len(buffer[e]) \in Nat /\ Acked(e) \in Nat /\ Taken(e) \in Nat
      /\ Acked(e) + Len(buffer[e]) = sent[e] /\ Acked(e) <= Taken(e) /\ Taken(e) <= sent[e]
      /\ peerAck[e] = Num(Acked(e))
  BY <1>5, InStepFacts
<1>7. buffer[e] \in Seq(Genuine(sent[e]))
  BY <1>1 DEF Numbered
<1>8. PICK b : b = Append(buffer[e], chunk)
  OBVIOUS
<1>9. Len(b) = Len(buffer[e]) + 1 /\ b[Len(b)] = chunk
      /\ \A i \in 1..Len(buffer[e]) : b[i] = buffer[e][i]
  BY <1>7, <1>8
<1>10. buffer'[e] = b /\ peerAck'[e] = peerAck[e] /\ received'[Other(e)] = received[Other(e)]
  BY <1>2, <1>4, <1>8, Zenon
<1>11. Acked(e)' = Acked(e) /\ Taken(e)' = Taken(e)
  <2>1. Taken(e)' = Taken(e)
    BY <1>10, Zenon DEF Taken
  <2>2. Acked(e)' = sent'[e] - Len(buffer'[e])
    BY DEF Acked
  <2>3. n - Len(b) = Acked(e)
    BY <1>6, <1>9 DEF n
  <2> QED
    BY <2>1, <2>2, <2>3, <1>4, <1>10, Zenon
<1>12. ASSUME NEW i \in 1..Len(b) PROVE b[i].data = Acked(e) + i
  <2>1. CASE i \in 1..Len(buffer[e])
    <3>1. buffer[e][i].data = Acked(e) + i
      BY <1>5, <2>1 DEF InStep
    <3> QED
      BY <2>1, <3>1, <1>9, Zenon
  <2>2. CASE i \notin 1..Len(buffer[e])
    <3>1. i = Len(b)
      BY <2>2, <1>6, <1>9
    <3>2. b[i].data = n
      BY <3>1, <1>3, <1>9, Zenon
    <3>3. n = Acked(e) + i
      BY <3>1, <1>6, <1>9 DEF n
    <3> QED
      BY <3>2, <3>3
  <2> QED
    BY <2>1, <2>2
<1>13. Len(b) <= n /\ Taken(e) <= n
  BY <1>6, <1>9 DEF n
<1> QED
  BY <1>4, <1>6, <1>10, <1>11, <1>12, <1>13, Zenon DEF InStep

\* The chunk that the unpacker takes is the next one of the stream.
LEMMA NextIsNext ==
    ASSUME NumberedInv, Recent, NEW e \in End, InStep(Other(e)), unpacker[e] # <<>>,
           Head(unpacker[e]).seq = (ack[e] + 1) % MaxSequence
    PROVE  /\ Head(unpacker[e]).data = Len(received[e]) + 1
           /\ Len(received[e]) + 1 <= sent[Other(e)]
<1>1. PICK o \in End : o = Other(e) /\ o # e /\ e = Other(o)
  BY Ends
<1>2. Numbered(e) /\ Numbered(o) /\ InStep(o)
  BY <1>1 DEF NumberedInv
<1>3. PICK r : r = Len(received[e])
  OBVIOUS
<1>4. r = Taken(o) /\ r \in Nat /\ sent[o] \in Nat /\ r <= sent[o] /\ sent[o] <= r + BufferSize
      /\ ack[e] = Num(r)
  <2>1. /\ sent[o] \in Nat /\ Len(buffer[o]) \in Nat /\ Acked(o) \in Nat /\ Taken(o) \in Nat
        /\ Acked(o) + Len(buffer[o]) = sent[o]
        /\ Len(buffer[o]) <= BufferSize
        /\ Acked(o) <= Taken(o) /\ Taken(o) <= sent[o]
        /\ ack[Other(o)] = Num(Taken(o))
    BY <1>2, InStepFacts
  <2>2. r = Taken(o)
    BY <1>1, <1>3, Zenon DEF Taken
  <2> QED
    BY <2>1, <2>2, <1>1, Sizes
<1>5. unpacker[e] \in Seq(Genuine(sent[o]))
  BY <1>1, <1>2, Zenon DEF Numbered
<1>6. PICK d : d = Head(unpacker[e]).data
  OBVIOUS
<1>7. d \in 1..sent[o] /\ Head(unpacker[e]).seq = Num(d)
  <2>1. Head(unpacker[e]) \in Genuine(sent[o])
    BY <1>5, HeadTailProperties
  <2> QED
    BY <2>1, <1>6 DEF Genuine
<1>8. sent[o] + 1 < d + MaxSequence
  <2>1. 1 \in 1..Len(unpacker[e]) /\ Head(unpacker[e]) = unpacker[e][1]
    BY <1>5, EmptySeq, LenProperties
  <2>2. sent[Other(e)] + 1 < unpacker[e][1].data + MaxSequence
    BY <2>1, Zenon DEF Recent
  <2> QED
    BY <2>1, <2>2, <1>1, <1>6, Zenon
<1>9. Num(d) = Num(r + 1)
  <2>1. (ack[e] + 1) % MaxSequence = Num(r + 1)
    BY <1>4, NumNext
  <2> QED
    BY <2>1, <1>7, Zenon
<1>10. d \in Nat /\ r + 1 \in Nat
  BY <1>4, <1>7
<1>11. ~(d < r + 1)
  <2>1. SUFFICES ASSUME d < r + 1 PROVE FALSE
    OBVIOUS
  <2>2. r + 1 < d + MaxSequence
    BY <1>4, <1>8, <1>10, Sizes
  <2>3. Num(d) # Num(r + 1)
    BY ONLY <2>1, <2>2, <1>10, NumDistinct, Zenon
  <2> QED
    BY <2>3, <1>9
<1>12. ~(r + 1 < d)
  <2>1. SUFFICES ASSUME r + 1 < d PROVE FALSE
    OBVIOUS
  <2>2. d < (r + 1) + MaxSequence
    BY <1>4, <1>7, <1>10, Sizes
  <2>3. Num(r + 1) # Num(d)
    BY ONLY <2>1, <2>2, <1>10, NumDistinct, Zenon
  <2> QED
    BY <2>3, <1>9
<1>13. d = r + 1
  BY <1>10, <1>11, <1>12
<1> QED
  BY <1>1, <1>3, <1>6, <1>7, <1>13

LEMMA FetchChunkInStep ==
    ASSUME NumberedInv, Recent, NEW e \in End, FetchChunk(e),
           overflow[Other(e)] \/ InStep(Other(e))
    PROVE  (overflow[Other(e)] \/ InStep(Other(e)))'
<1>1. PICK o \in End : o = Other(e) /\ o # e /\ e = Other(o)
  BY Ends
<1> SUFFICES ASSUME ~overflow[o] PROVE InStep(o)'
  BY <1>1, Zenon DEF FetchChunk
<1>2. InStep(o) /\ Shape /\ Numbered(e)
  BY <1>1 DEF NumberedInv
<1>3. UNCHANGED <<sent, buffer, peerAck>> /\ unpacker[e] # <<>>
  BY DEF FetchChunk
<1> DEFINE next == Head(unpacker[e]).seq = (ack[e] + 1) % MaxSequence
<1>4. received' = [received EXCEPT ![e] = IF next THEN Append(received[e], Head(unpacker[e]).data)
                                          ELSE received[e]]
  BY Zenon DEF FetchChunk
<1> HIDE DEF next
<1>5. received'[e] = IF next THEN Append(received[e], Head(unpacker[e]).data) ELSE received[e]
  BY <1>2, <1>4, Zenon DEF Shape
<1>6. CASE ~next
  BY <1>1, <1>2, <1>3, <1>5, <1>6, InStepUnchanged, Zenon
<1>7. CASE next
  <2>1. Len(received[e]) + 1 <= sent[o]
    BY <1>1, <1>2, <1>3, <1>7, NextIsNext, Zenon DEF next
  <2>2. received[e] \in Seq(Nat) /\ Head(unpacker[e]).data = Len(received[e]) + 1
    BY <1>1, <1>2, <1>3, <1>7, NextIsNext, Zenon DEF next, Numbered
  <2>3. received'[e] = Append(received[e], Head(unpacker[e]).data)
    BY <1>5, <1>7, Zenon
  <2>4. Len(received'[e]) = Len(received[e]) + 1 /\ Len(received[e]) \in Nat
    BY <2>2, <2>3, LenProperties
  <2>5. Taken(o) = Len(received[e]) /\ Taken(o)' = Len(received'[e])
    BY <1>1, Zenon DEF Taken
  <2>6. Acked(o) \in Nat /\ Acked(o) <= Taken(o)
    BY <1>2, InStepFacts
  <2>7. Acked(o) <= Taken(o)' /\ Taken(o)' <= sent[o]
    BY <2>1, <2>4, <2>5, <2>6
  <2>8. Acked(o)' = Acked(o)
    BY <1>3, Zenon DEF Acked
  <2> QED
    BY <1>2, <1>3, <2>7, <2>8, Zenon DEF InStep
<1> QED
  BY <1>6, <1>7

LEMMA FeedInStep ==
    ASSUME NumberedInv, Recent, NEW e \in End, Feed(e), overflow[e] \/ InStep(e)
    PROVE  (overflow[e] \/ InStep(e))'
<1>1. PICK o \in End : o = Other(e) /\ o # e /\ e = Other(o)
  BY Ends
<1>2. PICK i \in 1..Len(net[e]) : \E left, again : Fed(e, o, net[e][i], left, again)
  BY <1>1, FeedIsFed, Zenon
<1>3. PICK p : p = net[e][i]
  OBVIOUS
<1>4. /\ p \in UnderWay(Len(received[o]), sent[o])
      /\ peerAck' = [peerAck EXCEPT ![e] = IF ValidAck(e, p.ack) THEN p.ack ELSE peerAck[e]]
      /\ buffer' = [buffer EXCEPT ![e] = IF ValidAck(e, p.ack) THEN AckChunks(buffer[e], p.ack)
                                         ELSE buffer[e]]
      /\ UNCHANGED <<sent, received, overflow>>
  BY <1>2, <1>3, Zenon DEF Fed
<1> SUFFICES ASSUME ~overflow[e] PROVE InStep(e)'
  BY <1>4, Zenon
<1>5. InStep(e) /\ Shape /\ Numbered(e)
  BY DEF NumberedInv
<1>6. /\ peerAck'[e] = IF ValidAck(e, p.ack) THEN p.ack ELSE peerAck[e]
      /\ buffer'[e] = IF ValidAck(e, p.ack) THEN AckChunks(buffer[e], p.ack) ELSE buffer[e]
  BY <1>4, <1>5, Zenon DEF Shape
<1>7. CASE ~ValidAck(e, p.ack)
  BY <1>4, <1>5, <1>6, <1>7, InStepUnchanged, Zenon
<1>8. CASE ValidAck(e, p.ack)
  <2>1. PICK a : a = p.taken
    OBVIOUS
  <2>2. /\ sent[e] \in Nat /\ Len(buffer[e]) \in Nat /\ Acked(e) \in Nat /\ Taken(e) \in Nat
        /\ Acked(e) + Len(buffer[e]) = sent[e] /\ Len(buffer[e]) <= BufferSize
        /\ Acked(e) <= Taken(e) /\ Taken(e) <= sent[e]
        /\ sequence[e] = Num(sent[e]) /\ peerAck[e] = Num(Acked(e))
    BY <1>5, InStepFacts
  <2>3. p.ack = Num(a) /\ a \in 0..Len(received[o])
    BY <1>4, <2>1, Zenon DEF UnderWay
  <2>4. Len(received[o]) = Taken(e)
    BY <1>1, Zenon DEF Taken
  <2>5. a \in Nat /\ a <= Taken(e)
    BY <2>2, <2>3, <2>4
  <2>6. sent[e] < a + MaxSequence
    BY <1>3, <2>1, Zenon DEF Recent
  <2>7. Acked(e) <= sent[e] /\ a <= sent[e]
    BY <2>2, <2>5
  <2>8. ValidAck(e, Num(a))
    BY <1>8, <2>3, Zenon
  <2>9. Acked(e) <= a
    BY ONLY <2>2, <2>5, <2>6, <2>7, <2>8, ValidIsNew, Zenon
  <2>10. PICK b : b = buffer[e]
    OBVIOUS
  <2>11. b \in Seq(Genuine(sent[e])) /\ \A k \in 1..Len(b) : b[k].data = Acked(e) + k
    BY <1>5, <2>10, Zenon DEF Numbered, InStep
  <2>12. Len(b) < MaxSequence \div 2 /\ a <= Acked(e) + Len(b)
    BY <2>2, <2>7, <2>10, Sizes
  <2>13. AckChunks(b, Num(a)) = SubSeq(b, a - Acked(e) + 1, Len(b))
    BY ONLY <2>2, <2>5, <2>9, <2>11, <2>12, AckChunksExact, Zenon
  <2>14. PICK k : k = a - Acked(e)
    OBVIOUS
  <2>15. k \in Nat /\ k <= Len(b) /\ Len(b) \in Nat /\ a = Acked(e) + k /\ k + 1 \in Nat \ {0}
         /\ Len(b) \in 0..Len(b)
    <3>1. Len(b) \in Nat
      BY <2>2, <2>10, Zenon
    <3> QED
      BY ONLY <3>1, <2>2, <2>5, <2>9, <2>12, <2>14
  <2>16. PICK c : c = SubSeq(b, k + 1, Len(b))
    OBVIOUS
  <2>17. /\ Len(c) = (IF k + 1 <= Len(b) THEN Len(b) - (k + 1) + 1 ELSE 0)
         /\ \A j \in 1..(Len(b) - (k + 1) + 1) : c[j] = b[k + 1 + j - 1]
    <3>1. /\ Len(SubSeq(b, k + 1, Len(b))) = (IF k + 1 <= Len(b) THEN Len(b) - (k + 1) + 1 ELSE 0)
          /\ \A j \in 1..(Len(b) - (k + 1) + 1) : SubSeq(b, k + 1, Len(b))[j] = b[(k + 1) + j - 1]
      BY ONLY <2>11, <2>15, SubSeqType
    <3> QED
      BY ONLY <3>1, <2>16, Zenon
  <2>18. Len(c) = Len(b) - k
    BY <2>15, <2>17
  <2>19. ASSUME NEW j \in 1..Len(c) PROVE c[j].data = a + j
    <3>1. j \in 1..(Len(b) - (k + 1) + 1) /\ k + 1 + j - 1 = k + j /\ k + j \in 1..Len(b)
      BY <2>15, <2>18
    <3>2. c[j] = b[k + j]
      BY <3>1, <2>17, Zenon
    <3>3. b[k + j].data = Acked(e) + (k + j)
      BY <3>1, <2>11, Zenon
    <3>4. Acked(e) + (k + j) = a + j
      BY <2>2, <2>15, <3>1
    <3> QED
      BY <3>2, <3>3, <3>4, Zenon
  <2>20. buffer'[e] = c /\ peerAck'[e] = Num(a)
    BY <1>6, <1>8, <2>3, <2>10, <2>13, <2>14, <2>16, Zenon
  <2>21. Acked(e)' = a
    <3>1. Acked(e)' = sent[e] - Len(c)
      BY <1>4, <2>20, Zenon DEF Acked
    <3> QED
      BY <3>1, <2>2, <2>10, <2>15, <2>18
  <2>22. Taken(e)' = Taken(e)
    BY <1>4, Zenon DEF Taken
  <2>23. Len(c) <= sent[e]
    BY <2>2, <2>10, <2>15, <2>18
  <2> QED
    BY <1>4, <2>2, <2>5, <2>19, <2>20, <2>21, <2>22, <2>23, Zenon DEF InStep
<1> QED
  BY <1>7, <1>8

LEMMA InStepStep == NumberedInv /\ Recent /\ InStepInv /\ [Next]_vars => InStepInv'
<1> SUFFICES ASSUME NumberedInv, Recent, InStepInv, [Next]_vars, NEW d \in End
             PROVE  (overflow[d] \/ InStep(d))'
  BY DEF InStepInv
<1>1. Shape /\ (overflow[d] \/ InStep(d)) /\ (overflow[Other(d)] \/ InStep(Other(d)))
  BY Ends DEF NumberedInv, InStepInv
<1>2. ASSUME overflow'[d] = overflow[d], sent'[d] = sent[d], buffer'[d] = buffer[d],
             peerAck'[d] = peerAck[d], received'[Other(d)] = received[Other(d)]
      PROVE  (overflow[d] \/ InStep(d))'
  BY <1>1, <1>2, InStepUnchanged, Zenon
<1>3. CASE UNCHANGED vars
  BY <1>2, <1>3 DEF vars, outgoing
<1>4. ASSUME NEW e \in End, EndNext(e) \/ Lose(e) PROVE (overflow[d] \/ InStep(d))'
  <2>0. e = d \/ (e # d /\ d = Other(e) /\ e = Other(d))
    BY Ends, Zenon
  <2>1. CASE QueueChunk(e)
    <3>1. CASE e = d
      BY <1>1, <2>1, <3>1, QueueChunkInStep, Zenon
    <3>2. CASE e # d
      <4>1. /\ sent' = [sent EXCEPT ![e] = sent'[e]] /\ buffer' = [buffer EXCEPT ![e] = buffer'[e]]
            /\ overflow' = [overflow EXCEPT ![e] = overflow'[e]] /\ UNCHANGED <<peerAck, received>>
        BY <1>1, <2>1, Zenon DEF QueueChunk, Shape
      <4> QED
        BY <1>1, <1>2, <3>2, <4>1, Zenon DEF Shape
    <3> QED
      BY <3>1, <3>2
  <2>2. CASE Flush(e) \/ ResendChunk(e) \/ KeepAlive(e) \/ Lose(e)
    <3>1. UNCHANGED <<sent, buffer, overflow, peerAck, received>>
      BY <2>2, Zenon DEF Flush, ResendChunk, KeepAlive, Lose, outgoing
    <3> QED
      BY <3>1, <1>2, Zenon
  <2>3. CASE Feed(e)
    <3>1. CASE e = d
      BY <1>1, <2>3, <3>1, FeedInStep, Zenon
    <3>2. CASE e # d
      <4>1. PICK p, left, again : Fed(e, Other(e), p, left, again)
        BY <2>3, FeedIsFed, Zenon
      <4>2. /\ peerAck' = [peerAck EXCEPT ![e] = IF ValidAck(e, p.ack) THEN p.ack ELSE peerAck[e]]
            /\ buffer' = [buffer EXCEPT ![e] = IF ValidAck(e, p.ack) THEN AckChunks(buffer[e], p.ack)
                                               ELSE buffer[e]]
            /\ UNCHANGED <<sent, received, overflow>>
        BY <4>1, Zenon DEF Fed
      <4>3. peerAck'[d] = peerAck[d] /\ buffer'[d] = buffer[d]
        BY <1>1, <3>2, <4>2, Zenon DEF Shape
      <4> QED
        BY <1>2, <4>2, <4>3, Zenon
    <3> QED
      BY <3>1, <3>2
  <2>4. CASE FetchChunk(e)
    <3>1. CASE e # d
      BY <1>1, <2>0, <2>4, <3>1, FetchChunkInStep, Zenon
    <3>2. CASE e = d
      <4>1. UNCHANGED <<sent, buffer, overflow, peerAck>>
            /\ received' = [received EXCEPT ![e] = received'[e]]
        BY <1>1, <2>4, Zenon DEF FetchChunk, Shape
      <4>2. received'[Other(d)] = received[Other(d)]
        BY <1>1, <3>2, <4>1, Ends, Zenon DEF Shape
      <4> QED
        BY <1>2, <4>1, <4>2, Zenon
    <3> QED
      BY <3>1, <3>2
  <2> QED
    BY <1>4, <2>1, <2>2, <2>3, <2>4, Zenon DEF EndNext
<1> QED
  BY <1>3, <1>4, Zenon DEF Next
-----------------------------------------------------------------------------
(* The theorems *)

LEMMA InStepHolds == Spec /\ []Recent => []InStepInv
<1>1. Init => InStepInv
  BY InStepInit
<1>2. NumberedInv /\ Recent /\ InStepInv /\ [Next]_vars => InStepInv'
  BY InStepStep
<1>3. Spec => []NumberedInv
  BY NumberedHolds
<1> QED
  BY <1>1, <1>2, <1>3, PTL DEF Spec

\* As long as nothing under way is a turn old, what the peer has not taken is
\* kept, in order, whatever the network loses, repeats or lets overtake.
THEOREM KeptCorrect == Spec /\ []Recent => []KeptUntilTaken
<1>1. NumberedInv /\ InStepInv => KeptUntilTaken
  <2> SUFFICES ASSUME NumberedInv, InStepInv, NEW e \in End, ~overflow[e],
                      NEW n \in (Len(received[Other(e)]) + 1)..sent[e]
               PROVE  \E i \in 1..Len(buffer[e]) : buffer[e][i].data = n
    BY DEF KeptUntilTaken
  <2>1. InStep(e)
    BY DEF InStepInv
  <2>2. /\ sent[e] \in Nat /\ Len(buffer[e]) \in Nat /\ Acked(e) \in Nat /\ Taken(e) \in Nat
        /\ Acked(e) + Len(buffer[e]) = sent[e] /\ Acked(e) <= Taken(e)
    BY <2>1, InStepFacts
  <2>3. n \in (Taken(e) + 1)..sent[e]
    BY DEF Taken
  <2>4. PICK i : i = n - Acked(e)
    OBVIOUS
  <2>5. i \in 1..Len(buffer[e]) /\ Acked(e) + i = n
    BY ONLY <2>2, <2>3, <2>4
  <2>6. buffer[e][i].data = Acked(e) + i
    BY <2>1, <2>5, Zenon DEF InStep
  <2> QED
    BY <2>5, <2>6, Zenon
<1> QED
  BY <1>1, NumberedHolds, InStepHolds, PTL

\* As long as nothing under way is a turn old, each end accepts what the other
\* acknowledges now, and the difference of the numbers counts what is not taken.
THEOREM HeardCorrect == Spec /\ []Recent => []PeerHeard
<1>1. NumberedInv /\ InStepInv => PeerHeard
  <2> SUFFICES ASSUME NumberedInv, InStepInv, NEW e \in End, ~overflow[e]
               PROVE  /\ ValidAck(e, ack[Other(e)])
                      /\ sent[e] - Len(received[Other(e)]) =
                            (sequence[e] + MaxSequence - ack[Other(e)]) % MaxSequence
    BY DEF PeerHeard
  <2>1. InStep(e)
    BY DEF InStepInv
  <2>2. /\ sent[e] \in Nat /\ Len(buffer[e]) \in Nat /\ Acked(e) \in Nat /\ Taken(e) \in Nat
        /\ Acked(e) + Len(buffer[e]) = sent[e] /\ Len(buffer[e]) <= BufferSize
        /\ Acked(e) <= Taken(e) /\ Taken(e) <= sent[e]
        /\ sequence[e] = Num(sent[e]) /\ peerAck[e] = Num(Acked(e))
        /\ ack[Other(e)] = Num(Taken(e))
    BY <2>1, InStepFacts
  <2>3. Acked(e) <= sent[e] /\ sent[e] < Acked(e) + MaxSequence
    BY ONLY <2>2, Sizes
  <2>4. ValidAck(e, Num(Taken(e)))
    BY ONLY <2>2, <2>3, NewIsValid, Zenon
  <2>5. PICK t, s, d : t = Taken(e) /\ s = sent[e] /\ d = s - t
    OBVIOUS
  <2>6. t \in Nat /\ s \in Nat /\ d \in 0..(MaxSequence - 1) /\ t + d = s
    <3>1. t \in Nat /\ s \in Nat /\ t <= s /\ Acked(e) \in Nat /\ Acked(e) <= t
          /\ s < Acked(e) + MaxSequence /\ d = s - t
      BY ONLY <2>2, <2>3, <2>5, Zenon
    <3> QED
      BY ONLY <3>1, Sizes
  <2>7. Num(t + d) = IF Num(t) + d < MaxSequence THEN Num(t) + d ELSE Num(t) + d - MaxSequence
    BY <2>6, NumShift
  <2>8. PICK x, y, m : x = Num(t) /\ y = Num(s) /\ m = MaxSequence
    OBVIOUS
  <2>9. /\ m \in Nat \ {0} /\ x \in Nat /\ x < m /\ d \in Nat /\ d < m
        /\ y = IF x + d < m THEN x + d ELSE x + d - m
    BY <2>6, <2>7, <2>8, NumType, Sizes DEF Number
  <2>10. y + m - x = d + m \/ y + m - x = d
    BY ONLY <2>9
  <2>11. d % m = d /\ (d + m) % m = d
    <3>1. m \in Nat \ {0} /\ d \in Nat /\ d + m \in Nat /\ d \in 0..(m - 1)
      BY ONLY <2>9
    <3>2. PICK q, r : q = (d + m) \div m /\ r = (d + m) % m
      OBVIOUS
    <3>3. q \in Int /\ r \in 0..(m - 1) /\ d + m = m * q + r
      BY ONLY <3>1, <3>2, DivMod
    <3>4. m * 1 + d = m * q + r
      BY ONLY <3>1, <3>3
    <3>5. d = r
      BY ONLY <3>1, <3>3, <3>4, DivModUnique
    <3>6. d % m = d
      BY ONLY <3>1, SMT
    <3> QED
      BY <3>2, <3>5, <3>6
  <2>12. (y + m - x) % m = d
    BY ONLY <2>10, <2>11, Zenon
  <2> QED
    BY <2>2, <2>4, <2>5, <2>8, <2>12, Zenon DEF Taken
<1> QED
  BY <1>1, NumberedHolds, InStepHolds, PTL

\* As long as nothing under way is a turn old, what the server queues comes out
\* at the client in order and once: each step of the connection is a step of
\* the stream or none.
THEOREM ConnectionImplementsStream == Spec /\ []Recent => InOrderOnce
<1>1. Init => Stream!Init
  BY DEF Init, Stream!Init
<1>2. NumberedInv /\ Recent /\ InStepInv /\ [Next]_vars => [Stream!Next]_Stream!vars
  <2> SUFFICES ASSUME NumberedInv, Recent, InStepInv, [Next]_vars
               PROVE  [Stream!Next]_Stream!vars
    OBVIOUS
  <2>1. /\ "server" \in End /\ "client" \in End /\ "server" # "client"
        /\ Other("server") = "client" /\ Other("client") = "server"
    BY DEF Other
  <2>2. Shape /\ Numbered("server") /\ Numbered("client")
    BY <2>1 DEF NumberedInv
  <2>3. sent["server"]' = sent["server"] /\ received["client"]' = received["client"]
        /\ overflow["server"]' = overflow["server"] => UNCHANGED Stream!vars
    BY DEF Stream!vars
  <2>4. CASE UNCHANGED vars
    BY <2>3, <2>4 DEF vars, outgoing
  <2>5. ASSUME NEW e \in End, EndNext(e) \/ Lose(e) PROVE [Stream!Next]_Stream!vars
    <3>1. CASE QueueChunk(e)
      <4>1. /\ sent' = [sent EXCEPT ![e] = sent[e] + 1]
            /\ overflow' = [overflow EXCEPT ![e] = overflow[e] \/ ~(Len(buffer[e]) < BufferSize)]
            /\ UNCHANGED received
        BY <3>1, Zenon DEF QueueChunk
      <4>2. CASE e = "server"
        <5>1. sent'["server"] = sent["server"] + 1
              /\ overflow'["server"] = (overflow["server"] \/ ~(Len(buffer[e]) < BufferSize))
          BY <2>1, <2>2, <4>1, <4>2, Zenon DEF Shape
        <5> QED
          BY <4>1, <5>1, Zenon DEF Stream!Next, Stream!Queue
      <4>3. CASE e # "server"
        <5>1. sent'["server"] = sent["server"] /\ overflow'["server"] = overflow["server"]
          BY <2>1, <2>2, <4>1, <4>3, Zenon DEF Shape
        <5> QED
          BY <2>3, <4>1, <5>1, Zenon
      <4> QED
        BY <4>2, <4>3
    <3>2. CASE Flush(e) \/ ResendChunk(e) \/ KeepAlive(e) \/ Feed(e) \/ Lose(e)
      <4>1. UNCHANGED <<sent, received, overflow>>
        BY <3>2, Zenon DEF Flush, ResendChunk, KeepAlive, Feed, Lose, outgoing
      <4> QED
        BY <2>3, <4>1, Zenon
    <3>3. CASE FetchChunk(e)
      <4> DEFINE next == Head(unpacker[e]).seq = (ack[e] + 1) % MaxSequence
      <4>1. /\ UNCHANGED <<sent, overflow>> /\ unpacker[e] # <<>>
            /\ received' = [received EXCEPT ![e] = IF next THEN Append(received[e], Head(unpacker[e]).data)
                                                   ELSE received[e]]
        BY <3>3, Zenon DEF FetchChunk
      <4>2. CASE e # "client" \/ ~next
        <5>1. received'["client"] = received["client"]
          <6> HIDE DEF next
          <6> QED
            BY <2>1, <2>2, <4>1, <4>2, Zenon DEF Shape
        <5> QED
          BY <2>3, <4>1, <5>1, Zenon
      <4>3. CASE e = "client" /\ next
        <5>1. PICK n : n = Head(unpacker["client"]).data
          OBVIOUS
        <5>2. received'["client"] = Append(received["client"], n)
          <6>1. received'["client"] = IF next THEN Append(received[e], Head(unpacker[e]).data) ELSE received[e]
            <7> HIDE DEF next
            <7> QED
              BY <2>1, <2>2, <4>1, <4>3, Zenon DEF Shape
          <6> QED
            BY <6>1, <4>3, <5>1, Zenon
        <5>3. n \in 1..sent["server"]
          <6>1. unpacker["client"] \in Seq(Genuine(sent["server"])) /\ unpacker["client"] # <<>>
            BY <2>1, <2>2, <4>1, <4>3, Zenon DEF Numbered
          <6>2. Head(unpacker["client"]) \in Genuine(sent["server"])
            BY <6>1, HeadTailProperties
          <6> QED
            BY <6>2, <5>1 DEF Genuine
        <5>4. overflow["server"] \/ (n = Len(received["client"]) + 1
                                     /\ Len(received["client"]) + 1 <= sent["server"])
          <6> SUFFICES ASSUME ~overflow["server"]
                       PROVE  n = Len(received["client"]) + 1 /\ Len(received["client"]) + 1 <= sent["server"]
            OBVIOUS
          <6>1. InStep(Other("client"))
            BY <2>1, Zenon DEF InStepInv
          <6> QED
            BY <2>1, <4>1, <4>3, <5>1, <6>1, NextIsNext, Zenon
        <5>5. overflow["server"] \/ Len(received["client"]) < sent["server"]
          <6>1. Len(received["client"]) \in Nat /\ sent["server"] \in Nat
            BY <2>1, <2>2, NumberedFacts
          <6>2. Len(received["client"]) + 1 <= sent["server"] => Len(received["client"]) < sent["server"]
            BY <6>1
          <6> QED
            BY <5>4, <6>2, Zenon
        <5>6. Stream!Deliver
          BY <4>1, <5>2, <5>3, <5>4, <5>5, Zenon DEF Stream!Deliver
        <5> QED
          BY <5>6 DEF Stream!Next
      <4> QED
        BY <4>2, <4>3
    <3> QED
      BY <2>5, <3>1, <3>2, <3>3, Zenon DEF EndNext
  <2> QED
    BY <2>4, <2>5, Zenon DEF Next
<1> QED
  BY <1>1, <1>2, NumberedHolds, InStepHolds, PTL DEF Spec, InOrderOnce, Stream!Spec

LEMMA Sooner ==
    \A a, b \in Nat :
        a < MaxSequence => a < b + MaxSequence /\ (b > 0 => a + 1 < b + MaxSequence)
<1>1. MaxSequence \in Nat
  BY Sizes
<1> QED
  BY ONLY <1>1

\* No number is used twice.
OneTurn == \A e \in End : MaxSent(e) < MaxSequence

\* In a stream within one turn of the numbers, wherever it begins and wherever
\* they start again from zero, nothing under way is ever a turn old: packets may
\* stay under way as long as they like.
THEOREM OneTurnIsRecent == ASSUME OneTurn PROVE Spec => []Recent
<1>1. NumberedInv => Recent
  <2> SUFFICES ASSUME NumberedInv, NEW e \in End
               PROVE  /\ \A i \in 1..Len(net[e]) : sent[e] < net[e][i].taken + MaxSequence
                      /\ \A i \in 1..Len(unpacker[e]) :
                            sent[Other(e)] + 1 < unpacker[e][i].data + MaxSequence
    BY DEF Recent
  <2>1. PICK o \in End : o = Other(e)
    BY Ends
  <2>2. Numbered(e) /\ Numbered(o)
    BY DEF NumberedInv
  <2>3. \A d \in End : Numbered(d) => sent[d] \in Nat /\ sent[d] < MaxSequence
    <3> SUFFICES ASSUME NEW d \in End, Numbered(d) PROVE sent[d] \in Nat /\ sent[d] < MaxSequence
      OBVIOUS
    <3>1. sent[d] \in Nat /\ MaxSent(d) \in Nat /\ sent[d] \in 0..MaxSent(d) /\ MaxSent(d) < MaxSequence
      BY NumberedFacts DEF Numbered, OneTurn
    <3> QED
      BY <3>1, Sizes
  <2>4. sent[e] \in Nat /\ sent[e] < MaxSequence /\ sent[o] \in Nat /\ sent[o] < MaxSequence
    BY <2>2, <2>3
  <2>5. ASSUME NEW i \in 1..Len(net[e]) PROVE sent[e] < net[e][i].taken + MaxSequence
    <3>1. net[e][i].taken \in Nat
      <4>1. net[e][i] \in UnderWay(Len(received[Other(e)]), sent[Other(e)])
        BY <2>2, FedPacket
      <4> QED
        BY <4>1 DEF UnderWay, Packet
    <3> QED
      BY <3>1, <2>4, Sooner
  <2>6. ASSUME NEW i \in 1..Len(unpacker[e]) PROVE sent[o] + 1 < unpacker[e][i].data + MaxSequence
    <3>1. unpacker[e] \in Seq(Genuine(sent[o]))
      BY <2>1, <2>2, Zenon DEF Numbered
    <3>2. unpacker[e][i] \in Genuine(sent[o])
      BY <3>1, ElementOfSeq
    <3>3. unpacker[e][i].data \in 1..sent[o]
      BY <3>2 DEF Genuine
    <3>4. unpacker[e][i].data \in Nat /\ unpacker[e][i].data > 0
      BY <3>3, <2>4
    <3> QED
      BY <3>4, <2>4, Sooner
  <2> QED
    BY <2>1, <2>5, <2>6
<1> QED
  BY <1>1, NumberedHolds, PTL

\* Hence, within one turn, the stream is reliable without any further assumption.
COROLLARY ReliableWithinOneTurn ==
    ASSUME OneTurn
    PROVE  Spec => []KeptUntilTaken /\ []PeerHeard /\ InOrderOnce
  BY OneTurnIsRecent, KeptCorrect, HeardCorrect, ConnectionImplementsStream, PTL
=============================================================================
