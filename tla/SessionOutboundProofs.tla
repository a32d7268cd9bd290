----------------------- MODULE SessionOutboundProofs ------------------------
(***************************************************************************)
(* Machine-checked proofs about the outbound path of a Session, for every  *)
(* limit, every set of packet sizes and any number of packets: the single  *)
(* writer, the byte accounting of the bounded queue, the batches pop_batch *)
(* takes, and the stream the client receives.                              *)
(***************************************************************************)
EXTENDS SessionOutbound, SequenceTheorems, WellFoundedInduction, TLAPS

(***************************************************************************)
(* Induction over the naturals                                             *)
(***************************************************************************)

\* Every non-empty set of naturals has a least element.
LEMMA LeastNumber ==
    ASSUME NEW T, T \subseteq Nat, T # {}
    PROVE  \E x \in T : \A y \in T : x <= y
<1>1. PICK x \in T : \A y \in T : ~ (<<y, x>> \in OpToRel(<, Nat))
  BY NatLessThanWellFounded, WFMin, Zenon
<1>2. \A y \in T : <<y, x>> \in Nat \X Nat /\ <<y, x>>[1] = y /\ <<y, x>>[2] = x
  OBVIOUS
<1>3. \A y \in T : ~ (y < x)
  BY <1>1, <1>2, Zenon DEF OpToRel
<1> QED
  BY <1>3

\* A set with 0 and the successor of each of its naturals holds all naturals.
LEMMA AllNaturals ==
    ASSUME NEW S, 0 \in S, \A n \in Nat : n \in S => n + 1 \in S
    PROVE  Nat \subseteq S
<1> SUFFICES ASSUME Nat \ S # {} PROVE FALSE
  OBVIOUS
<1>1. PICK x \in Nat \ S : \A y \in Nat \ S : x <= y
  BY LeastNumber, Zenon
<1>2. x # 0 /\ x - 1 \in Nat /\ (x - 1) + 1 = x /\ ~(x <= x - 1)
  BY <1>1
<1>3. x - 1 \in S
  BY <1>1, <1>2
<1> QED
  BY <1>1, <1>2, <1>3

(***************************************************************************)
(* The bytes of a sequence of packets                                      *)
(***************************************************************************)

\* push refuses empty packets, so every queued packet has a byte.
QueuedPackets == [number: Nat, size: PacketSizes \ {0}]

\* The size of a queued packet.
LEMMA PacketSize ==
    ASSUME NEW packets \in Seq(QueuedPackets), NEW i \in 1..Len(packets)
    PROVE  packets[i] \in QueuedPackets /\ packets[i].size \in Nat /\ packets[i].size > 0
<1>1. packets[i] \in QueuedPackets
  OBVIOUS
<1>2. packets[i].size \in PacketSizes \ {0}
  BY <1>1 DEF QueuedPackets
<1>3. packets[i].size \in Nat /\ packets[i].size # 0
  BY <1>2, OutboundAssumption, Zenon
<1> QED
  BY <1>1, <1>3

\* The equation that defines the sizes of the prefixes.
LEMMA RunningBytesDef ==
    ASSUME NEW packets \in Seq(QueuedPackets)
    PROVE  RunningBytes(packets) =
               [i \in 0..Len(packets) |->
                    IF i = 0 THEN 0 ELSE RunningBytes(packets)[i - 1] + packets[i].size]
<1> DEFINE IsSum(n, f) == f = [i \in 0..n |-> IF i = 0 THEN 0 ELSE f[i - 1] + packets[i].size]
           S == {n \in Nat : \E f : IsSum(n, f)}
<1>1. 0 \in S
  <2>1. IsSum(0, [i \in 0..0 |-> 0])
    OBVIOUS
  <2> QED
    BY <2>1, Zenon
<1>2. ASSUME NEW n \in Nat, n \in S PROVE n + 1 \in S
  <2>1. PICK f : IsSum(n, f)
    BY <1>2
  <2> HIDE DEF IsSum
  <2> DEFINE g == [i \in 0..(n + 1) |-> IF i = n + 1 THEN f[n] + packets[n + 1].size ELSE f[i]]
  <2>2. \A i \in 0..n : f[i] = IF i = 0 THEN 0 ELSE f[i - 1] + packets[i].size
    BY <2>1, Zenon DEF IsSum
  <2>3. ASSUME NEW i \in 0..(n + 1)
        PROVE  g[i] = IF i = 0 THEN 0 ELSE g[i - 1] + packets[i].size
    <3>1. CASE i = 0
      BY <3>1, <2>2
    <3>2. CASE i # 0
      <4>1. i - 1 \in 0..n /\ g[i - 1] = f[i - 1]
        BY <3>2
      <4>2. CASE i = n + 1
        BY <4>1, <4>2, <3>2
      <4>3. CASE i # n + 1
        BY <4>1, <4>3, <3>2, <2>2
      <4> QED
        BY <4>2, <4>3
    <3> QED
      BY <3>1, <3>2
  <2>4. IsSum(n + 1, g)
    BY <2>3 DEF IsSum
  <2> QED
    BY <2>4
<1>3. \E f : IsSum(Len(packets), f)
  <2>1. Nat \subseteq S
    <3> HIDE DEF S
    <3> QED
      BY <1>1, <1>2, AllNaturals
  <2>2. Len(packets) \in Nat
    OBVIOUS
  <2> QED
    BY <2>1, <2>2
<1>4. RunningBytes(packets) = CHOOSE f : IsSum(Len(packets), f)
  BY DEF RunningBytes
<1>5. IsSum(Len(packets), RunningBytes(packets))
  <2> HIDE DEF IsSum
  <2> QED
    BY <1>3, <1>4
<1> QED
  BY <1>5

\* The same, one prefix at a time, and that sizes are naturals.
LEMMA RunningBytesStep ==
    ASSUME NEW packets \in Seq(QueuedPackets)
    PROVE  /\ RunningBytes(packets)[0] = 0
           /\ \A i \in 0..Len(packets) : RunningBytes(packets)[i] \in Nat
           /\ \A i \in 1..Len(packets) :
                 RunningBytes(packets)[i] = RunningBytes(packets)[i - 1] + packets[i].size
<1> DEFINE sum == RunningBytes(packets)
           S == {n \in Nat : n <= Len(packets) => sum[n] \in Nat}
<1>1. sum = [i \in 0..Len(packets) |-> IF i = 0 THEN 0 ELSE sum[i - 1] + packets[i].size]
  BY RunningBytesDef
<1> HIDE DEF sum
<1>2. Len(packets) \in Nat
  OBVIOUS
<1>3. sum[0] = 0
  BY <1>1, <1>2
<1>4. \A i \in 1..Len(packets) : sum[i] = sum[i - 1] + packets[i].size
  <2> TAKE i \in 1..Len(packets)
  <2>1. i \in 0..Len(packets) /\ i # 0
    BY <1>2
  <2> QED
    BY <1>1, <2>1, Zenon
<1>5. 0 \in S
  BY <1>3
<1>6. ASSUME NEW n \in Nat, n \in S PROVE n + 1 \in S
  <2>1. CASE n + 1 <= Len(packets)
    <3>1. n + 1 \in 1..Len(packets) /\ n <= Len(packets) /\ (n + 1) - 1 = n
      BY <2>1, <1>2
    <3>2. packets[n + 1].size \in Nat
      BY <3>1, PacketSize
    <3> QED
      BY <3>1, <3>2, <1>4, <1>6
  <2> QED
    BY <2>1, <1>2
<1>7. Nat \subseteq S
  <2> HIDE DEF S
  <2> QED
    BY <1>5, <1>6, AllNaturals
<1> QED
  BY <1>2, <1>3, <1>4, <1>7 DEF sum

\* Sequences that agree up to n have prefixes of n packets of the same size.
LEMMA RunningBytesAgree ==
    ASSUME NEW s \in Seq(QueuedPackets), NEW t \in Seq(QueuedPackets), NEW n \in Nat,
           n <= Len(s), n <= Len(t), \A i \in 1..n : s[i] = t[i]
    PROVE  RunningBytes(s)[n] = RunningBytes(t)[n]
<1> DEFINE S == {m \in Nat : m <= n => RunningBytes(s)[m] = RunningBytes(t)[m]}
<1>1. 0 \in S
  BY RunningBytesStep
<1>2. ASSUME NEW m \in Nat, m \in S PROVE m + 1 \in S
  <2>1. CASE m + 1 <= n
    <3>1. /\ m + 1 \in 1..n /\ m + 1 \in 1..Len(s) /\ m + 1 \in 1..Len(t)
          /\ m <= n /\ (m + 1) - 1 = m
      BY <2>1
    <3>2. /\ RunningBytes(s)[m + 1] = RunningBytes(s)[m] + s[m + 1].size
          /\ RunningBytes(t)[m + 1] = RunningBytes(t)[m] + t[m + 1].size
      BY <3>1, RunningBytesStep
    <3> QED
      BY <3>1, <3>2, <1>2
  <2> QED
    BY <2>1
<1>3. Nat \subseteq S
  <2> HIDE DEF S
  <2> QED
    BY <1>1, <1>2, AllNaturals, Zenon
<1> QED
  BY <1>3

\* The size of a prefix, of the rest and of the whole.
LEMMA BytesSplit ==
    ASSUME NEW packets \in Seq(QueuedPackets), NEW n \in 0..Len(packets)
    PROVE  /\ Bytes(packets) \in Nat
           /\ Bytes(SubSeq(packets, 1, n)) = RunningBytes(packets)[n]
           /\ Bytes(SubSeq(packets, 1, n)) \in Nat
           /\ Bytes(SubSeq(packets, n + 1, Len(packets))) \in Nat
           /\ Bytes(packets) = Bytes(SubSeq(packets, 1, n))
                                 + Bytes(SubSeq(packets, n + 1, Len(packets)))
<1> DEFINE front == SubSeq(packets, 1, n)
           rest == SubSeq(packets, n + 1, Len(packets))
           sum == RunningBytes(packets)
           S == {m \in Nat : m <= Len(rest) => sum[n + m] = sum[n] + RunningBytes(rest)[m]}
<1>1. /\ Len(packets) \in Nat /\ n \in Nat /\ n <= Len(packets)
      /\ front \in Seq(QueuedPackets) /\ Len(front) = n
      /\ \A i \in 1..n : front[i] = packets[i]
  OBVIOUS
<1>2. /\ rest \in Seq(QueuedPackets) /\ Len(rest) = Len(packets) - n
      /\ \A i \in 1..Len(rest) : rest[i] = packets[n + i]
  OBVIOUS
<1> HIDE DEF front, rest
<1>3. sum[n] = RunningBytes(front)[n]
  BY <1>1, RunningBytesAgree
<1>4. /\ \A i \in 0..Len(packets) : sum[i] \in Nat
      /\ \A i \in 1..Len(packets) : sum[i] = sum[i - 1] + packets[i].size
      /\ RunningBytes(rest)[0] = 0
      /\ \A i \in 0..Len(rest) : RunningBytes(rest)[i] \in Nat
      /\ \A i \in 1..Len(rest) : RunningBytes(rest)[i] = RunningBytes(rest)[i - 1] + rest[i].size
  BY <1>2, RunningBytesStep, Zenon
<1> HIDE DEF sum
<1>5. 0 \in S
  BY <1>1, <1>2, <1>4
<1>6. ASSUME NEW m \in Nat, m \in S PROVE m + 1 \in S
  <2>1. CASE m + 1 <= Len(rest)
    <3>1. /\ m + 1 \in 1..Len(rest) /\ n + (m + 1) \in 1..Len(packets)
          /\ (m + 1) - 1 = m /\ (n + (m + 1)) - 1 = n + m /\ m <= Len(rest)
          /\ m \in 0..Len(rest) /\ n + m \in 0..Len(packets)
      BY <2>1, <1>1, <1>2
    <3>2. packets[n + (m + 1)].size \in Nat
      BY <3>1, PacketSize
    <3>3. /\ sum[n + (m + 1)] = sum[n + m] + packets[n + (m + 1)].size
          /\ RunningBytes(rest)[m + 1] = RunningBytes(rest)[m] + packets[n + (m + 1)].size
      BY <3>1, <1>2, <1>4, Zenon
    <3>4. /\ sum[n] \in Nat /\ sum[n + m] \in Nat /\ RunningBytes(rest)[m] \in Nat
          /\ sum[n + m] = sum[n] + RunningBytes(rest)[m]
      BY <3>1, <1>1, <1>4, <1>6
    <3>5. sum[n + (m + 1)] = sum[n] + RunningBytes(rest)[m + 1]
      <4> DEFINE a == sum[n]
                 b == RunningBytes(rest)[m]
                 c == packets[n + (m + 1)].size
      <4>1. sum[n + (m + 1)] = (a + b) + c /\ RunningBytes(rest)[m + 1] = b + c
        BY <3>3, <3>4, Zenon
      <4>2. a \in Nat /\ b \in Nat /\ c \in Nat
        BY <3>2, <3>4, Zenon
      <4> HIDE DEF a, b, c
      <4>3. (a + b) + c = a + (b + c)
        BY <4>2
      <4>4. sum[n + (m + 1)] = a + RunningBytes(rest)[m + 1]
        BY <4>1, <4>3, Zenon
      <4> QED
        BY <4>4, Zenon DEF a
    <3> QED
      BY <3>5
  <2> QED
    BY <2>1, <1>2, <1>1
<1>7. Nat \subseteq S
  <2> HIDE DEF S
  <2> QED
    BY <1>5, <1>6, AllNaturals
<1>8. n + Len(rest) = Len(packets) /\ Len(rest) \in Nat
  BY <1>1, <1>2
<1>9. sum[Len(packets)] = sum[n] + RunningBytes(rest)[Len(rest)]
  BY <1>7, <1>8
<1>10. /\ Bytes(packets) = sum[Len(packets)] /\ Bytes(front) = sum[n]
       /\ Bytes(rest) = RunningBytes(rest)[Len(rest)]
  BY <1>1, <1>3, Zenon DEF Bytes, sum
<1>11. Len(packets) \in 0..Len(packets) /\ n \in 0..Len(packets) /\ Len(rest) \in 0..Len(rest)
  BY <1>1, <1>8
<1>12. /\ Bytes(packets) \in Nat /\ Bytes(front) \in Nat /\ Bytes(rest) \in Nat
       /\ Bytes(packets) = Bytes(front) + Bytes(rest)
  BY <1>4, <1>9, <1>10, <1>11, Zenon
<1> QED
  BY <1>10, <1>12, Zenon DEF front, rest, sum

\* The sizes of no packet, of one packet and of one packet more.
LEMMA BytesAppend ==
    ASSUME NEW packets \in Seq(QueuedPackets), NEW packet \in QueuedPackets
    PROVE  /\ Bytes(Append(packets, packet)) = Bytes(packets) + packet.size
           /\ Bytes(<<>>) = 0
           /\ Bytes(<<packet>>) = packet.size
<1> DEFINE more == Append(packets, packet)
<1>1. /\ more \in Seq(QueuedPackets) /\ Len(packets) \in Nat /\ Len(more) = Len(packets) + 1
      /\ \A i \in 1..Len(packets) : more[i] = packets[i]
      /\ more[Len(packets) + 1] = packet
  OBVIOUS
<1>2. /\ <<>> \in Seq(QueuedPackets) /\ Len(<<>>) = 0
      /\ <<packet>> \in Seq(QueuedPackets) /\ Len(<<packet>>) = 1 /\ <<packet>>[1] = packet
  OBVIOUS
<1> HIDE DEF more
<1>3. RunningBytes(more)[Len(packets)] = RunningBytes(packets)[Len(packets)]
  BY <1>1, RunningBytesAgree
<1>4. RunningBytes(more)[Len(more)] = RunningBytes(more)[Len(packets)] + packet.size
  <2>1. Len(more) \in 1..Len(more) /\ Len(more) - 1 = Len(packets)
    BY <1>1
  <2> QED
    BY <2>1, <1>1, RunningBytesStep
<1>5. Bytes(<<>>) = 0
  BY <1>2, RunningBytesStep, Zenon DEF Bytes
<1>6. RunningBytes(<<packet>>)[1] = 0 + packet.size
  <2>1. 1 \in 1..Len(<<packet>>) /\ 1 - 1 = 0
    BY <1>2
  <2> DEFINE single == <<packet>>
  <2>2. single \in Seq(QueuedPackets) /\ 1 \in 1..Len(single) /\ single[1] = packet
    BY <2>1, <1>2, Zenon
  <2> HIDE DEF single
  <2>3. RunningBytes(single)[0] = 0
        /\ RunningBytes(single)[1] = RunningBytes(single)[1 - 1] + single[1].size
    BY <2>2, RunningBytesStep, Zenon
  <2>4. RunningBytes(single)[1] = 0 + packet.size
    BY <2>1, <2>2, <2>3, Zenon
  <2> QED
    BY <2>4, Zenon DEF single
<1>7. packet.size \in Nat
  BY <1>2, <1>1, PacketSize, 1 \in 1..1
<1> QED
  BY <1>1, <1>2, <1>3, <1>4, <1>5, <1>6, <1>7 DEF Bytes, more

(***************************************************************************)
(* The batch pop_batch takes                                               *)
(***************************************************************************)

\* A subtraction of sizes that stays above zero does not wrap.
LEMMA MinusExact ==
    ASSUME NEW a \in Nat, NEW b \in Nat, b <= a, a < SizeModulus
    PROVE  Minus(a, b) = a - b
BY QueueAssumption DEF Minus

\* The loop of pop_batch takes a packet as long as there is one and it fits, and
\* the first one always.
LEMMA BatchStops ==
    ASSUME NEW packets \in Seq(QueuedPackets)
    PROVE  /\ BatchLength(packets) \in 0..Len(packets)
           /\ ~TakesNext(packets, BatchLength(packets))
           /\ \A m \in 0..(BatchLength(packets) - 1) : TakesNext(packets, m)
<1> DEFINE T == {n \in 0..Len(packets) : ~TakesNext(packets, n)}
<1>1. Len(packets) \in Nat
  OBVIOUS
<1>2. Len(packets) \in T /\ T \subseteq Nat
  BY <1>1 DEF TakesNext
<1>3. BatchLength(packets) = CHOOSE n \in T : \A m \in T : n <= m
  BY OutboundAssumption, QueueAssumption DEF BatchLength, Min
<1> HIDE DEF T
<1>4. BatchLength(packets) \in T /\ \A m \in T : BatchLength(packets) <= m
  <2>1. \E n \in T : \A m \in T : n <= m
    BY <1>2, LeastNumber, Zenon
  <2> QED
    BY <2>1, <1>3, Zenon
<1>5. ASSUME NEW m \in 0..(BatchLength(packets) - 1) PROVE TakesNext(packets, m)
  <2>1. m \in 0..Len(packets) /\ ~(BatchLength(packets) <= m)
    BY <1>4, <1>1 DEF T
  <2> QED
    BY <2>1, <1>4 DEF T
<1> QED
  BY <1>4, <1>5 DEF T

\* What pop_batch takes: a packet of every queue that has one, no more than the
\* limits allow but for a single packet, and as much as they allow.
LEMMA BatchTaken ==
    ASSUME NEW packets \in Seq(QueuedPackets)
    PROVE  LET n == BatchLength(packets)
               taken == Bytes(SubSeq(packets, 1, n))
           IN  /\ n \in 0..Len(packets)
               /\ n = 0 <=> packets = <<>>
               /\ n <= MaxBatchPackets
               /\ n > 1 => taken <= MaxBatchBytes
               /\ n < Len(packets) =>
                     n = MaxBatchPackets \/ Bytes(SubSeq(packets, 1, n + 1)) > MaxBatchBytes
<1> DEFINE n == BatchLength(packets)
           sum == RunningBytes(packets)
<1>1. /\ Len(packets) \in Nat /\ n \in 0..Len(packets) /\ n \in Nat
      /\ MaxBatchPackets \in Nat /\ MaxBatchPackets > 0
      /\ MaxBatchBytes \in Nat /\ MaxBatchBytes > 0 /\ MaxBatchBytes < SizeModulus
  BY BatchStops, OutboundAssumption, QueueAssumption
<1>2. \A m \in 0..Len(packets) : Bytes(SubSeq(packets, 1, m)) = sum[m] /\ sum[m] \in Nat
  BY BytesSplit
<1>3. \A m \in 1..Len(packets) :
          sum[m] = sum[m - 1] + packets[m].size /\ packets[m].size \in Nat /\ packets[m].size > 0
  BY RunningBytesStep, PacketSize
<1> HIDE DEF n, sum
<1>4. n = 0 <=> packets = <<>>
  <2>1. CASE packets = <<>>
    BY <2>1, <1>1
  <2>2. CASE packets # <<>>
    <3>1. TakesNext(packets, 0)
      <4>1. 0 < Len(packets)
        BY <2>2, EmptySeq
      <4> QED
        BY <4>1, <1>1 DEF TakesNext
    <3> QED
      BY <3>1, <2>2, BatchStops DEF n
  <2> QED
    BY <2>1, <2>2
<1>5. ASSUME n > 0
      PROVE  /\ n - 1 < MaxBatchPackets /\ n \in 1..Len(packets) /\ n - 1 \in 0..Len(packets)
             /\ n > 1 => sum[n - 1] < MaxBatchBytes
                         /\ packets[n].size <= Minus(MaxBatchBytes, sum[n - 1])
  <2>1. n - 1 \in 0..(n - 1) /\ n \in 1..Len(packets) /\ n - 1 \in 0..Len(packets)
        /\ (n - 1) + 1 = n
    BY <1>1, <1>5
  <2>2. TakesNext(packets, n - 1)
    BY <2>1, BatchStops DEF n
  <2> QED
    BY <2>1, <2>2, <1>1, <1>2 DEF TakesNext
<1>6. n <= MaxBatchPackets
  BY <1>1, <1>5
<1>7. ASSUME n > 1 PROVE sum[n] <= MaxBatchBytes
  <2>1. /\ n \in 1..Len(packets) /\ n - 1 \in 0..Len(packets) /\ sum[n - 1] < MaxBatchBytes
        /\ packets[n].size <= Minus(MaxBatchBytes, sum[n - 1])
    BY <1>1, <1>5, <1>7
  <2>2. Minus(MaxBatchBytes, sum[n - 1]) = MaxBatchBytes - sum[n - 1]
    <3>1. sum[n - 1] \in Nat /\ sum[n - 1] <= MaxBatchBytes
      BY <2>1, <1>1, <1>2
    <3> QED
      BY <3>1, <1>1, MinusExact, Zenon
  <2>3. sum[n] = sum[n - 1] + packets[n].size /\ packets[n].size \in Nat /\ sum[n - 1] \in Nat
    BY <2>1, <1>2, <1>3, Zenon
  <2> QED
    BY <2>1, <2>2, <2>3, <1>1
<1>8. ASSUME n < Len(packets), n # MaxBatchPackets PROVE sum[n + 1] > MaxBatchBytes
  <2>1. /\ n # 0 /\ n < MaxBatchPackets /\ n \in 0..Len(packets)
        /\ n + 1 \in 1..Len(packets) /\ (n + 1) - 1 = n
    BY <1>1, <1>4, <1>6, <1>8
  <2>2. ~(sum[n] < MaxBatchBytes /\ packets[n + 1].size <= Minus(MaxBatchBytes, sum[n]))
    BY <2>1, <1>2, <1>8, BatchStops DEF TakesNext, n
  <2>3. sum[n + 1] = sum[n] + packets[n + 1].size /\ packets[n + 1].size \in Nat
        /\ packets[n + 1].size > 0 /\ sum[n] \in Nat
    BY <2>1, <1>2, <1>3
  <2>4. CASE sum[n] < MaxBatchBytes
    <3>1. Minus(MaxBatchBytes, sum[n]) = MaxBatchBytes - sum[n]
      BY <2>3, <2>4, <1>1, MinusExact
    <3> QED
      BY <3>1, <2>2, <2>3, <2>4, <1>1
  <2>5. CASE ~(sum[n] < MaxBatchBytes)
    BY <2>3, <2>5, <1>1
  <2> QED
    BY <2>4, <2>5
<1> QED
  BY <1>1, <1>2, <1>4, <1>6, <1>7, <1>8 DEF n

(***************************************************************************)
(* The inductive invariant of the outbound path                            *)
(***************************************************************************)

\* The packets queued and their bytes.
Queued == queue.packets
Pending == queue.pending_bytes

\* The batch being written, empty before the writer has started and without one.
InFlight == IF writers = <<>> THEN <<>> ELSE writers[1]

OffersTyped == offered \in Nat /\ posts \in Seq(PacketSizes)

TypeOK ==
    /\ OffersTyped
    /\ queue \in [packets: Seq(QueuedPackets), pending_bytes: Nat, closed: BOOLEAN]
    /\ write_in_progress \in BOOLEAN /\ stopped \in BOOLEAN
    /\ writers \in Seq(Seq(QueuedPackets))
    /\ accepted \in Nat /\ sent \in Seq(Nat)

\* The packets on the wire are 1, 2, 3, ...
SentInOrder == sent \in Seq(Nat) /\ \A k \in 1..Len(sent) : sent[k] = k

\* The queue is closed, and empty for good, exactly when the session is stopped.
WriterInv ==
    /\ SingleWriter
    /\ ~stopped /\ ~write_in_progress => Queued = <<>>
    /\ queue.closed <=> stopped
    /\ stopped => Queued = <<>>

ByteInv ==
    /\ Pending = Bytes(Queued)
    /\ Pending <= MaxPendingBytes
    /\ Len(InFlight) <= MaxBatchPackets
    /\ Len(InFlight) > 1 => Bytes(InFlight) <= MaxBatchBytes

\* What was sent, what is in flight and what is queued are the accepted packets,
\* numbered in that order; a stop loses the queued ones.
StreamInv ==
    /\ SentInOrder
    /\ \A k \in 1..Len(InFlight) : InFlight[k].number = Len(sent) + k
    /\ \A k \in 1..Len(Queued) : Queued[k].number = Len(sent) + Len(InFlight) + k
    /\ Len(sent) + Len(InFlight) + Len(Queued) <= accepted
    /\ ~stopped => accepted = Len(sent) + Len(InFlight) + Len(Queued)

OutboundInv == TypeOK /\ WriterInv /\ ByteInv /\ StreamInv

-----------------------------------------------------------------------------

\* The types of the parts, for the steps below.
LEMMA PartTypes ==
    ASSUME TypeOK
    PROVE  /\ Queued \in Seq(QueuedPackets) /\ Len(Queued) \in Nat
           /\ Pending \in Nat /\ queue.closed \in BOOLEAN
           /\ InFlight \in Seq(QueuedPackets) /\ Len(InFlight) \in Nat
           /\ accepted \in Nat /\ sent \in Seq(Nat) /\ Len(sent) \in Nat
<1>1. InFlight \in Seq(QueuedPackets)
  <2>1. CASE writers = <<>>
    BY <2>1 DEF InFlight
  <2>2. CASE writers # <<>>
    BY <2>2 DEF InFlight, TypeOK
  <2> QED
    BY <2>1, <2>2
<1>2. /\ queue.packets \in Seq(QueuedPackets) /\ queue.pending_bytes \in Nat
      /\ queue.closed \in BOOLEAN
  BY DEF TypeOK
<1>3. Queued \in Seq(QueuedPackets) /\ Pending \in Nat /\ queue.closed \in BOOLEAN
  BY <1>2, Zenon DEF Queued, Pending
<1>4. accepted \in Nat /\ sent \in Seq(Nat)
  BY Zenon DEF TypeOK
<1> QED
  BY <1>1, <1>3, <1>4

\* With at most one writer, a writer that takes a step is the only one.
LEMMA OnlyWriter ==
    ASSUME TypeOK, Len(writers) <= 1, NEW i \in DOMAIN writers
    PROVE  /\ i = 1 /\ Len(writers) = 1 /\ writers # <<>> /\ InFlight = writers[i]
           /\ OtherWriters(i) = <<>>
           /\ \A batch \in Seq(QueuedPackets) : [writers EXCEPT ![i] = batch] = <<batch>>
<1>1. writers \in Seq(Seq(QueuedPackets)) /\ DOMAIN writers = 1..Len(writers) /\ Len(writers) \in Nat
  BY DEF TypeOK
<1>2. i = 1 /\ Len(writers) = 1 /\ writers # <<>>
  BY <1>1
<1>3. OtherWriters(i) = <<>>
  <2>1. /\ SubSeq(writers, 1, 0) \in Seq(Seq(QueuedPackets)) /\ Len(SubSeq(writers, 1, 0)) = 0
        /\ SubSeq(writers, 2, 1) \in Seq(Seq(QueuedPackets)) /\ Len(SubSeq(writers, 2, 1)) = 0
    BY <1>1, <1>2
  <2>2. SubSeq(writers, 1, 0) = <<>> /\ SubSeq(writers, 2, 1) = <<>>
    BY <2>1, EmptySeq
  <2>3. <<>> \o <<>> = <<>>
    OBVIOUS
  <2>4. i - 1 = 0 /\ i + 1 = 2 /\ Len(writers) = 1
    BY <1>2
  <2> QED
    BY <2>2, <2>3, <2>4 DEF OtherWriters
<1>4. ASSUME NEW batch \in Seq(QueuedPackets) PROVE [writers EXCEPT ![i] = batch] = <<batch>>
  BY <1>1, <1>2
<1> QED
  BY <1>2, <1>3, <1>4 DEF InFlight

\* push accepts a packet only if it fits into what is left of the byte limit.
LEMMA PushAccepts ==
    ASSUME TypeOK, Pending <= MaxPendingBytes, NEW size \in PacketSizes,
           PushError(queue, size) = "none"
    PROVE  /\ ~queue.closed /\ size \in Nat /\ size # 0
           /\ Pending + size <= MaxPendingBytes
           /\ (Pending + size) % SizeModulus = Pending + size
<1>1. size \in Nat /\ Pending \in Nat
  BY PartTypes, OutboundAssumption
<1>2. ~queue.closed
  BY DEF PushError
<1>3. size # 0
  BY <1>2 DEF PushError
<1>4. ~(size > MaxPendingBytes)
  BY <1>2, <1>3, QueueAssumption DEF PushError
<1>5. ~(size > Minus(MaxPendingBytes, Pending))
  BY <1>2, <1>3, <1>4 DEF PushError, Pending
<1>6. Minus(MaxPendingBytes, Pending) = MaxPendingBytes - Pending
  BY <1>1, MinusExact, QueueAssumption
<1>7. Pending + size <= MaxPendingBytes
  BY <1>1, <1>5, <1>6, QueueAssumption
<1>8. (Pending + size) % SizeModulus = Pending + size
  BY <1>1, <1>7, QueueAssumption
<1> QED
  BY <1>1, <1>2, <1>3, <1>7, <1>8

(***************************************************************************)
(* Each step keeps the invariant                                           *)
(***************************************************************************)

LEMMA InitKeepsOutbound == Init => OutboundInv
<1> SUFFICES ASSUME Init PROVE OutboundInv
  OBVIOUS
<1>1. /\ posts = <<>> /\ sent = <<>> /\ writers = <<>> /\ InFlight = <<>>
      /\ queue = [packets |-> <<>>, pending_bytes |-> 0, closed |-> FALSE]
      /\ Queued = <<>> /\ Pending = 0 /\ queue.closed = FALSE
      /\ offered = 0 /\ accepted = 0 /\ stopped = FALSE /\ write_in_progress = FALSE
      /\ Len(<<>>) = 0
  BY DEF Init, EmptyQueue, InFlight, Queued, Pending
<1>2. Bytes(<<>>) = 0
  <2>1. <<>> \in Seq(QueuedPackets) /\ Len(<<>>) = 0
    OBVIOUS
  <2> QED
    BY <2>1, RunningBytesStep, Zenon DEF Bytes
<1>3. TypeOK
  <2>1. /\ <<>> \in Seq(PacketSizes) /\ <<>> \in Seq(QueuedPackets) /\ <<>> \in Seq(Nat)
        /\ <<>> \in Seq(Seq(QueuedPackets)) /\ 0 \in Nat
    OBVIOUS
  <2>2. queue \in [packets: Seq(QueuedPackets), pending_bytes: Nat, closed: BOOLEAN]
    BY <2>1, <1>1
  <2> QED
    BY <2>1, <2>2, <1>1, Zenon DEF TypeOK, OffersTyped
<1>4. WriterInv
  BY <1>1 DEF WriterInv, SingleWriter
<1>5. ByteInv
  BY <1>1, <1>2, QueueAssumption DEF ByteInv
<1>6. StreamInv
  BY <1>1 DEF StreamInv, SentInOrder
<1> QED
  BY <1>3, <1>4, <1>5, <1>6 DEF OutboundInv

\* stop_session closes the queue, whatever becomes of the writer.  sent has grown by
\* some of the batch in flight if the writer is the one that stops the session.
LEMMA StopKeepsOutbound ==
    ASSUME OutboundInv, StopSession(queue), OffersTyped',
           write_in_progress' \in BOOLEAN, UNCHANGED accepted,
           \/ UNCHANGED <<writers, sent>>
           \/ writers' = <<>> /\ SentInOrder' /\ Len(sent') <= Len(sent) + Len(InFlight)
    PROVE  OutboundInv' /\ stopped'
<1> USE DEF OutboundInv
<1>1. /\ Queued \in Seq(QueuedPackets) /\ Len(Queued) \in Nat
      /\ InFlight \in Seq(QueuedPackets) /\ Len(InFlight) \in Nat
      /\ accepted \in Nat /\ sent \in Seq(Nat) /\ Len(sent) \in Nat
  BY PartTypes
<1>9. Bytes(<<>>) = 0 /\ Len(<<>>) = 0
  <2>1. <<>> \in Seq(QueuedPackets) /\ Len(<<>>) = 0
    OBVIOUS
  <2> QED
    BY <2>1, RunningBytesStep, Zenon DEF Bytes
<1>2. /\ stopped' /\ stopped' = TRUE
      /\ queue' \in [packets: Seq(QueuedPackets), pending_bytes: Nat, closed: BOOLEAN]
      /\ queue'.closed = TRUE /\ Queued' = <<>> /\ Pending' = 0
  <2>1. CASE stopped
    <3>1. queue' = queue /\ Queued = <<>> /\ queue.closed
      BY <2>1 DEF StopSession, WriterInv
    <3>2. Pending = 0
      BY <3>1, <1>9, Zenon DEF ByteInv
    <3> QED
      BY <3>1, <3>2 DEF StopSession, TypeOK, Queued, Pending
  <2>2. CASE ~stopped
    BY <2>2 DEF StopSession, Close, Queued, Pending
  <2> QED
    BY <2>1, <2>2, Zenon
<1>3. /\ writers \in Seq(Seq(QueuedPackets)) /\ Len(writers) <= 1
      /\ SentInOrder
      /\ \A k \in 1..Len(InFlight) : InFlight[k].number = Len(sent) + k
      /\ Len(sent) + Len(InFlight) + Len(Queued) <= accepted
  BY Zenon DEF TypeOK, WriterInv, SingleWriter, StreamInv
<1>4. /\ writers' \in Seq(Seq(QueuedPackets)) /\ sent' \in Seq(Nat)
      /\ Len(writers') <= 1
  <2>1. <<>> \in Seq(Seq(QueuedPackets)) /\ Len(<<>>) <= 1
    OBVIOUS
  <2> QED
    BY <2>1, <1>1, <1>3, Zenon DEF SentInOrder
<1>5. TypeOK'
  BY <1>2, <1>4 DEF TypeOK
<1>6. WriterInv'
  BY <1>2, <1>4 DEF WriterInv, SingleWriter
<1>7. CASE UNCHANGED <<writers, sent>>
  <2>1. InFlight' = InFlight
    BY <1>7 DEF InFlight
  <2>2. ByteInv'
    BY <2>1, <1>9, <1>2, QueueAssumption DEF ByteInv
  <2>3. StreamInv'
    <3>1. Len(sent) + Len(InFlight) + 0 <= accepted
      BY <1>1, <1>3
    <3>2. 1..0 = {}
      OBVIOUS
    <3> QED
      BY <3>1, <3>2, <2>1, <1>9, <1>2, <1>3, <1>7, Zenon DEF StreamInv, SentInOrder
  <2> QED
    BY <2>2, <2>3, <1>2, <1>5, <1>6
<1>8. CASE writers' = <<>> /\ SentInOrder' /\ Len(sent') <= Len(sent) + Len(InFlight)
  <2>1. InFlight' = <<>> /\ Len(sent') \in Nat
    BY <1>4, <1>8 DEF InFlight
  <2>2. ByteInv'
    BY <2>1, <1>9, <1>2, QueueAssumption DEF ByteInv
  <2>3. StreamInv'
    <3>1. Len(sent') + 0 + 0 <= accepted
      BY <2>1, <1>1, <1>3, <1>8
    <3>2. 1..0 = {}
      OBVIOUS
    <3> QED
      BY <3>1, <3>2, <2>1, <1>9, <1>2, <1>8, Zenon DEF StreamInv
  <2> QED
    BY <2>2, <2>3, <1>2, <1>5, <1>6
<1> QED
  BY <1>7, <1>8

\* enqueue_outbound: an accepted packet takes the next number and has a writer.
LEMMA EnqueueKeepsOutbound ==
    ASSUME OutboundInv, NEW size \in PacketSizes, EnqueueOutbound(size),
           OffersTyped', UNCHANGED sent
    PROVE  OutboundInv'
<1> USE DEF OutboundInv
<1>1. /\ Queued \in Seq(QueuedPackets) /\ Len(Queued) \in Nat
      /\ Pending \in Nat
      /\ InFlight \in Seq(QueuedPackets) /\ Len(InFlight) \in Nat
      /\ accepted \in Nat /\ sent \in Seq(Nat) /\ Len(sent) \in Nat
  BY PartTypes
<1>2. CASE stopped
  <2>1. UNCHANGED <<queue, write_in_progress, stopped, writers, accepted, sent>>
    BY <1>2 DEF EnqueueOutbound
  <2> QED
    BY <2>1 DEF TypeOK, WriterInv, SingleWriter, ByteInv, StreamInv, SentInOrder, InFlight,
                Queued, Pending
<1>3. CASE ~stopped /\ PushError(queue, size) # "none"
  <2>1. StopSession(queue) /\ UNCHANGED <<write_in_progress, writers, accepted>>
    BY <1>3 DEF EnqueueOutbound
  <2>2. write_in_progress' \in BOOLEAN
    BY <2>1 DEF TypeOK
  <2> QED
    BY <2>1, <2>2, StopKeepsOutbound
<1>4. CASE ~stopped /\ PushError(queue, size) = "none"
  <2> DEFINE packet == [number |-> accepted + 1, size |-> size]
  <2>1. /\ queue' = Push(queue, packet) /\ accepted' = accepted + 1 /\ stopped' = stopped
        /\ write_in_progress' = TRUE
        /\ writers' = IF write_in_progress THEN writers ELSE Append(writers, <<>>)
    BY <1>4 DEF EnqueueOutbound, StartWriterIfIdle
  <2>2. /\ ~queue.closed /\ size \in Nat /\ size # 0
        /\ Pending + size <= MaxPendingBytes
        /\ (Pending + size) % SizeModulus = Pending + size
    BY <1>4, PushAccepts DEF ByteInv
  <2>3. packet \in QueuedPackets /\ packet.size = size /\ packet.number = accepted + 1
    BY <2>2, <1>1 DEF QueuedPackets
  <2> HIDE DEF packet
  <2>4. /\ queue' = [packets |-> Append(Queued, packet),
                     pending_bytes |-> Pending + size, closed |-> queue.closed]
        /\ Queued' = Append(Queued, packet)
        /\ Pending' = Pending + size
        /\ queue'.closed = queue.closed
    BY <2>1, <2>2, <2>3, Zenon DEF Push, TypeOK, Queued, Pending
  <2>5. /\ Queued' \in Seq(QueuedPackets)
        /\ Len(Queued') = Len(Queued) + 1
        /\ \A k \in 1..Len(Queued) : Queued'[k] = Queued[k]
        /\ Queued'[Len(Queued) + 1] = packet
    BY <2>3, <2>4, <1>1
  <2>6. /\ writers' \in Seq(Seq(QueuedPackets)) /\ Len(writers') = 1 /\ InFlight' = InFlight
    <3>1. CASE write_in_progress
      BY <3>1, <2>1, <1>4 DEF TypeOK, WriterInv, SingleWriter, InFlight
    <3>2. CASE ~write_in_progress
      <4>1. Len(writers) = 0 /\ writers \in Seq(Seq(QueuedPackets))
        <5>1. Len(writers) <= 1 /\ Len(writers) # 1 /\ writers \in Seq(Seq(QueuedPackets))
          BY <3>2, <1>4, Zenon DEF TypeOK, WriterInv, SingleWriter
        <5>2. Len(writers) \in Nat /\ \A n \in Nat : n <= 1 /\ n # 1 => n = 0
          BY <5>1
        <5> QED
          BY <5>1, <5>2, Zenon
      <4>2. writers = <<>>
        BY <4>1, EmptySeq
      <4>3. writers' = <<<<>>>>
        BY <4>2, <3>2, <2>1, SMTT(30)
      <4> QED
        BY <4>2, <4>3 DEF InFlight
    <3> QED
      BY <3>1, <3>2
  <2>7. TypeOK'
    BY <2>1, <2>2, <2>4, <2>5, <2>6, <1>1, SMTT(30) DEF TypeOK
  <2>8. WriterInv'
    BY <2>1, <2>2, <2>4, <2>6, <1>4 DEF WriterInv, SingleWriter
  <2>9. ByteInv'
    <3>1. Bytes(Queued') = Bytes(Queued) + size
      BY <2>3, <2>4, <1>1, BytesAppend, Zenon
    <3> QED
      BY <3>1, <2>2, <2>4, <2>6 DEF ByteInv
  <2>10. StreamInv'
    <3>0. accepted = Len(sent) + Len(InFlight) + Len(Queued)
      BY <1>4, Zenon DEF StreamInv
    <3>1. accepted' = Len(sent) + Len(InFlight) + Len(Queued')
      BY <3>0, <2>1, <2>5, <1>1
    <3>2. ASSUME NEW k \in 1..Len(Queued')
          PROVE  Queued'[k].number = Len(sent) + Len(InFlight) + k
      <4>1. CASE k \in 1..Len(Queued)
        BY <4>1, <2>5 DEF StreamInv
      <4>2. CASE k \notin 1..Len(Queued)
        <5>1. k = Len(Queued) + 1
          BY <4>2, <2>5, <1>1
        <5> QED
          BY <5>1, <3>0, <2>3, <2>5, <1>1
      <4> QED
        BY <4>1, <4>2
    <3> QED
      <4>1. Len(sent) + Len(InFlight) + Len(Queued') <= accepted'
        BY <3>1, <2>5, <1>1
      <4>2. SentInOrder /\ \A k \in 1..Len(InFlight) : InFlight[k].number = Len(sent) + k
        BY Zenon DEF StreamInv
      <4> QED
        BY <4>1, <4>2, <3>1, <3>2, <2>6, Zenon DEF StreamInv, SentInOrder
  <2> QED
    BY <2>7, <2>8, <2>9, <2>10
<1> QED
  BY <1>2, <1>3, <1>4

\* The head of the writer's loop, with the batch in flight on the wire: the writer
\* ends with nothing queued, or takes the next packets off the queue.
LEMMA LoopKeepsOutbound ==
    ASSUME OutboundInv, NEW i \in DOMAIN writers, WriterLoop(i),
           UNCHANGED <<offered, posts, stopped, accepted>>, SentInOrder',
           Len(sent') = Len(sent) + Len(InFlight)
    PROVE  OutboundInv'
<1> USE DEF OutboundInv
<1> DEFINE n == BatchLength(Queued)
           batch == SubSeq(Queued, 1, n)
           rest == SubSeq(Queued, n + 1, Len(Queued))
<1>1. /\ Queued \in Seq(QueuedPackets) /\ Len(Queued) \in Nat /\ Pending \in Nat
      /\ InFlight \in Seq(QueuedPackets) /\ Len(InFlight) \in Nat
      /\ accepted \in Nat /\ sent \in Seq(Nat) /\ Len(sent) \in Nat
      /\ sent' \in Seq(Nat) /\ Len(sent') \in Nat
  BY PartTypes DEF SentInOrder
<1>2. /\ Len(writers) = 1
      /\ OtherWriters(i) = <<>>
      /\ \A b \in Seq(QueuedPackets) : [writers EXCEPT ![i] = b] = <<b>>
  BY OnlyWriter, Zenon DEF WriterInv, SingleWriter
<1>3. /\ n \in 0..Len(Queued) /\ n \in Nat /\ (n = 0 <=> Queued = <<>>) /\ n <= MaxBatchPackets
      /\ n > 1 => Bytes(batch) <= MaxBatchBytes
  BY <1>1, BatchTaken
<1>4. /\ \A k \in 1..Len(Queued) : Queued[k].number = Len(sent) + Len(InFlight) + k
      /\ Len(sent) + Len(InFlight) + Len(Queued) <= accepted
      /\ ~stopped => accepted = Len(sent) + Len(InFlight) + Len(Queued)
      /\ Pending = Bytes(Queued) /\ Pending <= MaxPendingBytes
      /\ queue.closed <=> stopped
      /\ stopped => Queued = <<>>
  BY Zenon DEF StreamInv, ByteInv, WriterInv
<1>5. /\ batch \in Seq(QueuedPackets) /\ Len(batch) = n
      /\ rest \in Seq(QueuedPackets) /\ Len(rest) = Len(Queued) - n
      /\ \A k \in 1..n : batch[k] = Queued[k] /\ k \in 1..Len(Queued)
      /\ \A k \in 1..Len(rest) : rest[k] = Queued[n + k] /\ n + k \in 1..Len(Queued)
  <2> HIDE DEF n
  <2>1. /\ batch \in Seq(QueuedPackets) /\ Len(batch) = n
        /\ \A k \in 1..n : batch[k] = Queued[k] /\ k \in 1..Len(Queued)
    BY <1>1, <1>3
  <2>2. /\ rest \in Seq(QueuedPackets) /\ Len(rest) = Len(Queued) - n
        /\ \A k \in 1..Len(rest) : rest[k] = Queued[n + k] /\ n + k \in 1..Len(Queued)
    BY <1>1, <1>3
  <2> QED
    BY <2>1, <2>2, Zenon
<1>6. /\ Bytes(Queued) = Bytes(batch) + Bytes(rest)
      /\ Bytes(batch) \in Nat /\ Bytes(rest) \in Nat
  BY <1>1, <1>3, BytesSplit, Zenon
<1> HIDE DEF n, batch, rest
<1>7. CASE stopped \/ n = 0
  <2>1. /\ write_in_progress' = FALSE /\ writers' = <<>> /\ queue' = queue /\ stopped' = stopped
        /\ Queued' = Queued /\ Pending' = Pending /\ InFlight' = <<>>
    BY <1>2, <1>7 DEF WriterLoop, Queued, Pending, InFlight, n
  <2>2. Queued = <<>>
    BY <1>3, <1>4, <1>7, Zenon
  <2>3. <<>> \in Seq(Seq(QueuedPackets)) /\ Len(<<>>) = 0 /\ FALSE \in BOOLEAN /\ 1..0 = {}
    OBVIOUS
  <2>4. TypeOK'
    BY <2>1, <2>3, <1>1, Zenon DEF TypeOK, OffersTyped
  <2>5. WriterInv'
    BY <2>1, <2>2, <2>3, <1>4 DEF WriterInv, SingleWriter
  <2>6. ByteInv'
    BY <2>1, <2>3, <1>4, QueueAssumption DEF ByteInv
  <2>7. StreamInv'
    <3>1. /\ Len(sent') + Len(<<>>) + Len(Queued) <= accepted
          /\ ~stopped => accepted = Len(sent') + Len(<<>>) + Len(Queued)
      BY <1>1, <1>4, <2>3
    <3>2. 1..Len(<<>>) = {}
      BY <2>3
    <3>3. /\ SentInOrder' /\ accepted' = accepted /\ stopped' = stopped
          /\ InFlight' = <<>> /\ Queued' = <<>> /\ Queued = <<>>
      BY <2>1, <2>2, Zenon
    <3>4. /\ \A k \in 1..Len(InFlight') : InFlight'[k].number = Len(sent') + k
          /\ \A k \in 1..Len(Queued') : Queued'[k].number = Len(sent') + Len(InFlight') + k
      BY <3>2, <3>3
    <3>5. /\ Len(sent') + Len(InFlight') + Len(Queued') <= accepted'
          /\ ~stopped' => accepted' = Len(sent') + Len(InFlight') + Len(Queued')
      BY <3>1, <3>3, SMTT(30)
    <3> QED
      BY <3>3, <3>4, <3>5, Zenon DEF StreamInv
  <2> QED
    BY <2>4, <2>5, <2>6, <2>7
<1>8. CASE ~stopped /\ n # 0
  <2>1. /\ queue' = PopBatch(queue) /\ writers' = [writers EXCEPT ![i] = Batch(queue)]
        /\ UNCHANGED write_in_progress
    BY <1>8, Zenon DEF WriterLoop, n, Queued
  <2>2. Batch(queue) = batch
    BY DEF Batch, batch, n, Queued
  <2>3. writers' = <<batch>> /\ InFlight' = batch
    <3>1. writers' = <<batch>>
      BY <2>1, <2>2, <1>2, <1>5, Zenon
    <3> QED
      BY <3>1 DEF InFlight
  <2>4. /\ queue' = [packets |-> rest, pending_bytes |-> Minus(Pending, Bytes(batch)),
                     closed |-> queue.closed]
    BY <2>1, <2>2, Zenon DEF PopBatch, rest, n, TypeOK, Queued, Pending
  <2>5. Minus(Pending, Bytes(batch)) = Bytes(rest)
    <3>1. Minus(Pending, Bytes(batch)) = Pending - Bytes(batch)
      <4>1. Bytes(batch) <= Pending /\ Pending < SizeModulus
        BY <1>1, <1>4, <1>6, QueueAssumption, SMTT(30)
      <4> QED
        BY <4>1, <1>1, <1>6, MinusExact
    <3> QED
      BY <3>1, <1>1, <1>4, <1>6
  <2>6. /\ Queued' = rest /\ Pending' = Bytes(rest) /\ queue'.closed = queue.closed
        /\ queue' \in [packets: Seq(QueuedPackets), pending_bytes: Nat, closed: BOOLEAN]
    BY <2>4, <2>5, <1>5, <1>6, PartTypes DEF Queued, Pending
  <2>7. TypeOK'
    <3>1. <<batch>> \in Seq(Seq(QueuedPackets))
      BY <1>5
    <3> QED
      BY <3>1, <2>1, <2>3, <2>6, <1>1, Zenon DEF TypeOK, OffersTyped
  <2>8. WriterInv'
    <3>1. write_in_progress /\ Len(<<batch>>) = 1 /\ Len(<<batch>>) <= 1
      BY <1>2, <1>8 DEF WriterInv, SingleWriter
    <3> QED
      BY <3>1, <2>1, <2>3, <2>6, <1>4, <1>8 DEF WriterInv, SingleWriter
  <2>9. ByteInv'
    <3>1. Bytes(rest) <= MaxPendingBytes
      BY <1>1, <1>4, <1>6, QueueAssumption, SMTT(30)
    <3> QED
      BY <3>1, <2>3, <2>6, <1>3, <1>5, Zenon DEF ByteInv
  <2>10. StreamInv'
    <3>1. /\ Len(sent') + Len(batch) + Len(rest) <= accepted
          /\ ~stopped => accepted = Len(sent') + Len(batch) + Len(rest)
      <4>1. Len(batch) + Len(rest) = Len(Queued) /\ Len(batch) \in Nat /\ Len(rest) \in Nat
        BY <1>1, <1>3, <1>5
      <4>2. Len(sent') + Len(batch) + Len(rest) = Len(sent) + Len(InFlight) + Len(Queued)
        <5> DEFINE after == Len(sent')  before == Len(sent)  inflight == Len(InFlight)
                   taken == Len(batch)  left == Len(rest)  all == Len(Queued)
        <5>1. /\ after = before + inflight /\ taken + left = all
              /\ after \in Nat /\ before \in Nat /\ inflight \in Nat
              /\ taken \in Nat /\ left \in Nat /\ all \in Nat
          BY <4>1, <1>1, Zenon
        <5> HIDE DEF after, before, inflight, taken, left, all
        <5>2. after + taken + left = before + inflight + all
          BY <5>1
        <5> QED
          BY <5>2 DEF after, before, inflight, taken, left, all
      <4> QED
        BY <4>2, <1>4, Zenon
    <3>2. ASSUME NEW k \in 1..Len(batch) PROVE batch[k].number = Len(sent') + k
      BY <1>4, <1>5, Zenon
    <3>3. ASSUME NEW k \in 1..Len(rest) PROVE rest[k].number = Len(sent') + Len(batch) + k
      <4>1. rest[k].number = Len(sent) + Len(InFlight) + (n + k)
        BY <1>4, <1>5, ZenonT(30)
      <4> QED
        BY <4>1, <1>1, <1>3, <1>5
    <3> QED
      BY <3>1, <3>2, <3>3, <2>3, <2>6, Zenon DEF StreamInv
  <2> QED
    BY <2>7, <2>8, <2>9, <2>10
<1> QED
  BY <1>7, <1>8

\* The numbers of the first packets of the batch in flight continue the stream.
LEMMA SentGrows ==
    ASSUME OutboundInv, NEW n \in 0..Len(InFlight),
           sent' = sent \o Numbers(SubSeq(InFlight, 1, n))
    PROVE  SentInOrder' /\ Len(sent') = Len(sent) + n
<1> DEFINE part == SubSeq(InFlight, 1, n)
           numbers == Numbers(part)
<1>1. /\ InFlight \in Seq(QueuedPackets) /\ Len(InFlight) \in Nat
      /\ sent \in Seq(Nat) /\ Len(sent) \in Nat
  BY PartTypes DEF OutboundInv
<1>2. /\ \A k \in 1..Len(sent) : sent[k] = k
      /\ \A k \in 1..Len(InFlight) : InFlight[k].number = Len(sent) + k
  BY Zenon DEF OutboundInv, StreamInv, SentInOrder
<1>3. /\ part \in Seq(QueuedPackets) /\ Len(part) = n
      /\ \A k \in 1..n : part[k] = InFlight[k] /\ k \in 1..Len(InFlight)
  BY <1>1
<1> HIDE DEF part
<1>4. numbers = [k \in 1..n |-> part[k].number]
  BY <1>3 DEF Numbers
<1>5. \A k \in 1..n : part[k].number = Len(sent) + k
  BY <1>2, <1>3, Zenon
<1>6. /\ numbers \in Seq(Nat) /\ Len(numbers) = n
      /\ \A k \in 1..n : numbers[k] = Len(sent) + k
  BY <1>1, <1>4, <1>5
<1>7. sent' = sent \o numbers
  BY Zenon DEF part
<1> HIDE DEF numbers
<1>8. /\ sent' \in Seq(Nat) /\ Len(sent') = Len(sent) + n
      /\ \A k \in 1..(Len(sent) + n) :
            sent'[k] = IF k <= Len(sent) THEN sent[k] ELSE numbers[k - Len(sent)]
  <2>1. /\ sent \o numbers \in Seq(Nat) /\ Len(sent \o numbers) = Len(sent) + Len(numbers)
        /\ \A k \in 1..(Len(sent) + Len(numbers)) :
              (sent \o numbers)[k] = IF k <= Len(sent) THEN sent[k] ELSE numbers[k - Len(sent)]
    BY <1>1, <1>6, ConcatProperties, Zenon
  <2> QED
    BY <2>1, <1>6, <1>7, Zenon
<1>9. ASSUME NEW k \in 1..(Len(sent) + n) PROVE sent'[k] = k
  <2>1. CASE k <= Len(sent)
    BY <2>1, <1>1, <1>2, <1>8
  <2>2. CASE ~(k <= Len(sent))
    <3>1. k - Len(sent) \in 1..n /\ Len(sent) + (k - Len(sent)) = k
      BY <2>2, <1>1
    <3> QED
      BY <3>1, <2>2, <1>6, <1>8, Zenon
  <2> QED
    BY <2>1, <2>2, Zenon
<1> QED
  BY <1>8, <1>9 DEF SentInOrder

\* What the writer does keeps the invariant.
LEMMA WriterKeepsOutbound ==
    ASSUME OutboundInv, NEW i \in DOMAIN writers, WriterStep(i)
    PROVE  OutboundInv'
<1>1. /\ TypeOK /\ InFlight = writers[i] /\ OtherWriters(i) = <<>>
      /\ InFlight \in Seq(QueuedPackets) /\ Len(InFlight) \in Nat /\ sent \in Seq(Nat)
      /\ SentInOrder /\ write_in_progress \in BOOLEAN
  <2>1. TypeOK /\ Len(writers) <= 1 /\ SentInOrder
    BY Zenon DEF OutboundInv, WriterInv, SingleWriter, StreamInv
  <2> QED
    BY <2>1, OnlyWriter, PartTypes, Zenon DEF TypeOK
<1>2. CASE WriterStarts(i)
  <2>1. /\ InFlight = <<>> /\ WriterLoop(i) /\ UNCHANGED <<offered, posts, stopped, accepted, sent>>
    BY <1>1, <1>2 DEF WriterStarts
  <2>2. SentInOrder' /\ Len(sent') = Len(sent) + Len(InFlight)
    BY <1>1, <2>1 DEF SentInOrder
  <2> QED
    BY <2>1, <2>2, LoopKeepsOutbound, Zenon
<1>3. CASE WriteCompletes(i)
  <2>1. /\ sent' = sent \o Numbers(InFlight) /\ WriterLoop(i)
        /\ UNCHANGED <<offered, posts, stopped, accepted>>
    BY <1>1, <1>3 DEF WriteCompletes
  <2>2. SubSeq(InFlight, 1, Len(InFlight)) = InFlight /\ Len(InFlight) \in 0..Len(InFlight)
    BY <1>1, SubSeqFull
  <2>3. SentInOrder' /\ Len(sent') = Len(sent) + Len(InFlight)
    BY <2>1, <2>2, SentGrows, Zenon
  <2> QED
    BY <2>1, <2>3, LoopKeepsOutbound, Zenon
<1>4. CASE WriteFails(i)
  <2>1. PICK n \in 0..(Len(InFlight) - 1) : sent' = sent \o Numbers(SubSeq(InFlight, 1, n))
    BY <1>1, <1>4, Zenon DEF WriteFails
  <2>2. /\ write_in_progress' = FALSE /\ StopSession(queue) /\ writers' = <<>>
        /\ UNCHANGED <<offered, posts, accepted>>
    BY <1>1, <1>4 DEF WriteFails
  <2>3. n \in 0..Len(InFlight) /\ n <= Len(InFlight)
    BY <1>1
  <2>4. SentInOrder' /\ Len(sent') = Len(sent) + n
    BY <2>1, <2>3, SentGrows, Zenon
  <2>5. Len(sent') <= Len(sent) + Len(InFlight)
    BY <2>3, <2>4, <1>1
  <2>6. OffersTyped' /\ write_in_progress' \in BOOLEAN
    BY <2>2, <1>1, Zenon DEF TypeOK, OffersTyped
  <2> QED
    BY <2>2, <2>4, <2>5, <2>6, StopKeepsOutbound, Zenon
<1>5. CASE WriterThrows(i)
  <2>1. /\ StopSession(queue) /\ writers' = <<>>
        /\ UNCHANGED <<offered, posts, write_in_progress, accepted, sent>>
    BY <1>1, <1>5 DEF WriterThrows
  <2>2. SentInOrder' /\ Len(sent') <= Len(sent) + Len(InFlight)
    BY <2>1, <1>1 DEF SentInOrder
  <2>3. OffersTyped' /\ write_in_progress' \in BOOLEAN
    BY <2>1, <1>1, Zenon DEF TypeOK, OffersTyped
  <2> QED
    BY <2>1, <2>2, <2>3, StopKeepsOutbound, Zenon
<1> QED
  BY <1>2, <1>3, <1>4, <1>5, Zenon DEF WriterStep

LEMMA NextKeepsOutbound == OutboundInv /\ [Next]_vars => OutboundInv'
<1> SUFFICES ASSUME OutboundInv, [Next]_vars PROVE OutboundInv'
  OBVIOUS
<1>1. TypeOK /\ offered \in Nat /\ posts \in Seq(PacketSizes) /\ write_in_progress \in BOOLEAN
  BY Zenon DEF OutboundInv, TypeOK, OffersTyped
<1>2. CASE Deliver
  <2>1. PICK size \in PacketSizes : posts' = Append(posts, size)
    BY <1>2, Zenon DEF Deliver
  <2>2. /\ offered' = offered + 1
        /\ UNCHANGED <<queue, write_in_progress, stopped, writers, accepted, sent>>
    BY <1>2 DEF Deliver
  <2>3. OffersTyped'
    BY <2>1, <2>2, <1>1 DEF OffersTyped
  <2> QED
    BY <2>2, <2>3, Zenon DEF OutboundInv, TypeOK, WriterInv, SingleWriter, ByteInv, StreamInv,
                             SentInOrder, InFlight, Queued, Pending
<1>3. CASE DeliverHandler
  <2>1. /\ Head(posts) \in PacketSizes /\ EnqueueOutbound(Head(posts))
        /\ posts' \in Seq(PacketSizes) /\ UNCHANGED <<offered, sent>>
    BY <1>1, <1>3 DEF DeliverHandler
  <2> QED
    BY <2>1, <1>1, EnqueueKeepsOutbound, Zenon DEF OffersTyped
<1>4. CASE PingResponse
  <2>1. PICK size \in PacketSizes : EnqueueOutbound(size)
    BY <1>4, Zenon DEF PingResponse
  <2>2. offered' = offered + 1 /\ UNCHANGED <<posts, sent>>
    BY <1>4 DEF PingResponse
  <2>3. OffersTyped'
    BY <2>2, <1>1 DEF OffersTyped
  <2> QED
    BY <2>1, <2>2, <2>3, EnqueueKeepsOutbound, Zenon
<1>5. CASE ReaderStops
  <2>1. StopSession(queue)
        /\ UNCHANGED <<offered, posts, write_in_progress, writers, accepted, sent>>
    BY <1>5, Zenon DEF ReaderStops
  <2> QED
    BY <2>1, <1>1, StopKeepsOutbound, Zenon DEF OffersTyped
<1>6. ASSUME NEW i \in DOMAIN writers, WriterStep(i) PROVE OutboundInv'
  BY <1>6, WriterKeepsOutbound
<1>7. CASE Drained \/ UNCHANGED vars
  <2>1. UNCHANGED vars
    BY <1>7, Zenon DEF Drained
  <2> QED
    BY <2>1, Zenon DEF vars, OutboundInv, TypeOK, OffersTyped, WriterInv, SingleWriter, ByteInv,
                       StreamInv, SentInOrder, InFlight, Queued, Pending
<1> QED
  BY <1>2, <1>3, <1>4, <1>5, <1>6, <1>7, Zenon DEF Next

\* The inductive invariant of the outbound path holds of every run.
THEOREM OutboundInvariance == Spec => []OutboundInv
BY InitKeepsOutbound, NextKeepsOutbound, PTL DEF Spec

(***************************************************************************)
(* What follows from it                                                    *)
(***************************************************************************)

\* A session never has a second writer, and its flag says whether it has one.
THEOREM WriterIsSingle == Spec => []SingleWriter
<1>1. OutboundInv => SingleWriter
  BY DEF OutboundInv, WriterInv
<1> QED
  BY <1>1, OutboundInvariance, PTL

\* No packet is left in the queue of a running session without a writer.
THEOREM QueueIsServed == Spec => []NothingStranded
<1>1. OutboundInv => NothingStranded
  <2> SUFFICES ASSUME OutboundInv, ~stopped, ~write_in_progress
               PROVE  Queued = <<>> /\ Pending = 0
    BY DEF NothingStranded, Queued, Pending
  <2>1. Queued = <<>> /\ Pending = Bytes(Queued)
    BY Zenon DEF OutboundInv, WriterInv, ByteInv
  <2>2. <<>> \in Seq(QueuedPackets) /\ Len(<<>>) = 0
    OBVIOUS
  <2>3. Bytes(<<>>) = 0
    BY <2>2, RunningBytesStep, Zenon DEF Bytes
  <2> QED
    BY <2>1, <2>3, Zenon
<1> QED
  BY <1>1, OutboundInvariance, PTL

\* pending_bytes_ is exact, and queue and batch in flight stay within their limits.
THEOREM BytesStayBounded == Spec => []BytesBounded
<1>1. OutboundInv => BytesBounded
  <2> SUFFICES ASSUME OutboundInv PROVE BytesBounded
    OBVIOUS
  <2>1. /\ TypeOK /\ Len(writers) <= 1
        /\ Pending = Bytes(Queued) /\ Pending <= MaxPendingBytes
        /\ Len(InFlight) <= MaxBatchPackets
        /\ Len(InFlight) > 1 => Bytes(InFlight) <= MaxBatchBytes
    BY Zenon DEF OutboundInv, WriterInv, SingleWriter, ByteInv
  <2>2. ASSUME NEW i \in DOMAIN writers
        PROVE  /\ Len(writers[i]) <= MaxBatchPackets
               /\ Len(writers[i]) > 1 => Bytes(writers[i]) <= MaxBatchBytes
               /\ \E largest \in PacketSizes \cup {MaxBatchBytes} :
                     Pending + Bytes(writers[i]) <= MaxPendingBytes + largest
    <3>1. /\ InFlight = writers[i]
          /\ InFlight \in Seq(QueuedPackets) /\ Len(InFlight) \in Nat /\ Pending \in Nat
      BY <2>1, OnlyWriter, PartTypes, Zenon
    <3>2. Bytes(InFlight) \in Nat
      BY <3>1, BytesSplit, 0 \in 0..Len(InFlight)
    <3>3. \E largest \in PacketSizes \cup {MaxBatchBytes} :
              largest \in Nat /\ Bytes(InFlight) <= largest
      <4>1. CASE Len(InFlight) > 1
        BY <4>1, <2>1, QueueAssumption
      <4>2. CASE Len(InFlight) = 1
        <5>1. InFlight[1] \in QueuedPackets /\ InFlight = <<InFlight[1]>>
          BY <3>1, <4>2
        <5>2. Bytes(InFlight) = InFlight[1].size
          BY <3>1, <5>1, BytesAppend
        <5>3. InFlight[1].size \in PacketSizes \ {0}
          BY <5>1 DEF QueuedPackets
        <5>4. InFlight[1].size \in Nat
          BY <5>3, OutboundAssumption, Zenon
        <5>5. Bytes(InFlight) <= InFlight[1].size
          BY <5>2, <5>4, <3>2
        <5> QED
          BY <5>3, <5>4, <5>5, Zenon
      <4>3. CASE Len(InFlight) = 0
        <5>1. InFlight = <<>>
          BY <3>1, <4>3, EmptySeq
        <5>2. Bytes(InFlight) = 0
          BY <3>1, <4>3, RunningBytesStep, Zenon DEF Bytes
        <5> QED
          BY <5>2, QueueAssumption
      <4>4. \A n \in Nat : n > 1 \/ n = 1 \/ n = 0
        OBVIOUS
      <4> QED
        BY <4>1, <4>2, <4>3, <4>4, <3>1, Zenon
    <3> QED
      BY <3>1, <3>2, <3>3, <2>1, QueueAssumption
  <2> QED
    BY <2>1, <2>2, Zenon DEF BytesBounded, Queued, Pending
<1> QED
  BY <1>1, OutboundInvariance, PTL

\* pop_batch takes the longest prefix of the queue that its limits allow.
THEOREM BatchesAreLongest == Spec => []BatchIsLongestPrefix
<1>1. OutboundInv => BatchIsLongestPrefix
  <2> SUFFICES ASSUME OutboundInv PROVE BatchIsLongestPrefix
    OBVIOUS
  <2>1. Queued \in Seq(QueuedPackets)
    BY PartTypes DEF OutboundInv
  <2> QED
    BY <2>1, BatchTaken, Zenon DEF BatchIsLongestPrefix, Queued
<1> QED
  BY <1>1, OutboundInvariance, PTL

-----------------------------------------------------------------------------
(* The outbound path implements the promised stream, step by step. *)

SentAccepted == SentInOrder /\ Len(sent) \in 0..accepted

\* Nothing is sent that was not accepted.
LEMMA SentWereAccepted == OutboundInv => SentAccepted
<1> SUFFICES ASSUME OutboundInv PROVE SentAccepted
  OBVIOUS
<1> DEFINE out == Len(sent)
           flight == Len(InFlight)
           waiting == Len(Queued)
<1>1. /\ out \in Nat /\ flight \in Nat /\ waiting \in Nat /\ accepted \in Nat
      /\ out + flight + waiting <= accepted /\ SentInOrder
  BY PartTypes, Zenon DEF OutboundInv, StreamInv
<1> HIDE DEF out, flight, waiting
<1>2. out \in 0..accepted
  BY <1>1
<1> QED
  BY <1>1, <1>2, Zenon DEF out, SentAccepted

\* Packets that go out in order are a step of the stream.
LEMMA SendingTransmits ==
    ASSUME SentAccepted', Len(sent) <= Len(sent'), sent \in Seq(Nat),
           UNCHANGED accepted, stopped' \in {stopped, TRUE}
    PROVE  Stream!Transmit
<1> DEFINE n == Len(sent')
           old == Len(sent)
<1>1. sent' \in Seq(Nat) /\ \A k \in 1..n : sent'[k] = k
  BY Zenon DEF SentAccepted, SentInOrder
<1>2. n \in Nat /\ old \in Nat /\ DOMAIN sent' = 1..n
  BY <1>1
<1>3. sent' = [i \in 1..n |-> i]
  BY <1>1, <1>2
<1>4. n \in old..accepted
  <2>1. n \in 0..accepted /\ old <= n
    BY Zenon DEF SentAccepted
  <2> HIDE DEF n, old
  <2> QED
    BY <2>1, <1>2
<1> QED
  BY <1>3, <1>4, Zenon DEF Stream!Transmit

LEMMA NextImplementsStream ==
    ASSUME OutboundInv, SentAccepted', [Next]_vars
    PROVE  [Stream!Next]_Stream!streamVars
<1> DEFINE Silent == /\ UNCHANGED <<accepted, sent>>
                     /\ stopped' \in {stopped, TRUE}
<1>1. TypeOK /\ sent \in Seq(Nat) /\ Len(sent) \in Nat /\ Len(InFlight) \in Nat
  BY PartTypes, Zenon DEF OutboundInv
<1>2. Silent => [Stream!Next]_Stream!streamVars
  BY Zenon DEF Stream!Next, Stream!CutConnection, Stream!streamVars
<1>3. ASSUME NEW size \in PacketSizes, EnqueueOutbound(size), UNCHANGED sent
      PROVE  [Stream!Next]_Stream!streamVars
  <2>1. CASE stopped \/ PushError(queue, size) # "none"
    <3>1. Silent
      BY <1>3, <2>1, Zenon DEF EnqueueOutbound, StopSession
    <3> QED
      BY <3>1, <1>2, Zenon
  <2>2. CASE ~(stopped \/ PushError(queue, size) # "none")
    <3>1. Stream!AcceptPacket
      BY <1>3, <2>2, Zenon DEF EnqueueOutbound, Stream!AcceptPacket
    <3> QED
      BY <3>1, Zenon DEF Stream!Next
  <2> QED
    BY <2>1, <2>2, Zenon
<1>4. CASE Deliver \/ ReaderStops \/ Drained \/ UNCHANGED vars
  <2>1. Silent
    BY <1>4, Zenon DEF Deliver, ReaderStops, StopSession, Drained, vars
  <2> QED
    BY <2>1, <1>2, Zenon
<1>5. CASE DeliverHandler
  <2>1. posts \in Seq(PacketSizes) /\ posts # <<>> /\ EnqueueOutbound(Head(posts)) /\ UNCHANGED sent
    BY <1>1, <1>5, Zenon DEF DeliverHandler, TypeOK, OffersTyped
  <2>2. Head(posts) \in PacketSizes
    BY <2>1
  <2> QED
    BY <2>1, <2>2, <1>3, Zenon
<1>6. CASE PingResponse
  BY <1>6, <1>3, Zenon DEF PingResponse
<1>7. ASSUME NEW i \in DOMAIN writers, WriterStep(i)
      PROVE  [Stream!Next]_Stream!streamVars
  <2>1. InFlight = writers[i]
    BY <1>1, OnlyWriter, Zenon DEF OutboundInv, WriterInv, SingleWriter
  <2>2. CASE WriterStarts(i) \/ WriterThrows(i)
    <3>1. Silent
      BY <2>2, Zenon DEF WriterStarts, WriterThrows, StopSession
    <3> QED
      BY <3>1, <1>2, Zenon
  <2>3. CASE WriteCompletes(i) \/ WriteFails(i)
    <3>1. UNCHANGED accepted /\ stopped' \in {stopped, TRUE}
      BY <2>3, Zenon DEF WriteCompletes, WriteFails, StopSession
    <3>2. \E n \in 0..Len(InFlight) : sent' = sent \o Numbers(SubSeq(InFlight, 1, n))
      <4>1. CASE WriteFails(i)
        <5>1. PICK n \in 0..(Len(InFlight) - 1) : sent' = sent \o Numbers(SubSeq(InFlight, 1, n))
          BY <4>1, <2>1, <1>1 DEF WriteFails
        <5>2. n \in 0..Len(InFlight)
          BY <1>1
        <5> QED
          BY <5>1, <5>2, Zenon
      <4>2. CASE WriteCompletes(i)
        <5>1. InFlight \in Seq(QueuedPackets) /\ sent' = sent \o Numbers(InFlight)
          BY <4>2, <2>1, <1>1, PartTypes, Zenon DEF WriteCompletes
        <5>2. SubSeq(InFlight, 1, Len(InFlight)) = InFlight /\ Len(InFlight) \in 0..Len(InFlight)
          BY <5>1, <1>1, SubSeqFull
        <5> QED
          BY <5>1, <5>2, Zenon
      <4> QED
        BY <4>1, <4>2, <2>3, Zenon
    <3>3. PICK n \in 0..Len(InFlight) : Len(sent') = Len(sent) + n
      BY <3>2, SentGrows, Zenon
    <3>4. Len(sent) <= Len(sent')
      BY <3>3, <1>1
    <3>5. Stream!Transmit
      BY <3>1, <3>4, <1>1, SendingTransmits, Zenon
    <3> QED
      BY <3>5, Zenon DEF Stream!Next
  <2> QED
    BY <1>7, <2>2, <2>3, Zenon DEF WriterStep
<1> QED
  BY <1>4, <1>5, <1>6, <1>7, Zenon DEF Next

\* The client receives the accepted packets in order, none lost, repeated or skipped,
\* until the session is stopped: every step of the queue and its writers is a step of
\* that stream.
THEOREM OutboundImplementsStream == Spec => ImplementsStream
<1>1. Init => Stream!Init
  BY DEF Init, Stream!Init
<1>2. OutboundInv /\ OutboundInv' /\ [Next]_vars => [Stream!Next]_Stream!streamVars
  <2>1. OutboundInv' => SentAccepted'
    BY SentWereAccepted, PTL
  <2> QED
    BY <2>1, NextImplementsStream, Zenon
<1> QED
  BY <1>1, <1>2, OutboundInvariance, PTL DEF Spec, ImplementsStream, Stream!Spec
=============================================================================
