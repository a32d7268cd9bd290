------------------------ MODULE SessionMetricsProofs ------------------------
(***************************************************************************)
(* The peak of the posted bytes that a session records is exact, however   *)
(* the publishers' compare-and-exchange loops and the I/O thread           *)
(* interleave: proved for any number of publishers and of packets.         *)
(***************************************************************************)
EXTENDS SessionMetrics, TLAPS

Raising == {"peak_load", "peak_exchange"}
Places == Raising \cup {"idle", "holds", "post", "posted"}
PostedFields == {"posted_bytes", "posted_peak_bytes"}

PostedTypeOK ==
    /\ posts \in Seq(PacketSizes) /\ stopped \in BOOLEAN
    /\ PostedFields \subseteq DOMAIN metrics
    /\ \A field \in PostedFields : metrics[field] \in Nat
    /\ publisher \in [Publishers -> [at : Places, size : Nat, value : Nat, previous : Nat]]
    /\ highest \in Nat

\* A raise that is still due is at most the highest value; an exchange is tried only
\* to raise; and the highest value is the peak already, or some publisher still has
\* to bring it there.
PeakInv ==
    /\ PostedTypeOK
    /\ metrics["posted_peak_bytes"] <= highest
    /\ \A p \in Publishers : publisher[p].at \in Raising => publisher[p].value <= highest
    /\ \A p \in Publishers :
          publisher[p].at = "peak_exchange" => publisher[p].previous < publisher[p].value
    /\ \/ metrics["posted_peak_bytes"] = highest
       \/ \E p \in Publishers : publisher[p].at \in Raising /\ publisher[p].value = highest

\* The calls of the I/O thread leave the two posted fields alone.
Kept(m, n) ==
    /\ PostedFields \subseteq DOMAIN n
    /\ \A field \in PostedFields : n[field] = m[field]

LEMMA MaxOfTwo ==
    ASSUME NEW a \in Nat, NEW b \in Nat
    PROVE  Max({a, b}) \in Nat /\ Max({a, b}) \in {a, b} /\ Max({a, b}) >= a /\ Max({a, b}) >= b
<1>1. \E x \in {a, b} : \A y \in {a, b} : x >= y
  <2>1. CASE a >= b
    BY <2>1
  <2>2. CASE b >= a
    BY <2>2
  <2> QED
    BY <2>1, <2>2
<1>2. Max({a, b}) \in {a, b} /\ \A y \in {a, b} : Max({a, b}) >= y
  BY <1>1, Zenon DEF Max
<1> QED
  BY <1>2

LEMMA KeptOnce ==
    ASSUME NEW m, PostedFields \subseteq DOMAIN m, NEW field, field \notin PostedFields, NEW value
    PROVE  Kept(m, [m EXCEPT ![field] = value])
BY DEF Kept, PostedFields

LEMMA KeptTwice ==
    ASSUME NEW m, NEW n, NEW o, Kept(m, n), Kept(n, o)
    PROVE  Kept(m, o)
BY DEF Kept

LEMMA KeptAll ==
    ASSUME NEW m, PostedFields \subseteq DOMAIN m
    PROVE  Kept(m, m)
BY DEF Kept

LEMMA PlusKeeps ==
    ASSUME NEW m, PostedFields \subseteq DOMAIN m, NEW field, field \notin PostedFields, NEW n
    PROVE  Kept(m, Plus(m, field, n)) /\ PostedFields \subseteq DOMAIN Plus(m, field, n)
<1>1. Kept(m, Plus(m, field, n))
  BY KeptOnce, Zenon DEF Plus
<1> QED
  BY <1>1, Zenon DEF Kept

LEMMA RaiseKeeps ==
    ASSUME NEW m, PostedFields \subseteq DOMAIN m, NEW field, field \notin PostedFields, NEW n
    PROVE  Kept(m, Raise(m, field, n)) /\ PostedFields \subseteq DOMAIN Raise(m, field, n)
<1>1. Kept(m, Raise(m, field, n))
  BY KeptOnce, Zenon DEF Raise
<1> QED
  BY <1>1, Zenon DEF Kept

LEMMA QueueChangedKeeps ==
    ASSUME NEW m, PostedFields \subseteq DOMAIN m, NEW rest
    PROVE  Kept(m, QueueChanged(m, rest))
<1> DEFINE queued == [m EXCEPT !["queued_packets"] = Len(rest.packets)]
           bytes == [queued EXCEPT !["queued_bytes"] = rest.pending_bytes]
<1>1. Kept(m, queued) /\ PostedFields \subseteq DOMAIN queued
  BY KeptOnce, Zenon DEF PostedFields
<1>2. Kept(queued, bytes) /\ PostedFields \subseteq DOMAIN bytes
  BY <1>1, KeptOnce, Zenon DEF PostedFields
<1>3. Kept(bytes, Raise(bytes, "queue_peak_bytes", rest.pending_bytes))
  BY <1>2, RaiseKeeps, Zenon DEF PostedFields
<1>4. QueueChanged(m, rest) = Raise(bytes, "queue_peak_bytes", rest.pending_bytes)
  BY DEF QueueChanged
<1> QED
  BY <1>1, <1>2, <1>3, <1>4, KeptTwice, Zenon

LEMMA BatchStartedKeeps ==
    ASSUME NEW m, PostedFields \subseteq DOMAIN m, NEW batch
    PROVE  Kept(m, BatchStarted(m, batch))
<1> DEFINE packets == [m EXCEPT !["inflight_packets"] = Len(batch)]
           inflight == [packets EXCEPT !["inflight_bytes"] = Bytes(batch)]
           peak == Raise(inflight, "inflight_peak_bytes", Bytes(batch))
           peaks == Raise(peak, "max_batch_packets", Len(batch))
           started == Plus(peaks, "started", 1)
           batched == Plus(started, "packets_batched", Len(batch))
           requested == Plus(batched, "bytes_requested", Bytes(batch))
<1>0. /\ "inflight_peak_bytes" \notin PostedFields /\ "max_batch_packets" \notin PostedFields
      /\ "started" \notin PostedFields /\ "packets_batched" \notin PostedFields
      /\ "bytes_requested" \notin PostedFields
  BY DEF PostedFields
<1>1. Kept(m, packets) /\ PostedFields \subseteq DOMAIN packets
  BY KeptOnce, Zenon DEF PostedFields
<1>2. Kept(packets, inflight) /\ PostedFields \subseteq DOMAIN inflight
  BY <1>1, KeptOnce, Zenon DEF PostedFields
<1>3. Kept(inflight, peak) /\ PostedFields \subseteq DOMAIN peak
  BY <1>2, RaiseKeeps, <1>0, Zenon
<1>4. Kept(peak, peaks) /\ PostedFields \subseteq DOMAIN peaks
  BY <1>3, RaiseKeeps, <1>0, Zenon
<1>5. Kept(peaks, started) /\ PostedFields \subseteq DOMAIN started
  BY <1>4, PlusKeeps, <1>0, Zenon
<1>6. Kept(started, batched) /\ PostedFields \subseteq DOMAIN batched
  BY <1>5, PlusKeeps, <1>0, Zenon
<1>7. Kept(batched, requested)
  BY <1>6, PlusKeeps, <1>0, Zenon
<1>8. BatchStarted(m, batch) = requested
  BY DEF BatchStarted
<1> HIDE DEF packets, inflight, peak, peaks, started, batched, requested
<1>9. Kept(m, peak)
  BY <1>1, <1>2, <1>3, KeptTwice, Zenon
<1>10. Kept(m, started)
  BY <1>9, <1>4, <1>5, KeptTwice, Zenon
<1> QED
  BY <1>10, <1>6, <1>7, <1>8, KeptTwice, Zenon

LEMMA BatchFinishedKeeps ==
    ASSUME NEW m, PostedFields \subseteq DOMAIN m, NEW transferred,
           NEW failed \in BOOLEAN, NEW abandoned \in BOOLEAN
    PROVE  Kept(m, BatchFinished(m, transferred, failed, abandoned))
<1> DEFINE packets == [m EXCEPT !["inflight_packets"] = 0]
           cleared == [packets EXCEPT !["inflight_bytes"] = 0]
           counted == Plus(cleared, "bytes_transferred", transferred)
           completed == Plus(counted, "completed", 1)
<1>0. /\ "bytes_transferred" \notin PostedFields /\ "completed" \notin PostedFields
      /\ "abandoned" \notin PostedFields /\ "failed" \notin PostedFields
  BY DEF PostedFields
<1>1. Kept(m, packets) /\ PostedFields \subseteq DOMAIN packets
  BY KeptOnce DEF PostedFields
<1>2. Kept(packets, cleared) /\ PostedFields \subseteq DOMAIN cleared
  BY <1>1, KeptOnce, Zenon DEF PostedFields
<1>3. Kept(cleared, counted) /\ PostedFields \subseteq DOMAIN counted
  BY <1>2, PlusKeeps, <1>0, Zenon
<1>4. Kept(counted, completed) /\ PostedFields \subseteq DOMAIN completed
  BY <1>3, PlusKeeps, <1>0, Zenon
<1>5. Kept(cleared, Plus(cleared, "abandoned", 1)) /\ Kept(completed, Plus(completed, "failed", 1))
  BY <1>2, <1>4, PlusKeeps, <1>0, Zenon
<1>6. \/ BatchFinished(m, transferred, failed, abandoned) = Plus(cleared, "abandoned", 1)
      \/ BatchFinished(m, transferred, failed, abandoned) = Plus(completed, "failed", 1)
      \/ BatchFinished(m, transferred, failed, abandoned) = completed
  BY DEF BatchFinished
<1> HIDE DEF packets, cleared, counted, completed
<1>7. Kept(m, cleared)
  BY <1>1, <1>2, KeptTwice, Zenon
<1>8. Kept(m, completed)
  BY <1>7, <1>3, <1>4, KeptTwice, Zenon
<1>9. Kept(m, Plus(cleared, "abandoned", 1)) /\ Kept(m, Plus(completed, "failed", 1))
  BY <1>5, <1>7, <1>8, KeptTwice, Zenon
<1> QED
  BY <1>6, <1>8, <1>9, Zenon

LEMMA StopMetricsKeeps ==
    ASSUME NEW m, PostedFields \subseteq DOMAIN m, NEW overflow
    PROVE  Kept(m, StopMetrics(m, overflow))
<1> DEFINE changed == QueueChanged(m, Close(queue))
<1>1. Kept(m, changed) /\ PostedFields \subseteq DOMAIN changed
  BY QueueChangedKeeps, Zenon DEF Kept
<1>2. \A n : Kept(changed, Plus(changed, "overflow_closes", n))
  BY <1>1, PlusKeeps DEF PostedFields
<1> HIDE DEF changed
<1>3. \A n : Kept(m, Plus(changed, "overflow_closes", n))
  BY <1>1, <1>2, KeptTwice, Zenon
<1> QED
  BY <1>3, KeptAll, Zenon DEF StopMetrics, changed

LEMMA EnqueueMetricsKeeps ==
    ASSUME NEW m, PostedFields \subseteq DOMAIN m, NEW size, stopped \in BOOLEAN
    PROVE  Kept(m, EnqueueMetrics(m, size))
<1> DEFINE pushed == QueueChanged(m, Push(queue, [number |-> accepted + 1, size |-> size]))
           same == QueueChanged(m, queue)
           overflow == PushError(queue, size) = "byte_limit_exceeded"
<1>1. Kept(m, pushed) /\ Kept(m, same) /\ Kept(m, m) /\ PostedFields \subseteq DOMAIN same
  BY QueueChangedKeeps, KeptAll, Zenon DEF Kept
<1>2. Kept(same, StopMetrics(same, overflow))
  BY <1>1, StopMetricsKeeps, Zenon
<1>3. \/ EnqueueMetrics(m, size) = m
      \/ EnqueueMetrics(m, size) = pushed
      \/ EnqueueMetrics(m, size) = StopMetrics(same, overflow)
  BY Zenon DEF EnqueueMetrics
<1> HIDE DEF pushed, same, overflow
<1>4. Kept(m, StopMetrics(same, overflow))
  BY <1>1, <1>2, KeptTwice, Zenon
<1> QED
  BY <1>1, <1>3, <1>4, Zenon

LEMMA LoopMetricsKeeps ==
    ASSUME NEW m, PostedFields \subseteq DOMAIN m, stopped \in BOOLEAN
    PROVE  Kept(m, LoopMetrics(m))
<1> DEFINE popped == QueueChanged(m, PopBatch(queue))
           same == QueueChanged(m, queue)
<1>1. Kept(m, popped) /\ Kept(m, same) /\ Kept(m, m) /\ PostedFields \subseteq DOMAIN popped
  BY QueueChangedKeeps, KeptAll, Zenon DEF Kept
<1>2. Kept(popped, BatchStarted(popped, Batch(queue)))
  BY <1>1, BatchStartedKeeps, Zenon
<1>3. \/ LoopMetrics(m) = m
      \/ LoopMetrics(m) = same
      \/ LoopMetrics(m) = BatchStarted(popped, Batch(queue))
  BY Zenon DEF LoopMetrics
<1> HIDE DEF popped, same
<1>4. Kept(m, BatchStarted(popped, Batch(queue)))
  BY <1>1, <1>2, KeptTwice, Zenon
<1> QED
  BY <1>1, <1>3, <1>4, Zenon

\* A released post changes the gauge, not the peak.
LEMMA ReleaseKeepsPeak ==
    ASSUME NEW m, PostedFields \subseteq DOMAIN m, \A field \in PostedFields : m[field] \in Nat,
           NEW size \in Nat, NEW abandoned \in BOOLEAN
    PROVE  LET n == PostReleased(m, size, abandoned)
           IN  /\ PostedFields \subseteq DOMAIN n
               /\ n["posted_bytes"] \in Nat
               /\ n["posted_peak_bytes"] = m["posted_peak_bytes"]
<1> DEFINE jobs == Plus(m, "posted_jobs", -1)
           bytes == Plus(jobs, "posted_bytes", -size)
<1>0. "posted_jobs" \notin PostedFields /\ "posts_abandoned" \notin PostedFields
      /\ SizeModulus \in Nat /\ SizeModulus > 0
  BY QueueAssumption DEF PostedFields
<1>1. Kept(m, jobs) /\ PostedFields \subseteq DOMAIN jobs
  BY <1>0, PlusKeeps, Zenon
<1>2. jobs["posted_bytes"] \in Nat /\ jobs["posted_peak_bytes"] = m["posted_peak_bytes"]
  BY <1>1 DEF Kept, PostedFields
<1> HIDE DEF jobs
<1>3. /\ PostedFields \subseteq DOMAIN bytes
      /\ bytes["posted_bytes"] = (jobs["posted_bytes"] + (-size)) % SizeModulus
      /\ bytes["posted_peak_bytes"] = jobs["posted_peak_bytes"]
  BY <1>1 DEF Plus, PostedFields
<1>4. bytes["posted_bytes"] \in Nat
  BY <1>2, <1>3, <1>0
<1> HIDE DEF bytes
<1>5. Kept(bytes, Plus(bytes, "posts_abandoned", 1))
      /\ PostedFields \subseteq DOMAIN Plus(bytes, "posts_abandoned", 1)
  BY <1>0, <1>3, PlusKeeps, Zenon
<1>6. PostReleased(m, size, abandoned) \in {bytes, Plus(bytes, "posts_abandoned", 1)}
  BY Zenon DEF PostReleased, bytes, jobs
<1> QED
  BY <1>2, <1>3, <1>4, <1>5, <1>6 DEF Kept, PostedFields

\* Whatever leaves the peak and the publishers alone keeps the invariant.
LEMMA QuietKeepsPeak ==
    ASSUME PeakInv, UNCHANGED <<publisher, highest>>,
           posts' \in Seq(PacketSizes), stopped' \in BOOLEAN,
           PostedFields \subseteq DOMAIN metrics', metrics'["posted_bytes"] \in Nat,
           metrics'["posted_peak_bytes"] = metrics["posted_peak_bytes"]
    PROVE  PeakInv'
<1>1. PostedTypeOK'
  BY DEF PeakInv, PostedTypeOK, PostedFields
<1> QED
  BY <1>1, Zenon DEF PeakInv

LEMMA KeptKeepsPeak ==
    ASSUME PeakInv, UNCHANGED <<publisher, highest>>,
           posts' \in Seq(PacketSizes), stopped' \in BOOLEAN, Kept(metrics, metrics')
    PROVE  PeakInv'
<1>1. PostedFields \subseteq DOMAIN metrics' /\ metrics'["posted_bytes"] \in Nat
      /\ metrics'["posted_peak_bytes"] = metrics["posted_peak_bytes"]
  BY DEF PeakInv, PostedTypeOK, PostedFields, Kept
<1> QED
  BY <1>1, QuietKeepsPeak, Zenon

LEMMA PeakInitially == MetricsInit => PeakInv
<1> SUFFICES ASSUME MetricsInit PROVE PeakInv
  OBVIOUS
<1>1. posts = <<>> /\ stopped = FALSE /\ highest = 0
  BY DEF MetricsInit, Init
<1>2. PostedFields \subseteq DOMAIN metrics /\ \A field \in PostedFields : metrics[field] = 0
  BY DEF MetricsInit, PostedFields, Gauges, Peaks
<1>3. /\ publisher = [p \in Publishers |-> Idle]
      /\ Idle \in [at : Places, size : Nat, value : Nat, previous : Nat]
      /\ Idle.at = "idle"
  BY DEF MetricsInit, Idle, Places
<1>4. PostedTypeOK
  <2>1. posts \in Seq(PacketSizes) /\ highest \in Nat /\ 0 \in Nat
    BY <1>1
  <2>2. publisher \in [Publishers -> [at : Places, size : Nat, value : Nat, previous : Nat]]
    BY <1>3, Zenon
  <2> QED
    BY <1>1, <1>2, <2>1, <2>2, Zenon DEF PostedTypeOK
<1>5. \A p \in Publishers : publisher[p].at \notin Raising
  BY <1>3 DEF Raising
<1> QED
  BY <1>1, <1>2, <1>4, <1>5 DEF PeakInv, PostedFields, Raising

LEMMA StopTyped ==
    ASSUME stopped \in BOOLEAN, NEW size, EnqueueOutbound(size)
    PROVE  stopped' \in BOOLEAN
BY Zenon DEF EnqueueOutbound, StopSession

LEMMA IoKeepsPeak ==
    ASSUME PeakInv, IoStep \/ Retire
    PROVE  PeakInv'
<1>1. /\ posts \in Seq(PacketSizes) /\ stopped \in BOOLEAN
      /\ PostedFields \subseteq DOMAIN metrics
      /\ \A field \in PostedFields : metrics[field] \in Nat
  BY DEF PeakInv, PostedTypeOK
<1>2. CASE HandlerBegins
  <2> DEFINE released == PostReleased(metrics, Head(posts), FALSE)
  <2>1. /\ posts # <<>> /\ posts' = Tail(posts) /\ EnqueueOutbound(Head(posts))
        /\ metrics' = EnqueueMetrics(released, Head(posts)) /\ UNCHANGED <<publisher, highest>>
    BY <1>2, Zenon DEF HandlerBegins, DeliverHandler
  <2>2. Head(posts) \in PacketSizes /\ posts' \in Seq(PacketSizes)
    BY <1>1, <2>1
  <2>3. stopped' \in BOOLEAN
    BY <1>1, <2>1, StopTyped, Zenon
  <2>4. Head(posts) \in Nat /\ FALSE \in BOOLEAN
    BY <2>2, OutboundAssumption, Zenon
  <2>5. /\ PostedFields \subseteq DOMAIN released
        /\ released["posted_bytes"] \in Nat
        /\ released["posted_peak_bytes"] = metrics["posted_peak_bytes"]
    BY <1>1, <2>4, ReleaseKeepsPeak, Zenon
  <2> HIDE DEF released
  <2>6. Kept(released, metrics')
    <3>1. Kept(released, EnqueueMetrics(released, Head(posts)))
      BY <1>1, <2>5, EnqueueMetricsKeeps
    <3> QED
      BY <2>1, <3>1, Zenon
  <2>7. PostedFields \subseteq DOMAIN metrics' /\ metrics'["posted_bytes"] \in Nat
        /\ metrics'["posted_peak_bytes"] = metrics["posted_peak_bytes"]
    BY <2>5, <2>6 DEF Kept, PostedFields
  <2> QED
    BY <2>1, <2>2, <2>3, <2>7, QuietKeepsPeak, Zenon
<1>3. CASE AnswerPing
  <2>1. PICK size \in PacketSizes : EnqueueOutbound(size) /\ metrics' = EnqueueMetrics(metrics, size)
    BY <1>3, Zenon DEF AnswerPing
  <2>2. UNCHANGED <<posts, publisher, highest>>
    BY <1>3, Zenon DEF AnswerPing
  <2>3. stopped' \in BOOLEAN /\ Kept(metrics, metrics')
    <3>1. Kept(metrics, EnqueueMetrics(metrics, size))
      BY <1>1, EnqueueMetricsKeeps
    <3>2. stopped' \in BOOLEAN
      BY <1>1, <2>1, StopTyped, Zenon
    <3> QED
      BY <2>1, <3>1, <3>2, Zenon
  <2> QED
    BY <1>1, <2>2, <2>3, KeptKeepsPeak, Zenon
<1>4. CASE ReaderStopsSession
  <2>1. UNCHANGED <<posts, publisher, highest>> /\ stopped' = TRUE /\ metrics' = StopMetrics(metrics, FALSE)
    BY <1>4, Zenon DEF ReaderStopsSession, ReaderStops, StopSession
  <2>2. Kept(metrics, metrics')
    BY <1>1, <2>1, StopMetricsKeeps, Zenon
  <2> QED
    BY <1>1, <2>1, <2>2, KeptKeepsPeak, Zenon
<1>5. CASE ReaderEnds
  <2>1. UNCHANGED <<posts, stopped, publisher, highest, metrics>>
    BY <1>5, Zenon DEF ReaderEnds, vars
  <2> QED
    BY <1>1, <2>1, KeptAll, KeptKeepsPeak, Zenon
<1>6. CASE Retire
  <2>1. UNCHANGED <<posts, stopped, publisher, highest>> /\ metrics' = QueueChanged(metrics, Close(queue))
    BY <1>6, Zenon DEF Retire
  <2>2. Kept(metrics, metrics')
    BY <1>1, <2>1, QueueChangedKeeps, Zenon
  <2> QED
    BY <1>1, <2>1, <2>2, KeptKeepsPeak, Zenon
<1>7. ASSUME NEW i \in DOMAIN writers,
             WriterBegins(i) \/ BatchWritten(i) \/ BatchFails(i) \/ BatchAbandoned(i)
      PROVE  PeakInv'
  <2>1. UNCHANGED <<posts, publisher, highest>> /\ stopped' \in BOOLEAN
    BY <1>7, <1>1, Zenon DEF WriterBegins, WriterStarts, BatchWritten, WriteCompletes, BatchFails,
                             WriteFails, BatchAbandoned, WriterThrows, StopSession
  <2>2. \A transferred : \A failed, abandoned \in BOOLEAN :
            LET m == BatchFinished(metrics, transferred, failed, abandoned)
            IN  Kept(metrics, m) /\ PostedFields \subseteq DOMAIN m
    BY <1>1, BatchFinishedKeeps, ZenonT(30) DEF Kept
  <2>3. Kept(metrics, metrics')
    <3>1. CASE WriterBegins(i)
      BY <3>1, <1>1, LoopMetricsKeeps, Zenon DEF WriterBegins
    <3>2. CASE BatchWritten(i)
      <4>1. PICK m : m = BatchFinished(metrics, Bytes(writers[i]), FALSE, FALSE) /\ metrics' = LoopMetrics(m)
        BY <3>2, Zenon DEF BatchWritten, BatchCompleted
      <4>2. Kept(metrics, m) /\ PostedFields \subseteq DOMAIN m
        BY <4>1, <2>2, FALSE \in BOOLEAN, Zenon
      <4> QED
        BY <1>1, <4>1, <4>2, LoopMetricsKeeps, KeptTwice, Zenon
    <3>3. CASE BatchFails(i)
      <4>1. PICK m, transferred : m = BatchFinished(metrics, transferred, TRUE, FALSE)
                                  /\ metrics' = StopMetrics(m, FALSE)
        BY <3>3, Zenon DEF BatchFails, BatchCompleted
      <4>2. Kept(metrics, m) /\ PostedFields \subseteq DOMAIN m
        BY <4>1, <2>2, FALSE \in BOOLEAN, TRUE \in BOOLEAN, Zenon
      <4> QED
        BY <1>1, <4>1, <4>2, StopMetricsKeeps, KeptTwice, Zenon
    <3>4. CASE BatchAbandoned(i)
      <4>1. PICK m : m = BatchFinished(metrics, 0, FALSE, TRUE) /\ metrics' = StopMetrics(m, FALSE)
        BY <3>4, Zenon DEF BatchAbandoned
      <4>2. Kept(metrics, m) /\ PostedFields \subseteq DOMAIN m
        BY <4>1, <2>2, FALSE \in BOOLEAN, TRUE \in BOOLEAN, Zenon
      <4> QED
        BY <1>1, <4>1, <4>2, StopMetricsKeeps, KeptTwice, Zenon
    <3> QED
      BY <1>7, <3>1, <3>2, <3>3, <3>4, Zenon
  <2> QED
    BY <1>1, <2>1, <2>3, KeptKeepsPeak, Zenon
<1> QED
  BY <1>2, <1>3, <1>4, <1>5, <1>6, <1>7, Zenon DEF IoStep

\* The publishers' records.
Records == [at : Places, size : Nat, value : Nat, previous : Nat]

\* A publisher that neither is nor will be raising changes nothing of the peak.
LEMMA BystanderKeepsPeak ==
    ASSUME PeakInv, NEW p \in Publishers, publisher[p].at \notin Raising,
           NEW r \in Records, r.at \notin Raising,
           publisher' = [publisher EXCEPT ![p] = r], UNCHANGED highest,
           posts' \in Seq(PacketSizes), stopped' \in BOOLEAN,
           PostedFields \subseteq DOMAIN metrics', metrics'["posted_bytes"] \in Nat,
           metrics'["posted_peak_bytes"] = metrics["posted_peak_bytes"]
    PROVE  PeakInv'
<1>1. publisher \in [Publishers -> Records]
  BY DEF PeakInv, PostedTypeOK, Records
<1>2. /\ publisher' \in [Publishers -> Records]
      /\ publisher'[p] = r
      /\ \A q \in Publishers : q # p => publisher'[q] = publisher[q]
  BY <1>1, Zenon
<1>3. PostedTypeOK'
  <2>1. \A field \in PostedFields : metrics'[field] \in Nat
    BY DEF PeakInv, PostedTypeOK, PostedFields
  <2> QED
    BY <1>2, <2>1, Zenon DEF PeakInv, PostedTypeOK, Records
<1>4. \A q \in Publishers : publisher'[q].at \in Raising => q # p /\ publisher'[q] = publisher[q]
  BY <1>2, Zenon
<1>5. "peak_exchange" \in Raising
  BY DEF Raising
<1>6. \A q \in Publishers : publisher[q].at \in Raising => publisher'[q] = publisher[q]
  BY <1>2, Zenon
<1> QED
  BY <1>3, <1>4, <1>5, <1>6, Zenon DEF PeakInv

\* One turn of update_peak's loop: the publisher compares with the peak it has read.
LEMMA CompareKeepsPeak ==
    ASSUME PeakInv, NEW p \in Publishers, publisher[p].at \in Raising,
           Compare(p, publisher[p].value), UNCHANGED <<posts, stopped, metrics, highest>>
    PROVE  PeakInv'
<1> DEFINE peak == metrics["posted_peak_bytes"]
<1>1. /\ publisher \in [Publishers -> Records] /\ peak \in Nat /\ highest \in Nat
      /\ peak <= highest /\ publisher[p].value <= highest
  BY DEF PeakInv, PostedTypeOK, Records, PostedFields
<1>2. /\ publisher' \in [Publishers -> Records]
      /\ publisher'[p].value = publisher[p].value
      /\ publisher'[p].previous = peak
      /\ publisher'[p].at = IF peak < publisher[p].value THEN "peak_exchange" ELSE "post"
      /\ \A q \in Publishers : q # p => publisher'[q] = publisher[q]
  BY <1>1, ZenonT(30) DEF Compare, Records, Places, Raising
<1>3. PostedTypeOK'
  BY <1>2, Zenon DEF PeakInv, PostedTypeOK, Records
<1>4. publisher[p].value \in Nat
  BY <1>1 DEF Records
<1>5. \A q \in Publishers : publisher'[q].at \in Raising => publisher'[q].value <= highest
  BY <1>1, <1>2, Zenon DEF PeakInv
<1>6. \A q \in Publishers :
          publisher'[q].at = "peak_exchange" => publisher'[q].previous < publisher'[q].value
  <2> SUFFICES ASSUME NEW q \in Publishers, publisher'[q].at = "peak_exchange"
               PROVE  publisher'[q].previous < publisher'[q].value
    OBVIOUS
  <2>1. CASE q = p
    BY <2>1, <1>2
  <2>2. CASE q # p
    BY <2>2, <1>2, Zenon DEF PeakInv
  <2> QED
    BY <2>1, <2>2
<1> DEFINE Due == \E q \in Publishers : publisher'[q].at \in Raising /\ publisher'[q].value = highest
<1>7. peak = highest \/ Due
  <2>1. CASE peak = highest
    BY <2>1
  <2>2. ASSUME NEW q \in Publishers, publisher[q].at \in Raising, publisher[q].value = highest
        PROVE  peak = highest \/ Due
    <3>1. CASE q # p
      BY <3>1, <2>2, <1>2, Zenon
    <3>2. CASE q = p /\ peak < publisher[p].value
      BY <3>2, <2>2, <1>2 DEF Raising
    <3>3. CASE q = p /\ ~(peak < publisher[p].value)
      BY <3>3, <2>2, <1>1, <1>4
    <3> QED
      BY <3>1, <3>2, <3>3, Zenon
  <2> QED
    BY <2>1, <2>2, Zenon DEF PeakInv
<1> QED
  BY <1>1, <1>3, <1>5, <1>6, <1>7, Zenon DEF PeakInv

\* An exchange that succeeds brings the publisher's value into the peak.
LEMMA ExchangeKeepsPeak ==
    ASSUME PeakInv, NEW p \in Publishers, publisher[p].at = "peak_exchange",
           metrics["posted_peak_bytes"] = publisher[p].previous,
           metrics' = [metrics EXCEPT !["posted_peak_bytes"] = publisher[p].value],
           Goes(p, "post"), UNCHANGED <<posts, stopped, highest>>
    PROVE  PeakInv'
<1> DEFINE peak == metrics["posted_peak_bytes"]
           value == publisher[p].value
<1>1. /\ publisher \in [Publishers -> Records] /\ peak \in Nat /\ highest \in Nat
      /\ peak <= highest /\ value <= highest /\ peak < value
  BY DEF PeakInv, PostedTypeOK, Records, PostedFields, Raising
<1>2. /\ publisher' \in [Publishers -> Records]
      /\ publisher'[p].at = "post"
      /\ \A q \in Publishers : q # p => publisher'[q] = publisher[q]
  BY <1>1 DEF Goes, Records, Places
<1>3. value \in Nat
  BY <1>1 DEF Records
<1>4. /\ PostedFields \subseteq DOMAIN metrics'
      /\ metrics'["posted_peak_bytes"] = value
      /\ \A field \in PostedFields : metrics'[field] \in Nat
  BY <1>3 DEF PeakInv, PostedTypeOK, PostedFields
<1>5. PostedTypeOK'
  BY <1>2, <1>4, Zenon DEF PeakInv, PostedTypeOK, Records
<1>6. "post" \notin Raising /\ "post" # "peak_exchange"
  BY DEF Raising
<1>7. /\ \A q \in Publishers : publisher'[q].at \in Raising => publisher'[q].value <= highest
      /\ \A q \in Publishers :
            publisher'[q].at = "peak_exchange" => publisher'[q].previous < publisher'[q].value
  BY <1>2, <1>6, Zenon DEF PeakInv
<1>8. value = highest \/ \E q \in Publishers : publisher'[q].at \in Raising /\ publisher'[q].value = highest
  <2>1. peak # highest
    BY <1>1, <1>3
  <2>2. PICK q \in Publishers : publisher[q].at \in Raising /\ publisher[q].value = highest
    BY <2>1, Zenon DEF PeakInv
  <2> QED
    BY <2>2, <1>2, Zenon
<1> QED
  BY <1>1, <1>4, <1>5, <1>7, <1>8, Zenon DEF PeakInv

\* A new delivery may bring about a new highest value, which its publisher still has
\* to raise the peak to.
LEMMA CountKeepsPeak ==
    ASSUME PeakInv, NEW p \in Publishers, CountPost(p)
    PROVE  PeakInv'
<1>1. /\ publisher \in [Publishers -> Records] /\ highest \in Nat
      /\ PostedFields \subseteq DOMAIN metrics
      /\ metrics["posted_bytes"] \in Nat /\ metrics["posted_peak_bytes"] \in Nat
      /\ metrics["posted_peak_bytes"] <= highest
  BY DEF PeakInv, PostedTypeOK, Records, PostedFields
<1>2. /\ SizeModulus \in Nat /\ SizeModulus > 0 /\ PacketSizes \subseteq Nat
      /\ "posted_jobs" \notin PostedFields /\ "delivery_attempts" \notin PostedFields
  BY QueueAssumption, OutboundAssumption DEF PostedFields
<1>3. PICK size \in PacketSizes :
          LET bytes == (metrics["posted_bytes"] + size) % SizeModulus
          IN  /\ metrics' = Plus(Plus(Plus(metrics, "posted_jobs", 1), "posted_bytes", size),
                                 "delivery_attempts", 1)
              /\ highest' = Max({highest, bytes})
              /\ publisher' = [publisher EXCEPT
                    ![p] = [at |-> "peak_load", size |-> size, value |-> bytes, previous |-> 0]]
  BY Zenon DEF CountPost
<1> DEFINE bytes == (metrics["posted_bytes"] + size) % SizeModulus
           r == [at |-> "peak_load", size |-> size, value |-> bytes, previous |-> 0]
           jobs == Plus(metrics, "posted_jobs", 1)
           posted == Plus(jobs, "posted_bytes", size)
<1>4. bytes \in Nat /\ size \in Nat
  BY <1>1, <1>2
<1>5. /\ PostedFields \subseteq DOMAIN metrics'
      /\ metrics'["posted_bytes"] \in Nat
      /\ metrics'["posted_peak_bytes"] = metrics["posted_peak_bytes"]
  <2>1. Kept(metrics, jobs) /\ PostedFields \subseteq DOMAIN jobs
    BY <1>1, <1>2, PlusKeeps, Zenon
  <2>2. /\ jobs["posted_bytes"] = metrics["posted_bytes"]
        /\ jobs["posted_peak_bytes"] = metrics["posted_peak_bytes"]
    BY <2>1 DEF Kept, PostedFields
  <2> HIDE DEF jobs
  <2>3. /\ PostedFields \subseteq DOMAIN posted
        /\ posted["posted_bytes"] = (jobs["posted_bytes"] + size) % SizeModulus
        /\ posted["posted_peak_bytes"] = jobs["posted_peak_bytes"]
    BY <2>1 DEF Plus, PostedFields
  <2> HIDE DEF posted
  <2>4. Kept(posted, Plus(posted, "delivery_attempts", 1))
    BY <1>2, <2>3, PlusKeeps, Zenon
  <2>5. metrics' = Plus(posted, "delivery_attempts", 1)
    BY <1>3, Zenon DEF posted, jobs
  <2>6. posted["posted_bytes"] = bytes
    BY <2>2, <2>3, Zenon
  <2> QED
    BY <1>4, <2>2, <2>3, <2>4, <2>5, <2>6 DEF Kept, PostedFields
<1>6. /\ highest' \in Nat /\ highest' \in {highest, bytes} /\ highest' >= highest /\ highest' >= bytes
  BY <1>1, <1>3, <1>4, MaxOfTwo, Zenon
<1>7. r \in Records /\ r.at = "peak_load" /\ r.value = bytes /\ "peak_load" # "peak_exchange"
      /\ "peak_load" \in Raising
  BY <1>4 DEF Records, Places, Raising
<1>8. publisher' = [publisher EXCEPT ![p] = r]
  BY <1>3, Zenon
<1>9. ~(publisher[p].at \in Raising)
  BY DEF CountPost, At, Raising
<1> HIDE DEF bytes, r
<1>10. /\ publisher' \in [Publishers -> Records]
       /\ publisher'[p] = r
       /\ \A q \in Publishers : q # p => publisher'[q] = publisher[q]
  BY <1>1, <1>7, <1>8, Zenon
<1>11. PostedTypeOK'
  <2>1. UNCHANGED <<posts, stopped>>
    BY DEF CountPost, vars
  <2>2. \A field \in PostedFields : metrics'[field] \in Nat
    BY <1>1, <1>5 DEF PostedFields
  <2> QED
    BY <1>5, <1>6, <1>10, <2>1, <2>2, Zenon DEF PeakInv, PostedTypeOK, Records
<1>12. \A q \in Publishers : publisher'[q].at \in Raising => publisher'[q].value <= highest'
  <2> SUFFICES ASSUME NEW q \in Publishers, publisher'[q].at \in Raising
               PROVE  publisher'[q].value <= highest'
    OBVIOUS
  <2>1. CASE q = p
    BY <2>1, <1>4, <1>6, <1>7, <1>10
  <2>2. CASE q # p
    <3>1. publisher'[q] = publisher[q] /\ publisher[q].value <= highest
      BY <2>2, <1>10, Zenon DEF PeakInv
    <3>2. publisher[q].value \in Nat
      BY <1>1 DEF Records
    <3> QED
      BY <3>1, <3>2, <1>1, <1>6
  <2> QED
    BY <2>1, <2>2
<1>13. \A q \in Publishers :
           publisher'[q].at = "peak_exchange" => publisher'[q].previous < publisher'[q].value
  BY <1>7, <1>10, Zenon DEF PeakInv
<1>14. metrics'["posted_peak_bytes"] <= highest'
  BY <1>1, <1>5, <1>6
<1>15. \/ metrics'["posted_peak_bytes"] = highest'
       \/ \E q \in Publishers : publisher'[q].at \in Raising /\ publisher'[q].value = highest'
  <2>1. CASE highest' = bytes
    BY <2>1, <1>7, <1>10, Zenon
  <2>2. CASE highest' = highest
    <3>1. \A q \in Publishers : publisher[q].at \in Raising => publisher'[q] = publisher[q]
      BY <1>9, <1>10, Zenon
    <3> QED
      BY <2>2, <3>1, <1>5, Zenon DEF PeakInv
  <2> QED
    BY <2>1, <2>2, <1>6
<1> QED
  BY <1>11, <1>12, <1>13, <1>14, <1>15, Zenon DEF PeakInv

LEMMA PublisherKeepsPeak ==
    ASSUME PeakInv, NEW p \in Publishers, PublisherStep(p)
    PROVE  PeakInv'
<1>1. /\ publisher \in [Publishers -> Records]
      /\ posts \in Seq(PacketSizes) /\ stopped \in BOOLEAN
      /\ PostedFields \subseteq DOMAIN metrics
      /\ \A field \in PostedFields : metrics[field] \in Nat
      /\ metrics["posted_bytes"] \in Nat
  BY DEF PeakInv, PostedTypeOK, Records, PostedFields
<1>2. \A place \in Places \ Raising :
          /\ [publisher[p] EXCEPT !.at = place] \in Records
          /\ [publisher[p] EXCEPT !.at = place].at = place
          /\ [publisher EXCEPT ![p].at = place]
               = [publisher EXCEPT ![p] = [publisher[p] EXCEPT !.at = place]]
  BY <1>1 DEF Records
<1>3. Idle \in Records /\ Idle.at \notin Raising
  BY DEF Idle, Records, Places, Raising
<1>4. {"idle", "holds", "post", "posted"} \subseteq Places \ Raising
  BY DEF Places, Raising
<1>5. CASE TakeRecipient(p)
  <2>1. /\ publisher[p].at = "idle" /\ publisher' = [publisher EXCEPT ![p].at = "holds"]
        /\ UNCHANGED <<posts, stopped, metrics, highest>>
    BY <1>5, Zenon DEF TakeRecipient, At, Goes, vars
  <2> DEFINE r == [publisher[p] EXCEPT !.at = "holds"]
  <2>2. "holds" \in Places \ Raising /\ publisher[p].at \notin Raising
    BY <2>1, <1>4, Zenon
  <2>3. r \in Records /\ r.at \notin Raising /\ publisher' = [publisher EXCEPT ![p] = r]
    BY <2>1, <2>2, <1>2, Zenon
  <2>4. /\ PostedFields \subseteq DOMAIN metrics' /\ metrics'["posted_bytes"] \in Nat
        /\ metrics'["posted_peak_bytes"] = metrics["posted_peak_bytes"]
    BY <2>1, <1>1, Zenon
  <2>5. UNCHANGED highest /\ posts' \in Seq(PacketSizes) /\ stopped' \in BOOLEAN
    BY <2>1, <1>1, Zenon
  <2> HIDE DEF r
  <2> QED
    BY <2>2, <2>3, <2>4, <2>5, BystanderKeepsPeak, Zenon
<1>6. CASE CountPost(p)
  BY <1>6, CountKeepsPeak
<1>7. CASE LoadPeak(p)
  <2>1. /\ publisher[p].at \in Raising /\ Compare(p, publisher[p].value)
        /\ UNCHANGED <<posts, stopped, metrics, highest>>
    BY <1>7 DEF LoadPeak, At, Raising, vars
  <2> QED
    BY <2>1, CompareKeepsPeak, Zenon
<1>8. CASE ExchangePeak(p)
  <2>1. publisher[p].at = "peak_exchange" /\ UNCHANGED <<posts, stopped, highest>>
    BY <1>8, Zenon DEF ExchangePeak, At, vars
  <2>2. CASE metrics["posted_peak_bytes"] = publisher[p].previous
    <3>1. /\ metrics' = [metrics EXCEPT !["posted_peak_bytes"] = publisher[p].value]
          /\ Goes(p, "post")
      BY <1>8, <2>2, Zenon DEF ExchangePeak
    <3> QED
      BY <2>1, <2>2, <3>1, ExchangeKeepsPeak, Zenon
  <2>3. CASE metrics["posted_peak_bytes"] # publisher[p].previous
    <3>1. Compare(p, publisher[p].value) /\ UNCHANGED metrics
      BY <1>8, <2>3, Zenon DEF ExchangePeak
    <3>2. publisher[p].at \in Raising
      BY <2>1 DEF Raising
    <3> QED
      BY <2>1, <3>1, <3>2, CompareKeepsPeak, Zenon
  <2> QED
    BY <2>2, <2>3, Zenon
<1>9. CASE PostHandler(p)
  <2>1. /\ publisher[p].at = "post" /\ publisher' = [publisher EXCEPT ![p].at = "posted"]
        /\ UNCHANGED <<stopped, metrics, highest>>
        /\ \E size \in PacketSizes : posts' = Append(posts, size)
    BY <1>9, Zenon DEF PostHandler, At, Goes, Deliver
  <2>2. posts' \in Seq(PacketSizes)
    BY <2>1, <1>1
  <2> QED
    <3> DEFINE r == [publisher[p] EXCEPT !.at = "posted"]
    <3>1. "posted" \in Places \ Raising /\ publisher[p].at \notin Raising
      BY <2>1, <1>4, Zenon
    <3>2. r \in Records /\ r.at \notin Raising /\ publisher' = [publisher EXCEPT ![p] = r]
      BY <2>1, <3>1, <1>2, Zenon
    <3>3. /\ PostedFields \subseteq DOMAIN metrics' /\ metrics'["posted_bytes"] \in Nat
          /\ metrics'["posted_peak_bytes"] = metrics["posted_peak_bytes"]
      BY <2>1, <1>1, Zenon
    <3>4. UNCHANGED highest /\ stopped' \in BOOLEAN
      BY <2>1, <1>1, Zenon
    <3> HIDE DEF r
    <3> QED
      BY <2>2, <3>1, <3>2, <3>3, <3>4, BystanderKeepsPeak, Zenon
<1>10. CASE PostThrows(p)
  <2>1. /\ publisher[p].at = "post" /\ publisher' = [publisher EXCEPT ![p] = Idle]
        /\ metrics' = PostReleased(metrics, publisher[p].size, TRUE)
        /\ UNCHANGED <<posts, stopped, highest>>
    BY <1>10, Zenon DEF PostThrows, At
  <2>2. publisher[p].size \in Nat /\ TRUE \in BOOLEAN
    BY <1>1 DEF Records
  <2>3. /\ PostedFields \subseteq DOMAIN metrics' /\ metrics'["posted_bytes"] \in Nat
        /\ metrics'["posted_peak_bytes"] = metrics["posted_peak_bytes"]
    BY <2>1, <2>2, <1>1, ReleaseKeepsPeak, Zenon
  <2> QED
    BY <2>1, <2>3, <1>1, <1>3, <1>4, BystanderKeepsPeak, Zenon
<1>11. CASE DropRecipient(p)
  <2>1. /\ publisher[p].at = "posted" /\ publisher' = [publisher EXCEPT ![p] = Idle]
        /\ UNCHANGED <<posts, stopped, metrics, highest>>
    BY <1>11, Zenon DEF DropRecipient, At, vars
  <2> QED
    BY <2>1, <1>1, <1>3, <1>4, BystanderKeepsPeak, Zenon
<1> QED
  BY <1>5, <1>6, <1>7, <1>8, <1>9, <1>10, <1>11, Zenon DEF PublisherStep

\* Once nobody is within post_added, the recorded peak is the largest value the gauge
\* of posted bytes ever had, for any number of publishers.
THEOREM PeakIsExact == MetricsSpec => []PostedPeakExact
<1>1. PeakInv /\ [MetricsNext]_allVars => PeakInv'
  <2> SUFFICES ASSUME PeakInv, [MetricsNext]_allVars PROVE PeakInv'
    OBVIOUS
  <2>1. CASE UNCHANGED allVars
    BY <2>1, Zenon DEF allVars, vars, metricsVars, PeakInv, PostedTypeOK
  <2>2. CASE \E p \in Publishers : PublisherStep(p)
    BY <2>2, PublisherKeepsPeak
  <2>3. CASE IoStep \/ Retire
    BY <2>3, IoKeepsPeak
  <2> QED
    BY <2>1, <2>2, <2>3, Zenon DEF MetricsNext, Gone
<1>2. PeakInv => PostedPeakExact
  BY Zenon DEF PeakInv, PostedPeakExact, Raising
<1> QED
  BY <1>1, <1>2, PeakInitially, PTL DEF MetricsSpec
=============================================================================
