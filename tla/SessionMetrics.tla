--------------------------- MODULE SessionMetrics ---------------------------
(***************************************************************************)
(* The measurements of one session (SessionMetrics, PendingDelivery and    *)
(* WriteBatch of src/src/observability/server_metrics.cpp) riding on its   *)
(* outbound path: every action of SessionOutbound is taken together with   *)
(* the metrics calls the code makes there.  A publishing thread counts a   *)
(* delivery before it posts it, atomic operation by atomic operation, while*)
(* the I/O thread runs the posted handlers.  The object lives until nobody *)
(* refers to the session any more and then leaves its last snapshot.       *)
(***************************************************************************)
EXTENDS SessionOutbound, FiniteSets

CONSTANT Publishers     \* threads that deliver: the Room worker

VARIABLES
    metrics,        \* the gauges, peaks and totals
    publisher,      \* per thread: its place in publish and deliver
    reader,         \* run_session: "running" (registered) or "ended"
    retired,        \* the SessionMetrics object was destroyed
    highest         \* history: the largest value posted_bytes_ has had

metricsVars == <<metrics, publisher, reader, retired, highest>>
allVars == <<vars, metricsVars>>

Idle == [at |-> "idle", size |-> 0, value |-> 0, previous |-> 0]
Gauges == {"posted_jobs", "posted_bytes", "queued_packets", "queued_bytes",
           "inflight_packets", "inflight_bytes"}
Peaks == {"posted_peak_bytes", "queue_peak_bytes", "inflight_peak_bytes", "max_batch_packets"}
Totals == {"started", "completed", "failed", "abandoned", "packets_batched", "bytes_requested",
           "bytes_transferred", "posts_abandoned", "overflow_closes", "delivery_attempts"}

MetricsInit ==
    /\ Init
    /\ metrics = [field \in Gauges \cup Peaks \cup Totals |-> 0]
    /\ publisher = [p \in Publishers |-> Idle]
    /\ reader = "running"
    /\ retired = FALSE
    /\ highest = 0

Plus(m, field, n) == [m EXCEPT ![field] = (@ + n) % SizeModulus]
Raise(m, peak, value) == [m EXCEPT ![peak] = Max({@, value})]

-----------------------------------------------------------------------------
(* The calls, as functions of the record of all metrics.  Only the I/O thread *)
(* makes those of the queue and the batches, so their atomics are one step.   *)

QueueChanged(m, rest) ==
    Raise([m EXCEPT !["queued_packets"] = Len(rest.packets), !["queued_bytes"] = rest.pending_bytes],
          "queue_peak_bytes", rest.pending_bytes)

PostReleased(m, size, abandoned) ==
    LET released == Plus(Plus(m, "posted_jobs", -1), "posted_bytes", -size)
    IN  IF abandoned THEN Plus(released, "posts_abandoned", 1) ELSE released

BatchStarted(m, batch) ==
    LET inflight == [m EXCEPT !["inflight_packets"] = Len(batch), !["inflight_bytes"] = Bytes(batch)]
        peaks == Raise(Raise(inflight, "inflight_peak_bytes", Bytes(batch)),
                       "max_batch_packets", Len(batch))
    IN  Plus(Plus(Plus(peaks, "started", 1), "packets_batched", Len(batch)),
             "bytes_requested", Bytes(batch))

BatchFinished(m, transferred, failed, abandoned) ==
    LET cleared == [m EXCEPT !["inflight_packets"] = 0, !["inflight_bytes"] = 0]
        completed == Plus(Plus(cleared, "bytes_transferred", transferred), "completed", 1)
    IN  CASE abandoned -> Plus(cleared, "abandoned", 1)
          [] ~abandoned /\ failed -> Plus(completed, "failed", 1)
          [] OTHER -> completed

\* Mutant of BatchCompleted: complete() leaves metrics_ set, so the destructor of
\* the WriteBatch counts the batch a second time.
BatchCompletedTwice(m, transferred, failed) ==
    BatchFinished(BatchFinished(m, transferred, failed, FALSE), 0, FALSE, TRUE)

\* WriteBatch::complete, after which the destructor has nothing to do.
BatchCompleted(m, transferred, failed) == BatchFinished(m, transferred, failed, FALSE)

\* Mutant of StopMetrics: the closed queue is not reported.
StopWithoutUpdate(m, overflow) ==
    IF ~stopped /\ overflow THEN Plus(m, "overflow_closes", 1) ELSE m

\* What stop_session reports: the closed queue and, as the first reason, an overflow.
StopMetrics(m, overflow) ==
    IF stopped
    THEN m
    ELSE Plus(QueueChanged(m, Close(queue)), "overflow_closes", IF overflow THEN 1 ELSE 0)

EnqueueMetrics(m, size) ==
    LET error == PushError(queue, size)
    IN  CASE stopped -> m
          [] ~stopped /\ error = "none" ->
                QueueChanged(m, Push(queue, [number |-> accepted + 1, size |-> size]))
          [] OTHER -> StopMetrics(QueueChanged(m, queue), error = "byte_limit_exceeded")

\* The head of the writer's loop, where a batch is popped and its WriteBatch made.
LoopMetrics(m) ==
    CASE stopped -> m
      [] ~stopped /\ Batch(queue) = <<>> -> QueueChanged(m, queue)
      [] OTHER -> BatchStarted(QueueChanged(m, PopBatch(queue)), Batch(queue))

-----------------------------------------------------------------------------
(* A publishing thread: SessionRegistry::publish and Session::deliver *)

At(p, place) == publisher[p].at = place
Goes(p, place) == publisher' = [publisher EXCEPT ![p].at = place]

\* Room for one more packet within MaxOffered.
Offers == offered + Cardinality({p \in Publishers : ~At(p, "idle") /\ ~At(p, "posted")}) < MaxOffered

\* publish locks the endpoint of a registered session.
TakeRecipient(p) ==
    /\ At(p, "idle")
    /\ reader = "running"
    /\ Offers
    /\ Goes(p, "holds")
    /\ UNCHANGED <<vars, metrics, reader, retired, highest>>

\* post_added: fetch_add tells the value this delivery has brought about.
CountPost(p) ==
    /\ At(p, "holds")
    /\ \E size \in PacketSizes :
          LET bytes == (metrics["posted_bytes"] + size) % SizeModulus
          IN  /\ metrics' = Plus(Plus(Plus(metrics, "posted_jobs", 1), "posted_bytes", size),
                                 "delivery_attempts", 1)
              /\ highest' = Max({highest, bytes})
              /\ publisher' = [publisher EXCEPT
                    ![p] = [at |-> "peak_load", size |-> size, value |-> bytes, previous |-> 0]]
    /\ UNCHANGED <<vars, reader, retired>>

\* The comparison of update_peak's loop, with the peak as it was just read.
Compare(p, value) ==
    publisher' = [publisher EXCEPT
        ![p].value = value,
        ![p].previous = metrics["posted_peak_bytes"],
        ![p].at = IF metrics["posted_peak_bytes"] < value THEN "peak_exchange" ELSE "post"]

\* Mutant of LoadPeak: the peak is raised to what the gauge says now.
LoadPeakOfGauge(p) ==
    /\ At(p, "peak_load")
    /\ Compare(p, metrics["posted_bytes"])
    /\ UNCHANGED <<vars, metrics, reader, retired, highest>>

\* update_peak loads the peak and compares ...
LoadPeak(p) ==
    /\ At(p, "peak_load")
    /\ Compare(p, publisher[p].value)
    /\ UNCHANGED <<vars, metrics, reader, retired, highest>>

\* ... and exchanges it, unless it has changed meanwhile: then it compares again.
ExchangePeak(p) ==
    /\ At(p, "peak_exchange")
    /\ IF metrics["posted_peak_bytes"] = publisher[p].previous
       THEN /\ metrics' = [metrics EXCEPT !["posted_peak_bytes"] = publisher[p].value]
            /\ Goes(p, "post")
       ELSE /\ Compare(p, publisher[p].value)
            /\ UNCHANGED metrics
    /\ UNCHANGED <<vars, reader, retired, highest>>

PostHandler(p) ==
    /\ At(p, "post")
    /\ Deliver
    /\ posts'[Len(posts')] = publisher[p].size
    /\ Goes(p, "posted")
    /\ UNCHANGED <<metrics, reader, retired, highest>>

\* asio::post throws: the PendingDelivery is destroyed, and publish is left.
PostThrows(p) ==
    /\ At(p, "post")
    /\ metrics' = PostReleased(metrics, publisher[p].size, TRUE)
    /\ publisher' = [publisher EXCEPT ![p] = Idle]
    /\ offered' = offered + 1
    /\ UNCHANGED <<posts, queue, write_in_progress, stopped, writers, accepted, sent,
                   reader, retired, highest>>

\* publish returns and lets go of its recipients.
DropRecipient(p) ==
    /\ At(p, "posted")
    /\ publisher' = [publisher EXCEPT ![p] = Idle]
    /\ UNCHANGED <<vars, metrics, reader, retired, highest>>

PublisherStep(p) ==
    \/ TakeRecipient(p) \/ CountPost(p) \/ LoadPeak(p) \/ ExchangePeak(p)
    \/ PostHandler(p) \/ PostThrows(p) \/ DropRecipient(p)

-----------------------------------------------------------------------------
(* The I/O thread *)

HandlerBegins ==
    /\ DeliverHandler
    /\ metrics' = EnqueueMetrics(PostReleased(metrics, Head(posts), FALSE), Head(posts))
    /\ UNCHANGED <<publisher, reader, retired, highest>>

AnswerPing ==
    /\ reader = "running"
    /\ Offers
    /\ \E size \in PacketSizes :
          /\ EnqueueOutbound(size)
          /\ metrics' = EnqueueMetrics(metrics, size)
    /\ offered' = offered + 1
    /\ UNCHANGED <<posts, sent, publisher, reader, retired, highest>>

ReaderStopsSession ==
    /\ reader = "running"
    /\ ReaderStops
    /\ metrics' = StopMetrics(metrics, FALSE)
    /\ UNCHANGED <<publisher, reader, retired, highest>>

\* run_session unregisters and lets go of the session: after a stop, or by an
\* exception that no stop_session follows.
ReaderEnds ==
    /\ reader = "running"
    /\ reader' = "ended"
    /\ UNCHANGED <<vars, metrics, publisher, retired, highest>>

WriterBegins(i) ==
    /\ WriterStarts(i)
    /\ metrics' = LoopMetrics(metrics)
    /\ UNCHANGED <<publisher, reader, retired, highest>>

BatchWritten(i) ==
    /\ WriteCompletes(i)
    /\ metrics' = LoopMetrics(BatchCompleted(metrics, Bytes(writers[i]), FALSE))
    /\ UNCHANGED <<publisher, reader, retired, highest>>

\* A failed write reports the bytes it has transferred, the whole packets and a part
\* of the next one.
BatchFails(i) ==
    /\ WriteFails(i)
    /\ LET n == Len(sent') - Len(sent)
       IN  \E part \in 0..(writers[i][n + 1].size - 1) :
              metrics' = StopMetrics(BatchCompleted(metrics, Bytes(SubSeq(writers[i], 1, n)) + part, TRUE),
                                     FALSE)
    /\ UNCHANGED <<publisher, reader, retired, highest>>

\* The WriteBatch is destroyed with the frame of the coroutine.
BatchAbandoned(i) ==
    /\ WriterThrows(i)
    /\ metrics' = StopMetrics(BatchFinished(metrics, 0, FALSE, TRUE), FALSE)
    /\ UNCHANGED <<publisher, reader, retired, highest>>

\* Nobody holds a shared_ptr to the session: not run_session, a posted handler, the
\* writer or a publisher.
Unreferenced ==
    /\ reader = "ended"
    /\ posts = <<>>
    /\ writers = <<>>
    /\ \A p \in Publishers : At(p, "idle")

\* ~Session reports its closed queue, and ~SessionMetrics its last snapshot.
Retire ==
    /\ Unreferenced
    /\ ~retired
    /\ retired' = TRUE
    /\ queue' = Close(queue)
    /\ metrics' = QueueChanged(metrics, Close(queue))
    /\ UNCHANGED <<offered, posts, write_in_progress, stopped, writers, accepted, sent,
                   publisher, reader, highest>>

IoStep ==
    \/ HandlerBegins \/ AnswerPing \/ ReaderStopsSession \/ ReaderEnds
    \/ \E i \in DOMAIN writers :
          WriterBegins(i) \/ BatchWritten(i) \/ BatchFails(i) \/ BatchAbandoned(i)

Gone == retired /\ UNCHANGED allVars

MetricsNext == (\E p \in Publishers : PublisherStep(p)) \/ IoStep \/ Retire \/ Gone

MetricsSpec == MetricsInit /\ [][MetricsNext]_allVars

-----------------------------------------------------------------------------
(* Properties *)

\* What the gauges say is what there is: deliveries counted and not yet begun (none is
\* released before it was counted, which would wrap the gauge), packets queued, and
\* the batch being written, however the threads interleave and the session ends; and
\* they are all zero once it has been retired (docs/server-metrics.md).
GaugesTellTruth ==
    LET counted == {p \in Publishers : publisher[p].at \in {"peak_load", "peak_exchange", "post"}}
    IN  /\ metrics["posted_jobs"] = Len(posts) + Cardinality(counted)
        /\ metrics["posted_bytes"] = MapThenSumSet(LAMBDA i : posts[i], DOMAIN posts)
                                       + MapThenSumSet(LAMBDA p : publisher[p].size, counted)
        /\ metrics["queued_packets"] = Len(queue.packets)
        /\ metrics["queued_bytes"] = Bytes(queue.packets)
        /\ metrics["inflight_packets"] = MapThenSumSet(LAMBDA i : Len(writers[i]), DOMAIN writers)
        /\ metrics["inflight_bytes"] = MapThenSumSet(LAMBDA i : Bytes(writers[i]), DOMAIN writers)
        /\ retired => \A gauge \in Gauges : metrics[gauge] = 0

\* Once nobody is within post_added, posted_peak_bytes_ is the largest value the gauge
\* ever had: no raise is lost to another thread or to a release in between.
PostedPeakExact ==
    (\A p \in Publishers : publisher[p].at \notin {"peak_load", "peak_exchange"})
       => metrics["posted_peak_bytes"] = highest

\* Every batch started is completed, abandoned or in flight, once; as long as no write
\* failed, the bytes and packets of the completed ones are those on the wire.
TotalsAddUp ==
    /\ metrics["started"] = metrics["completed"] + metrics["abandoned"]
                              + Len(SelectSeq(writers, LAMBDA batch : batch # <<>>))
    /\ metrics["bytes_transferred"] <= metrics["bytes_requested"]
    /\ metrics["failed"] + metrics["abandoned"] = 0 =>
          /\ metrics["bytes_requested"] = metrics["bytes_transferred"] + metrics["inflight_bytes"]
          /\ metrics["packets_batched"] = Len(sent) + metrics["inflight_packets"]
=============================================================================
