-------------------------- MODULE SessionOutbound ---------------------------
(***************************************************************************)
(* The outbound path of one Session (src/src/network/session.cpp): the     *)
(* handlers deliver() posts, enqueue_outbound, the writer coroutine and    *)
(* stop_session.  Everything but the post runs on the I/O thread, so a     *)
(* step goes from one suspension point to the next.                        *)
(***************************************************************************)
EXTENDS OutboundQueue

CONSTANTS
    PacketSizes,    \* sizes of the packets offered to the session
    MaxOffered      \* bound: packets offered to the session

\* The batch limits of a Session are compile-time constants above zero.
ASSUME OutboundAssumption ==
    /\ PacketSizes \subseteq Nat /\ MaxOffered \in Nat
    /\ MaxBatchPackets > 0 /\ MaxBatchBytes > 0

VARIABLES
    offered,            \* packets offered so far (what MaxOffered bounds)
    posts,              \* sizes of the packets of the posted deliver handlers
    queue,              \* outbound_queue_
    write_in_progress,  \* write_in_progress_
    stopped,            \* stopped_
    writers,            \* the writer coroutines that exist, each with the batch
                        \* it is writing; <<>>: spawned and not yet started
    accepted,           \* history: packets outbound_queue_ has accepted
    sent                \* history: numbers of the packets on the wire

vars == <<offered, posts, queue, write_in_progress, stopped, writers, accepted, sent>>

Init ==
    /\ offered = 0
    /\ posts = <<>>
    /\ queue = EmptyQueue
    /\ write_in_progress = FALSE
    /\ stopped = FALSE
    /\ writers = <<>>
    /\ accepted = 0
    /\ sent = <<>>

Numbers(packets) == [i \in 1..Len(packets) |-> packets[i].number]

\* stop_session; `rest' is the queue as its caller left it.
StopSession(rest) ==
    /\ stopped' = TRUE
    /\ queue' = IF stopped THEN rest ELSE Close(rest)

\* Mutants of StartWriterIfIdle: a writer for every packet; no writer at all.
StartWriterAlways ==
    /\ write_in_progress' = TRUE
    /\ writers' = Append(writers, <<>>)

StartWriterNever ==
    /\ write_in_progress' = TRUE
    /\ UNCHANGED writers

StartWriterIfIdle ==
    /\ write_in_progress' = TRUE
    /\ writers' = IF write_in_progress THEN writers ELSE Append(writers, <<>>)

\* enqueue_outbound: refuse after a stop, push, stop on an error, start a writer
\* when none is running.
EnqueueOutbound(size) ==
    IF stopped
    THEN UNCHANGED <<queue, write_in_progress, stopped, writers, accepted>>
    ELSE IF PushError(queue, size) # "none"
    THEN /\ StopSession(queue)
         /\ UNCHANGED <<write_in_progress, writers, accepted>>
    ELSE /\ queue' = Push(queue, [number |-> accepted + 1, size |-> size])
         /\ accepted' = accepted + 1
         /\ StartWriterIfIdle
         /\ UNCHANGED stopped

\* The worker thread calls deliver, which posts a handler.
Deliver ==
    /\ offered < MaxOffered
    /\ offered' = offered + 1
    /\ \E size \in PacketSizes : posts' = Append(posts, size)
    /\ UNCHANGED <<queue, write_in_progress, stopped, writers, accepted, sent>>

DeliverHandler ==
    /\ posts # <<>>
    /\ posts' = Tail(posts)
    /\ EnqueueOutbound(Head(posts))
    /\ UNCHANGED <<offered, sent>>

\* The reader answers a ping.
PingResponse ==
    /\ offered < MaxOffered
    /\ offered' = offered + 1
    /\ \E size \in PacketSizes : EnqueueOutbound(size)
    /\ UNCHANGED <<posts, sent>>

\* The reader stops the session: end of stream, read error, protocol error.
ReaderStops ==
    /\ ~stopped
    /\ StopSession(queue)
    /\ UNCHANGED <<offered, posts, write_in_progress, writers, accepted, sent>>

OtherWriters(i) == SubSeq(writers, 1, i - 1) \o SubSeq(writers, i + 1, Len(writers))

\* Mutant of WriterLoop: the writer ends after one batch.
WriterWritesOnce(i) ==
    IF stopped \/ BatchLength(queue.packets) = 0 \/ writers[i] # <<>>
    THEN /\ write_in_progress' = FALSE
         /\ writers' = OtherWriters(i)
         /\ UNCHANGED queue
    ELSE /\ queue' = PopBatch(queue)
         /\ writers' = [writers EXCEPT ![i] = Batch(queue)]
         /\ UNCHANGED write_in_progress

\* The head of write_queued_packets' loop: end when the session is stopped or the
\* queue is empty, otherwise start to write the next batch.
WriterLoop(i) ==
    IF stopped \/ BatchLength(queue.packets) = 0
    THEN /\ write_in_progress' = FALSE
         /\ writers' = OtherWriters(i)
         /\ UNCHANGED queue
    ELSE /\ queue' = PopBatch(queue)
         /\ writers' = [writers EXCEPT ![i] = Batch(queue)]
         /\ UNCHANGED write_in_progress

\* The spawned coroutine starts, at once or later.
WriterStarts(i) ==
    /\ writers[i] = <<>>
    /\ WriterLoop(i)
    /\ UNCHANGED <<offered, posts, stopped, accepted, sent>>

WriteCompletes(i) ==
    /\ writers[i] # <<>>
    /\ sent' = sent \o Numbers(writers[i])
    /\ WriterLoop(i)
    /\ UNCHANGED <<offered, posts, stopped, accepted>>

\* async_write reports an error after a part of the batch went out.
WriteFails(i) ==
    /\ writers[i] # <<>>
    /\ \E n \in 0..(Len(writers[i]) - 1) :
          sent' = sent \o Numbers(SubSeq(writers[i], 1, n))
    /\ write_in_progress' = FALSE
    /\ StopSession(queue)
    /\ writers' = OtherWriters(i)
    /\ UNCHANGED <<offered, posts, accepted>>

\* The coroutine ends by an exception and its completion handler stops the
\* session; write_in_progress_ keeps its value.
WriterThrows(i) ==
    /\ writers[i] # <<>>
    /\ StopSession(queue)
    /\ writers' = OtherWriters(i)
    /\ UNCHANGED <<offered, posts, write_in_progress, accepted, sent>>

Drained == posts = <<>> /\ writers = <<>> /\ (stopped \/ offered = MaxOffered) /\ UNCHANGED vars

WriterStep(i) == WriterStarts(i) \/ WriteCompletes(i) \/ WriteFails(i) \/ WriterThrows(i)

Next ==
    \/ Deliver \/ DeliverHandler \/ PingResponse \/ ReaderStops
    \/ \E i \in DOMAIN writers : WriterStep(i)
    \/ Drained

Spec == Init /\ [][Next]_vars

-----------------------------------------------------------------------------
(* Safety *)

\* write_in_progress_ means what it says: there is never a second writer
\* coroutine, and as long as the session runs the flag is set exactly while
\* one exists.
SingleWriter ==
    /\ Len(writers) <= 1
    /\ ~stopped => (write_in_progress <=> Len(writers) = 1)

\* A running session without a writer has nothing queued, so no packet waits for
\* a writer nobody starts, and the byte limit can only be exceeded behind a
\* write that is in progress.
NothingStranded == ~stopped /\ ~write_in_progress => queue.packets = <<>> /\ queue.pending_bytes = 0

\* pending_bytes_ is the size of what is queued, and queue and batch in flight
\* together stay within the limit and one batch, where a batch may exceed
\* max_outbound_batch_bytes only by being a single packet.
BytesBounded ==
    /\ queue.pending_bytes = Bytes(queue.packets)
    /\ queue.pending_bytes <= MaxPendingBytes
    /\ \A i \in DOMAIN writers :
          /\ Len(writers[i]) <= MaxBatchPackets
          /\ Len(writers[i]) > 1 => Bytes(writers[i]) <= MaxBatchBytes
          /\ \E largest \in PacketSizes \cup {MaxBatchBytes} :
                queue.pending_bytes + Bytes(writers[i]) <= MaxPendingBytes + largest

\* pop_batch takes the longest prefix that fits: at least one packet of a queue
\* that is not empty, and it stops only at the packet or the byte limit.
BatchIsLongestPrefix ==
    LET packets == queue.packets
        n == BatchLength(packets)
    IN  /\ n = 0 <=> packets = <<>>
        /\ n < Len(packets) =>
              n = MaxBatchPackets \/ Bytes(SubSeq(packets, 1, n + 1)) > MaxBatchBytes

\* The client receives the accepted packets in order, without loss or repetition,
\* until the session is stopped.
Stream == INSTANCE OutboundStream WITH received <- sent, cut <- stopped
ImplementsStream == Stream!Spec

-----------------------------------------------------------------------------
(* Liveness *)

\* The event loop runs posted handlers and spawned coroutines.
HandlerFairness ==
    /\ WF_vars(DeliverHandler)
    /\ WF_vars(\E i \in DOMAIN writers : WriterStarts(i))

\* A client that keeps reading: every write completes or fails.
ClientReads == WF_vars(\E i \in DOMAIN writers : WriteCompletes(i) \/ WriteFails(i))

FairSpec == Spec /\ HandlerFairness /\ ClientReads

\* Every packet a session accepted reaches a client that keeps reading, unless
\* the session is stopped: no wakeup of the writer is missed between its last
\* empty pop and the next enqueue.
AcceptedIsSent ==
    \A n \in 1..MaxOffered : accepted >= n ~> (Len(sent) >= n \/ stopped)
=============================================================================
