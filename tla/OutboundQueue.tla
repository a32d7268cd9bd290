--------------------------- MODULE OutboundQueue ----------------------------
(***************************************************************************)
(* The bounded packet queue of a Session (src/src/network/                 *)
(* outbound_queue.cpp) as operators on a queue record: packets_,           *)
(* pending_bytes_ and closed_.  A packet is its number in the order of     *)
(* acceptance and its size in bytes; sizes are size_t, so a subtraction    *)
(* that went below zero would wrap.                                        *)
(***************************************************************************)
EXTENDS Integers, Sequences, FiniteSetsExt

CONSTANTS
    MaxPendingBytes,    \* max_session_outbound_bytes
    MaxBatchPackets,    \* max_outbound_batch_packets: the size of packet_batch
    MaxBatchBytes,      \* max_outbound_batch_bytes
    SizeModulus         \* number of values of size_t

ASSUME QueueAssumption ==
    /\ MaxPendingBytes \in Nat /\ MaxBatchPackets \in Nat /\ MaxBatchBytes \in Nat
    /\ SizeModulus \in Nat
    /\ 2 * MaxPendingBytes < SizeModulus /\ MaxBatchBytes < SizeModulus

Minus(a, b) == (a - b) % SizeModulus

\* The bytes of each prefix of a sequence of packets, and of the whole of it.
RunningBytes(packets) ==
    LET sum[i \in 0..Len(packets)] == IF i = 0 THEN 0 ELSE sum[i - 1] + packets[i].size
    IN  sum

Bytes(packets) == RunningBytes(packets)[Len(packets)]

EmptyQueue == [packets |-> <<>>, pending_bytes |-> 0, closed |-> FALSE]

\* The checks of push, in their order.  A null packet is one of size 0 here.
PushError(queue, size) ==
    CASE queue.closed -> "closed"
      [] ~queue.closed /\ size = 0 -> "invalid_packet"
      [] ~queue.closed /\ size > MaxPendingBytes -> "packet_too_large"
      [] OTHER -> IF size > Minus(MaxPendingBytes, queue.pending_bytes)
                  THEN "byte_limit_exceeded"
                  ELSE "none"

Push(queue, packet) ==
    [queue EXCEPT !.packets = Append(@, packet),
                  !.pending_bytes = (@ + packet.size) % SizeModulus]

\* Mutant of TakesNext: a packet that fills the batch exactly is left for later.
TakesNextStrict(packets, n) ==
    /\ n < MaxBatchPackets
    /\ n < Len(packets)
    /\ LET taken == Bytes(SubSeq(packets, 1, n)) IN
          \/ n = 0
          \/ taken < MaxBatchBytes /\ packets[n + 1].size < Minus(MaxBatchBytes, taken)

\* pop_batch's loop, having taken n packets, takes the next one too.
TakesNext(packets, n) ==
    /\ n < MaxBatchPackets
    /\ n < Len(packets)
    /\ LET taken == Bytes(SubSeq(packets, 1, n)) IN
          \/ n = 0
          \/ taken < MaxBatchBytes /\ packets[n + 1].size <= Minus(MaxBatchBytes, taken)

BatchLength(packets) ==
    IF MaxBatchPackets = 0 \/ MaxBatchBytes = 0
    THEN 0
    ELSE Min({n \in 0..Len(packets) : ~TakesNext(packets, n)})

Batch(queue) == SubSeq(queue.packets, 1, BatchLength(queue.packets))

\* Mutants of PopBatch: pending_bytes_ is not reduced; one packet of the batch is
\* not taken off the queue.
PopKeepsBytes(queue) ==
    [queue EXCEPT !.packets = SubSeq(@, BatchLength(@) + 1, Len(@))]

PopLeavesOne(queue) ==
    [queue EXCEPT !.packets = SubSeq(@, BatchLength(@), Len(@)),
                  !.pending_bytes = Minus(@, Bytes(SubSeq(queue.packets, 1, BatchLength(queue.packets) - 1)))]

PopBatch(queue) ==
    [queue EXCEPT !.packets = SubSeq(@, BatchLength(@) + 1, Len(@)),
                  !.pending_bytes = Minus(@, Bytes(Batch(queue)))]

Close(queue) == [packets |-> <<>>, pending_bytes |-> 0, closed |-> TRUE]
=============================================================================
