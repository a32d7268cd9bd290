---------------------------- MODULE LoadClient ----------------------------
(***************************************************************************)
(* The benchmark's load client (src/benchmark/load_client.cpp): one        *)
(* coroutine run_bot per client on a one-threaded io_context, the RunState *)
(* they share, and a server that serves their requests one at a time and   *)
(* writes an event to every member of the room.  A step of a client is the *)
(* code between two of its co_awaits.  A connection may be lost at any     *)
(* time, at most MaxFaults of them.                                        *)
(***************************************************************************)
EXTENDS LatencySummary, Sequences, FiniteSets

CONSTANTS
    NumClients,     \* config.client_count
    WarmupMoves,    \* config.warmup_moves_per_client
    MeasuredMoves,  \* config.measured_moves_per_client
    MaxFaults       \* bound: connections lost in a run

MaxCoordinate == 2147483647

\* validate_config.  Its last test (the number of samples fits a size_t) can
\* not fail where size_t has 64 bits, once the tests before it have passed.
ValidConfig ==
    /\ NumClients \in 1 .. MaxCoordinate
    /\ MeasuredMoves \in 1 .. MaxCoordinate
    /\ WarmupMoves \in 0 .. (MaxCoordinate - MeasuredMoves)

ASSUME ConfigAssumption == ValidConfig /\ MaxFaults \in Nat

Clients == 0 .. (NumClients - 1)
Gates == {"ready", "warmed", "barrier", "completed"}

VARIABLES
    at,         \* where each run_bot is suspended; a gate's name when it waits there
    sequence,   \* moves each client has completed
    observed,   \* observed_leaves
    gate,       \* RunState: the four counters of clients that arrived
    samples,    \* RunState: the size of latencies_
    failure,    \* RunState: failure_ has a value
    requests,   \* what each connection carries to the server
    events,     \* what each connection carries to its client
    broken,     \* connections that were lost
    members,    \* the server: clients in the room
    delivered   \* the server: events written to connections

runState == <<gate, samples, failure>>
network == <<requests, events, broken>>
server == <<members, delivered>>
vars == <<at, sequence, observed, runState, network, server>>

Init ==
    /\ at = [c \in Clients |-> "connecting"]
    /\ sequence = [c \in Clients |-> 0]
    /\ observed = [c \in Clients |-> 0]
    /\ gate = [g \in Gates |-> 0]
    /\ samples = 0
    /\ failure = FALSE
    /\ requests = [c \in Clients |-> <<>>]
    /\ events = [c \in Clients |-> <<>>]
    /\ broken = {}
    /\ members = {}
    /\ delivered = 0

-----------------------------------------------------------------------------
\* The steps that clients are made of.

Goto(c, place) == at' = [at EXCEPT ![c] = place]

\* send_packet succeeds; on a lost connection what it wrote goes nowhere.
Write(c, request) ==
    requests' = IF c \in broken THEN requests
                ELSE [requests EXCEPT ![c] = Append(@, request)]

\* read_next_server_event returns the next event.
Read(c) ==
    /\ events[c] # <<>>
    /\ events' = [events EXCEPT ![c] = Tail(@)]

\* client_ready, client_warmed_up, ...: count the client and wait at the gate.
Arrive(c, g) ==
    /\ gate' = [gate EXCEPT ![g] = @ + 1]
    /\ Goto(c, g)

\* Mutant of GateIsOpen: one client is not waited for.
GateOpensEarly(g) == gate[g] >= NumClients - 1

\* all_clients_ready, all_clients_warmed_up, ...
GateIsOpen(g) == gate[g] = NumClients

\* Mutant of BarrierCoordinate: the coordinates of a warm-up move.
BarrierReusesMove == <<1, 1>>

BarrierCoordinate == <<0, 0>>

\* The coordinates of the client's next move, a warm-up one or a measured one.
MoveCoordinate(c) == <<c + 1, sequence[c] + 1>>

-----------------------------------------------------------------------------
\* run_bot

Connect(c) ==
    /\ at[c] = "connecting"
    /\ c \notin broken
    /\ Write(c, <<"join">>)
    /\ Goto(c, "entering")
    /\ UNCHANGED <<sequence, observed, runState, events, broken, server>>

\* wait_for_room_entry
ReadEntry(c) ==
    /\ at[c] = "entering"
    /\ Read(c)
    /\ IF Head(events[c])[1] = "joined"
       THEN Arrive(c, "ready")
       ELSE UNCHANGED <<at, gate>>
    /\ UNCHANGED <<sequence, observed, samples, failure, requests, broken, server>>

AfterGate(g) ==
    CASE g = "ready" -> "warming"
      [] g = "warmed" -> "meeting"
      [] g = "barrier" -> "measuring"
      [] g = "completed" -> "leaving"

\* wait_for_gate returns when it finds the predicate true.
PassGate(c) ==
    /\ at[c] \in Gates
    /\ GateIsOpen(at[c])
    /\ Goto(c, AfterGate(at[c]))
    /\ UNCHANGED <<sequence, observed, runState, network, server>>

\* the bound of the loop of moves a client is in
MovesBefore(place) == IF place = "warming" THEN WarmupMoves
                      ELSE WarmupMoves + MeasuredMoves

AwaitMove(place) == IF place = "warming" THEN "warming_wait" ELSE "measuring_wait"

\* perform_move up to the wait for its event
SendMove(c) ==
    /\ at[c] \in {"warming", "measuring"}
    /\ sequence[c] < MovesBefore(at[c])
    /\ Write(c, <<"move", MoveCoordinate(c)>>)
    /\ Goto(c, AwaitMove(at[c]))
    /\ UNCHANGED <<sequence, observed, runState, events, broken, server>>

\* wait_for_move_event, and record for a measured move
ReadMove(c) ==
    /\ at[c] \in {"warming_wait", "measuring_wait"}
    /\ Read(c)
    /\ IF Head(events[c]) = <<"moved", MoveCoordinate(c)>>
       THEN /\ sequence' = [sequence EXCEPT ![c] = @ + 1]
            /\ IF at[c] = "warming_wait"
               THEN Goto(c, "warming") /\ UNCHANGED samples
               ELSE Goto(c, "measuring") /\ samples' = samples + 1
       ELSE UNCHANGED <<at, sequence, samples>>
    /\ UNCHANGED <<observed, gate, failure, requests, broken, server>>

\* The loop of moves is over: the client arrives at the gate behind it.
EndMoves(c) ==
    /\ at[c] \in {"warming", "measuring"}
    /\ sequence[c] = MovesBefore(at[c])
    /\ Arrive(c, IF at[c] = "warming" THEN "warmed" ELSE "completed")
    /\ UNCHANGED <<sequence, observed, samples, failure, network, server>>

\* Client 0 sends the barrier move; the others only wait for its event.
BeginBarrier(c) ==
    /\ at[c] = "meeting"
    /\ IF c = 0 THEN Write(c, <<"move", BarrierCoordinate>>) ELSE UNCHANGED requests
    /\ Goto(c, "meeting_wait")
    /\ UNCHANGED <<sequence, observed, runState, events, broken, server>>

ReadBarrier(c) ==
    /\ at[c] = "meeting_wait"
    /\ Read(c)
    /\ IF Head(events[c]) = <<"moved", BarrierCoordinate>>
       THEN Arrive(c, "barrier")
       ELSE UNCHANGED <<at, gate>>
    /\ UNCHANGED <<sequence, observed, samples, failure, requests, broken, server>>

\* Mutant of MustObserve: no wait at all.
MustObserveNothing(c) == FALSE

\* the loop over observed_leaves goes on
MustObserve(c) == observed[c] < c

ReadLeave(c) ==
    /\ at[c] = "leaving"
    /\ MustObserve(c)
    /\ Read(c)
    /\ observed' = [observed EXCEPT
           ![c] = IF Head(events[c])[1] = "left" THEN @ + 1 ELSE @]
    /\ UNCHANGED <<at, sequence, runState, requests, broken, server>>

\* leave_room, shutdown and close.
SendLeave(c) ==
    /\ at[c] = "leaving"
    /\ ~MustObserve(c)
    /\ Write(c, <<"leave">>)
    /\ Goto(c, "closed")
    /\ UNCHANGED <<sequence, observed, runState, events, broken, server>>

-----------------------------------------------------------------------------
\* Failures

IsReading(c) ==
    \/ at[c] \in {"entering", "warming_wait", "measuring_wait", "meeting_wait"}
    \/ at[c] = "leaving" /\ MustObserve(c)

IsWriting(c) ==
    \/ at[c] = "connecting"
    \/ at[c] \in {"warming", "measuring"} /\ sequence[c] < MovesBefore(at[c])
    \/ at[c] = "meeting" /\ c = 0
    \/ at[c] = "leaving" /\ ~MustObserve(c)

\* run_bot ends with an exception: its socket is closed, which the server
\* takes for a leave, and the completion handler calls fail.
Throw(c) ==
    /\ Goto(c, "failed")
    /\ failure' = TRUE
    /\ Write(c, <<"leave">>)
    /\ UNCHANGED <<sequence, observed, gate, samples, events, broken, server>>

\* Connecting, reading or writing reports the lost connection.  A read gives
\* what had arrived before; a write may also seem to succeed (Write).
NetworkError(c) ==
    /\ c \in broken
    /\ IsWriting(c) \/ (IsReading(c) /\ events[c] = <<>>)
    /\ Throw(c)

\* Mutant of AbandonGate: the gate does not look at failed().
NeverAbandonGate(c) == FALSE

\* wait_for_gate finds the predicate false and another client failed.
AbandonGate(c) ==
    /\ at[c] \in Gates
    /\ ~GateIsOpen(at[c])
    /\ failure
    /\ Throw(c)

\* The connection is lost, with some or none of what was under way on it;
\* the server's session ends, which makes its player leave.
LoseConnection(c) ==
    /\ at[c] \notin {"closed", "failed"}
    /\ c \notin broken
    /\ Cardinality(broken) < MaxFaults
    /\ broken' = broken \union {c}
    /\ \E lost \in {requests[c], <<>>} :
           requests' = [requests EXCEPT ![c] = Append(lost, <<"leave">>)]
    /\ \E arrived \in {events[c], <<>>} :
           events' = [events EXCEPT ![c] = arrived]
    /\ UNCHANGED <<at, sequence, observed, runState, server>>

-----------------------------------------------------------------------------
\* The server, as the clients see it: requests are served one at a time, and
\* every member of the room is written the events in the same order.

Broadcast(event, recipients) ==
    /\ events' = [c \in Clients |->
           IF c \in recipients \ broken THEN Append(events[c], event) ELSE events[c]]
    /\ delivered' = delivered + Cardinality(recipients)

Serve(c) ==
    /\ requests[c] # <<>>
    /\ LET request == Head(requests[c])
       IN  \/ /\ request[1] = "join"
              /\ members' = members \union {c}
              /\ Broadcast(<<"joined">>, members')
           \/ /\ request[1] = "move"
              /\ Broadcast(<<"moved", request[2]>>, members)
              /\ UNCHANGED members
           \/ /\ request[1] = "leave"
              /\ c \in members
              /\ members' = members \ {c}
              /\ Broadcast(<<"left">>, members')
           \/ /\ request[1] = "leave"
              /\ c \notin members
              /\ UNCHANGED <<members, delivered, events>>
    /\ requests' = [requests EXCEPT ![c] = Tail(@)]
    /\ UNCHANGED <<at, sequence, observed, runState, broken>>

ClientStep(c) ==
    \/ Connect(c) \/ ReadEntry(c) \/ PassGate(c) \/ SendMove(c) \/ ReadMove(c)
    \/ EndMoves(c) \/ BeginBarrier(c) \/ ReadBarrier(c) \/ ReadLeave(c)
    \/ SendLeave(c) \/ NetworkError(c) \/ AbandonGate(c)

Next == \E c \in Clients : ClientStep(c) \/ Serve(c) \/ LoseConnection(c)

Spec == Init /\ [][Next]_vars

\* The io_context resumes every coroutine that is ready, gate timers
\* included, and the server serves every request.
Fairness == \A c \in Clients : WF_vars(ClientStep(c)) /\ WF_vars(Serve(c))

FairSpec == Spec /\ Fairness

Ended == \A c \in Clients : at[c] \in {"closed", "failed"}

\* What run_load_test returns once context.run() has returned.
Result ==
    CASE failure -> "failure"
      [] ~failure /\ samples # NumClients * MeasuredMoves -> "too few samples"
      [] OTHER -> "summary"

-----------------------------------------------------------------------------
\* Properties

\* From the moment the last client has reached the measurement barrier no
\* client still has an event from before the barrier to read: what perform_move
\* waits for behind it is measured traffic only.
CleanStart ==
    GateIsOpen("barrier") =>
        \A c \in Clients : \A i \in 1 .. Len(events[c]) :
            LET event == events[c][i]
            IN  event[1] = "left" \/ (event[1] = "moved" /\ event[2][2] > WarmupMoves)

\* However the clients interleave, a run without a lost connection makes the
\* server write exactly N deliveries per move and the triangular numbers of
\* joins and leaves: the gates keep every client a member during every move.
ExpectedDeliveries ==
    (Ended /\ broken = {} /\ \A c \in Clients : requests[c] = <<>>) =>
        delivered = NumClients * (NumClients * (WarmupMoves + MeasuredMoves) + 1)
                    + NumClients * NumClients

\* Clients leave one behind the other, so the room publishes no event to a
\* client that has closed its socket (one published before may be unread).
OrderlyLeave ==
    [][\A c \in Clients :
           (broken = {} /\ at[c] = "closed") => events'[c] = events[c]]_vars

\* Once run_load_test summarizes a run there is a sample, and for this number of
\* samples and every larger one up to MaxSamples the percentiles index an
\* existing sample, the nearest one: no index out of range, no product that wraps.
SummaryIsNearest ==
    Ended /\ Result = "summary" => \A n \in samples .. MaxSamples : RanksAreNearest(n)

\* run_load_test returns, with a summary if no connection was lost, and never
\* with its "completed without the expected samples": a run that lost a sample
\* has recorded a failure.  Two losses are left out, after which it does not
\* return: client 0's once the others wait for its barrier move, and that of a
\* client that had completed once the others count the leaves.
RunEnds ==
    \/ <>(Ended /\ Result # "too few samples" /\ (broken = {} => Result = "summary"))
    \/ <>(GateIsOpen("warmed") /\ 0 \in broken /\ at[0] = "failed")
    \/ <>(GateIsOpen("completed") /\ broken # {})
=============================================================================
