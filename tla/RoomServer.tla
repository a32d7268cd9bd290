----------------------------- MODULE RoomServer -----------------------------
(***************************************************************************)
(* The running server: the accept loop (server.cpp), one Session per       *)
(* connection (session.cpp), the SessionRegistry, the Room worker thread   *)
(* with its command queue (room_worker.cpp) and main's shutdown order.     *)
(*                                                                         *)
(* Two threads take steps.  The I/O thread runs coroutines and posted      *)
(* handlers, one at a time; `turn' is the session whose reader coroutine   *)
(* it is inside of, because a reader processes every packet of a chunk     *)
(* without suspending.  The Room worker interleaves with it between any    *)
(* two of its accesses to a mutex-protected structure.                     *)
(*                                                                         *)
(* What is queued to the client is abstracted here to "a write is in       *)
(* progress": SessionOutbound models the outbound queue and its writer.    *)
(***************************************************************************)
EXTENDS Room, Sequences, FiniteSets

CONSTANTS
    MaxPackets,     \* bound: packets all clients send together
    MaxThrows,      \* bound: exceptions out of a reader coroutine
    MaxFailures,    \* bound: exceptions out of the Room's event handler
    StaleReads      \* TRUE: a read that has completed when its socket is
                    \* closed still reports its data (what Asio does)

ASSUME ServerAssumption ==
    /\ MaxPackets \in Nat
    /\ MaxThrows \in Nat
    /\ MaxFailures \in Nat
    /\ StaleReads \in BOOLEAN

VARIABLES
    \* run_server, main
    accepting, nextSessionId, main,
    \* per session: coroutine of run_session, flags of Session
    reader, stopped, joined, writing,
    \* io_context: posted deliver handlers per session, the current turn
    posts, turn,
    \* what the bounds count
    received, throws,
    \* SessionRegistry
    sessions, members,
    \* CloseableQueue<RoomCommand>
    commands, closed,
    \* Room and RoomWorker counters
    players, processed, rejected, failures,
    \* the worker thread: its place in run(), the event it publishes, the
    \* endpoints it has locked and not yet delivered to
    worker, event, recipients,
    \* history: number of the last event posted to each session
    lastPosted

serverVars == <<accepting, nextSessionId, main>>
flagVars == <<stopped, joined>>
ioVars == <<posts, turn>>
boundVars == <<received, throws>>
registryVars == <<sessions, members>>
queueVars == <<commands, closed>>
roomVars == <<players, processed, rejected>>
workerVars == <<worker, event, recipients, failures, lastPosted>>

vars == <<serverVars, reader, flagVars, writing, ioVars, boundVars,
          registryVars, queueVars, roomVars, workerVars>>

NoTurn == 0

NoEvent == [type |-> "none", session_id |-> 0]

(***************************************************************************)
(* Where run_session is: not accepted, spawned, suspended in               *)
(* async_read_some ("reading"), the same with its completion queued        *)
(* ("data", or "failed" for eof, reset, abort and every other error), in   *)
(* the packet loop ("processing"), back from run() and about to unregister *)
(* ("returning"), finished.                                                *)
(***************************************************************************)
ReaderStates ==
    {"none", "spawned", "reading", "data", "failed", "processing", "returning", "done"}
Inactive == {"none", "done"}

TypeOK ==
    /\ accepting \in BOOLEAN
    /\ nextSessionId \in 1..(MaxSessions + 1)
    /\ main \in {"running", "stopping", "stopped"}
    /\ reader \in [SessionIds -> ReaderStates]
    /\ stopped \in [SessionIds -> BOOLEAN]
    /\ joined \in [SessionIds -> BOOLEAN]
    /\ writing \in [SessionIds -> BOOLEAN]
    /\ received \in 0..MaxPackets
    /\ posts \in [SessionIds -> Nat]
    /\ turn \in SessionIds \cup {NoTurn}
    /\ throws \in 0..MaxThrows
    /\ sessions \subseteq SessionIds
    /\ members \subseteq SessionIds
    /\ commands \in Seq(RoomCommands)
    /\ closed \in BOOLEAN
    /\ players \in Rooms
    /\ processed \in Nat
    /\ rejected \in Nat
    /\ failures \in 0..MaxFailures
    /\ worker \in {"idle", "publish", "deliver", "exited"}
    /\ event \in RoomEvents \cup {NoEvent}
    /\ recipients \subseteq SessionIds
    /\ lastPosted \in [SessionIds -> Nat]

Init ==
    /\ accepting = TRUE
    /\ nextSessionId = 1
    /\ main = "running"
    /\ reader = [s \in SessionIds |-> "none"]
    /\ stopped = [s \in SessionIds |-> FALSE]
    /\ joined = [s \in SessionIds |-> FALSE]
    /\ writing = [s \in SessionIds |-> FALSE]
    /\ received = 0
    /\ posts = [s \in SessionIds |-> 0]
    /\ turn = NoTurn
    /\ throws = 0
    /\ sessions = {}
    /\ members = {}
    /\ commands = <<>>
    /\ closed = FALSE
    /\ players = EmptyRoom
    /\ processed = 0
    /\ rejected = 0
    /\ failures = 0
    /\ worker = "idle"
    /\ event = NoEvent
    /\ recipients = {}
    /\ lastPosted = [s \in SessionIds |-> 0]

\* The I/O thread is between two handlers.
IoReady == main = "running" /\ turn = NoTurn

\* The Session object exists as long as somebody holds a shared_ptr to it: the
\* run_session frame, the writer's completion handler or a posted deliver
\* handler (the worker's recipients vector is empty when it asks).
Alive(s) == reader[s] \notin Inactive \/ writing[s] \/ posts[s] > 0

-----------------------------------------------------------------------------
(* run_server *)

Accept ==
    /\ IoReady
    /\ accepting
    /\ nextSessionId \in SessionIds
    /\ nextSessionId' = nextSessionId + 1
    /\ reader' = [reader EXCEPT ![nextSessionId] = "spawned"]
    /\ UNCHANGED <<accepting, main, flagVars, writing, ioVars, boundVars,
                   registryVars, queueVars, roomVars, workerVars>>

\* async_accept fails: run_server throws (or returns, when it was aborted) and
\* its completion handler lets main's context.run() return once idle.
AcceptFails ==
    /\ IoReady
    /\ accepting
    /\ accepting' = FALSE
    /\ UNCHANGED <<nextSessionId, main, reader, flagVars, writing, ioVars, boundVars,
                   registryVars, queueVars, roomVars, workerVars>>
-----------------------------------------------------------------------------
(* Session helpers *)

\* submit_room_command: CloseableQueue::push refuses once the queue is closed.
Submit(command) ==
    commands' = IF closed THEN commands ELSE Append(commands, command)

\* Mutant of LeaveRoomIfJoined: joined_room_ is not reset.
LeaveKeepsFlag(s) ==
    /\ UNCHANGED joined
    /\ IF joined[s] THEN Submit(LeaveCommand(s)) ELSE UNCHANGED commands

\* leave_room_if_joined: the result of the submission is ignored.
LeaveRoomIfJoined(s) ==
    /\ joined' = [joined EXCEPT ![s] = FALSE]
    /\ IF joined[s] THEN Submit(LeaveCommand(s)) ELSE UNCHANGED commands

\* stop_session, up to closing the socket: only the first call does anything.
StopSession(s) ==
    IF stopped[s]
    THEN UNCHANGED <<stopped, joined, commands>>
    ELSE /\ stopped' = [stopped EXCEPT ![s] = TRUE]
         /\ LeaveRoomIfJoined(s)

\* Mutant of CancelRead: the socket is neither cancelled nor closed.
CancelNothing(state) == state

\* What cancel() and close() on the socket do to the reader of a session that
\* is stopped by somebody else: a read that is outstanding is aborted, one
\* whose completion is queued already has its result.
CancelRead(state) ==
    IF state = "reading" \/ (state = "data" /\ ~StaleReads) THEN "failed" ELSE state

\* stop_session called by the writer or by a deliver handler.
StopFromOutside(s) ==
    /\ StopSession(s)
    /\ reader' = IF stopped[s] THEN reader ELSE [reader EXCEPT ![s] = CancelRead(@)]

-----------------------------------------------------------------------------
(* run_session and Session::run on the I/O thread *)

\* run_session starts: register_session, then the first async_read_some.
StartSession(s) ==
    /\ IoReady
    /\ reader[s] = "spawned"
    /\ sessions' = sessions \cup {s}
    /\ reader' = [reader EXCEPT ![s] = IF s \in sessions THEN "done" ELSE "reading"]
    /\ UNCHANGED <<serverVars, flagVars, writing, ioVars, boundVars, members,
                   queueVars, roomVars, workerVars>>

\* The reactor completes an outstanding read: the client's bytes, the end of
\* the stream (or a reset), or another error.  The handler runs later.
ReadCompletes(s) ==
    /\ IoReady
    /\ reader[s] = "reading"
    /\ \E result \in {"data", "failed"} :
          /\ result = "data" => received < MaxPackets
          /\ reader' = [reader EXCEPT ![s] = result]
    /\ UNCHANGED <<serverVars, flagVars, writing, ioVars, boundVars,
                   registryVars, queueVars, roomVars, workerVars>>

\* run() resumes with an error.  Every branch stops the session and returns; the
\* branch for an abort of a stopped session skips a call that does nothing.
ReadFailed(s) ==
    /\ IoReady
    /\ reader[s] = "failed"
    /\ StopSession(s)
    /\ reader' = [reader EXCEPT ![s] = "returning"]
    /\ turn' = s
    /\ UNCHANGED <<serverVars, writing, posts, boundVars, registryVars, closed,
                   roomVars, workerVars>>

\* run() resumes with bytes, appends them to the receive buffer and enters the
\* packet loop.
ReadSucceeded(s) ==
    /\ IoReady
    /\ reader[s] = "data"
    /\ reader' = [reader EXCEPT ![s] = "processing"]
    /\ turn' = s
    /\ UNCHANGED <<serverVars, flagVars, writing, posts, boundVars,
                   registryVars, queueVars, roomVars, workerVars>>

\* No complete packet is left in the buffer: back to async_read_some, which
\* fails at once when the socket has been closed meanwhile.
AwaitMoreBytes(s) ==
    /\ main = "running"
    /\ turn = s
    /\ reader[s] = "processing"
    /\ reader' = [reader EXCEPT ![s] = IF stopped[s] THEN "failed" ELSE "reading"]
    /\ turn' = NoTurn
    /\ UNCHANGED <<serverVars, flagVars, writing, posts, boundVars,
                   registryVars, queueVars, roomVars, workerVars>>

-----------------------------------------------------------------------------
(* process_packets_and_send_responses: one packet of the buffer *)

\* decode_one yields the next packet.
NextPacket(s) ==
    /\ main = "running"
    /\ turn = s
    /\ reader[s] = "processing"
    /\ received < MaxPackets
    /\ received' = received + 1

\* The loop goes on with the following packet, or run() returns.
Continue == UNCHANGED reader
Return(s) == reader' = [reader EXCEPT ![s] = "returning"]

unchangedByPacket == <<serverVars, ioVars, throws, registryVars, closed,
                       roomVars, workerVars>>

\* reject_protocol, and a packet decode_one refuses.
RejectProtocol(s) ==
    /\ StopSession(s)
    /\ Return(s)
    /\ UNCHANGED writing

\* enqueue_outbound.  A write in progress may have left so much queued that the
\* packet exceeds the byte limit; otherwise the packet is queued and, if no
\* writer runs, one is started.
OutboundAccepts(s) ==
    /\ ~stopped[s]
    /\ writing' = [writing EXCEPT ![s] = TRUE]

OutboundOverflows(s) ==
    /\ ~stopped[s]
    /\ writing[s]

PingPacket(s) ==
    /\ NextPacket(s)
    /\ \/ /\ stopped[s]
          /\ Return(s)
          /\ UNCHANGED <<flagVars, commands, writing>>
       \/ /\ OutboundAccepts(s)
          /\ Continue
          /\ UNCHANGED <<flagVars, commands>>
       \/ /\ OutboundOverflows(s)
          /\ StopSession(s)
          /\ Return(s)
          /\ UNCHANGED writing
    /\ UNCHANGED unchangedByPacket

JoinPacket(s) ==
    /\ NextPacket(s)
    /\ IF joined[s]
       THEN RejectProtocol(s)
       ELSE IF closed
       THEN /\ StopSession(s)
            /\ Return(s)
            /\ UNCHANGED writing
       ELSE /\ Submit(JoinCommand(s))
            /\ joined' = [joined EXCEPT ![s] = TRUE]
            /\ Continue
            /\ UNCHANGED <<stopped, writing>>
    /\ UNCHANGED unchangedByPacket

MovePacket(s) ==
    /\ NextPacket(s)
    /\ IF ~joined[s]
       THEN RejectProtocol(s)
       ELSE IF closed
       THEN /\ StopSession(s)
            /\ Return(s)
            /\ UNCHANGED writing
       ELSE /\ \E p \in Positions : Submit(MoveCommand(s, p))
            /\ Continue
            /\ UNCHANGED <<flagVars, writing>>
    /\ UNCHANGED unchangedByPacket

LeavePacket(s) ==
    /\ NextPacket(s)
    /\ IF ~joined[s]
       THEN RejectProtocol(s)
       ELSE /\ LeaveRoomIfJoined(s)
            /\ Continue
            /\ UNCHANGED <<stopped, writing>>
    /\ UNCHANGED unchangedByPacket

\* A packet the server never accepts: bad header or type, bad payload, attack, a
\* server-only type; a chunk the receive buffer refuses is treated alike.
RefusedPacket(s) ==
    /\ NextPacket(s)
    /\ RejectProtocol(s)
    /\ UNCHANGED unchangedByPacket

\* An exception leaves run(): run_session unregisters and rethrows, and
\* stop_session is not called.
RunThrows(s) ==
    /\ main = "running"
    /\ turn = s
    /\ reader[s] = "processing"
    /\ throws < MaxThrows
    /\ throws' = throws + 1
    /\ Return(s)
    /\ UNCHANGED <<serverVars, flagVars, writing, ioVars, received,
                   registryVars, queueVars, roomVars, workerVars>>

\* Mutant of Unregister: the session stays in room_members_.
UnregisterKeepsMember(s) ==
    /\ main = "running"
    /\ turn = s
    /\ reader[s] = "returning"
    /\ sessions' = sessions \ {s}
    /\ reader' = [reader EXCEPT ![s] = "done"]
    /\ turn' = NoTurn
    /\ UNCHANGED <<serverVars, flagVars, writing, posts, boundVars, members,
                   queueVars, roomVars, workerVars>>

\* unregister_session, and the end of run_session.
Unregister(s) ==
    /\ main = "running"
    /\ turn = s
    /\ reader[s] = "returning"
    /\ sessions' = sessions \ {s}
    /\ members' = members \ {s}
    /\ reader' = [reader EXCEPT ![s] = "done"]
    /\ turn' = NoTurn
    /\ UNCHANGED <<serverVars, flagVars, writing, posts, boundVars,
                   queueVars, roomVars, workerVars>>

-----------------------------------------------------------------------------
(* Handlers posted by Session::deliver, and the writer coroutine *)

\* Mutant of TakePost: a posted handler is taken off the queue twice.
TakePostTwice(s) ==
    /\ posts[s] > 0
    /\ posts' = [posts EXCEPT ![s] = @ - 2]

\* The io_context takes a posted handler of the session off its queue.
TakePost(s) ==
    /\ posts[s] > 0
    /\ posts' = [posts EXCEPT ![s] = @ - 1]

DeliverHandler(s) ==
    /\ IoReady
    /\ TakePost(s)
    /\ \/ /\ stopped[s]
          /\ UNCHANGED <<reader, flagVars, commands, writing>>
       \/ /\ OutboundAccepts(s)
          /\ UNCHANGED <<reader, flagVars, commands>>
       \/ /\ OutboundOverflows(s)
          /\ StopFromOutside(s)
          /\ UNCHANGED writing
    /\ UNCHANGED <<serverVars, turn, boundVars, registryVars, closed,
                   roomVars, workerVars>>

\* write_queued_packets finds the queue empty, or the session stopped.
WriterReturns(s) ==
    /\ IoReady
    /\ writing[s]
    /\ writing' = [writing EXCEPT ![s] = FALSE]
    /\ UNCHANGED <<serverVars, reader, flagVars, ioVars, boundVars,
                   registryVars, queueVars, roomVars, workerVars>>

\* async_write reports an error, or the writer ends by an exception.
WriterFails(s) ==
    /\ IoReady
    /\ writing[s]
    /\ writing' = [writing EXCEPT ![s] = FALSE]
    /\ StopFromOutside(s)
    /\ UNCHANGED <<serverVars, ioVars, boundVars, registryVars, closed,
                   roomVars, workerVars>>

-----------------------------------------------------------------------------
(* RoomWorker::run and SessionRegistry::publish on the worker thread *)

\* wait_pop returns a command, and the Room applies it.
WorkerApplies ==
    /\ worker = "idle"
    /\ commands # <<>>
    /\ LET command == Head(commands) IN
          /\ commands' = Tail(commands)
          /\ players' = Apply(players, command)
          /\ processed' = processed + 1
          /\ IF Accepts(players, command)
             THEN /\ worker' = "publish"
                  /\ event' = EventOf(command)
                  /\ UNCHANGED rejected
             ELSE /\ rejected' = rejected + 1
                  /\ UNCHANGED <<worker, event>>
    /\ UNCHANGED <<serverVars, reader, flagVars, writing, ioVars, boundVars,
                   registryVars, closed, recipients, failures, lastPosted>>

\* Mutant of MembersAfter: the session of a player_left event stays a member.
MembersKeepLeaver(e) ==
    IF e.type = "player_joined" THEN members \cup {e.session_id} ELSE members

\* room_members_ after the event itself.
MembersAfter(e) ==
    CASE e.type = "player_joined" -> members \cup {e.session_id}
      [] e.type = "player_left" -> members \ {e.session_id}
      [] OTHER -> members

\* publish under the registry mutex: update the members, drop those that are
\* not registered or whose endpoint has expired, lock the others.
WorkerPublishes ==
    /\ worker = "publish"
    /\ LET registered == MembersAfter(event) \cap sessions
           live == {s \in registered : Alive(s)}
       IN  /\ members' = live
           /\ sessions' = sessions \ (registered \ live)
           /\ recipients' = live
           /\ worker' = IF live = {} THEN "idle" ELSE "deliver"
           /\ event' = IF live = {} THEN NoEvent ELSE event
    /\ UNCHANGED <<serverVars, reader, flagVars, writing, ioVars, boundVars,
                   queueVars, roomVars, failures, lastPosted>>

\* publish after the mutex: deliver posts a handler to one recipient.
WorkerDelivers(s) ==
    /\ worker = "deliver"
    /\ s \in recipients
    /\ posts' = [posts EXCEPT ![s] = @ + 1]
    /\ lastPosted' = [lastPosted EXCEPT ![s] = processed]
    /\ recipients' = recipients \ {s}
    /\ worker' = IF recipients = {s} THEN "idle" ELSE "deliver"
    /\ event' = IF recipients = {s} THEN NoEvent ELSE event
    /\ UNCHANGED <<serverVars, reader, flagVars, writing, turn, boundVars,
                   registryVars, queueVars, roomVars, failures>>

\* The event handler throws: while encoding, under the mutex with room_members_
\* updated or not, or between two deliveries.  The rest of the event is lost
\* and the worker goes on.
HandlerThrows ==
    /\ worker \in {"publish", "deliver"}
    /\ failures < MaxFailures
    /\ failures' = failures + 1
    /\ members' \in IF worker = "publish" THEN {members, MembersAfter(event)} ELSE {members}
    /\ worker' = "idle"
    /\ event' = NoEvent
    /\ recipients' = {}
    /\ UNCHANGED <<serverVars, reader, flagVars, writing, ioVars, boundVars,
                   sessions, queueVars, roomVars, lastPosted>>

\* Mutant of WorkerExits: wait_pop gives up as soon as the queue is closed.
WorkerExitsUndrained ==
    /\ worker = "idle"
    /\ closed
    /\ worker' = "exited"
    /\ UNCHANGED <<serverVars, reader, flagVars, writing, ioVars, boundVars,
                   registryVars, queueVars, roomVars, event, recipients,
                   failures, lastPosted>>

\* wait_pop returns nullopt: the queue is closed and drained.
WorkerExits ==
    /\ worker = "idle"
    /\ commands = <<>>
    /\ closed
    /\ worker' = "exited"
    /\ UNCHANGED <<serverVars, reader, flagVars, writing, ioVars, boundVars,
                   registryVars, queueVars, roomVars, event, recipients,
                   failures, lastPosted>>

-----------------------------------------------------------------------------
(* main *)

\* Mutant of ContextIdle: main does not wait for the sessions.
AcceptorGone == ~accepting /\ turn = NoTurn

\* context.run() has no work left: no acceptor, coroutine or posted handler.
ContextIdle ==
    /\ ~accepting
    /\ turn = NoTurn
    /\ \A s \in SessionIds : reader[s] \in Inactive /\ ~writing[s] /\ posts[s] = 0

\* Mutant of MainStopsWorker: stop() joins without closing the queue.
MainStopsWithoutClose ==
    /\ main = "running"
    /\ ContextIdle
    /\ main' = "stopping"
    /\ UNCHANGED <<accepting, nextSessionId, reader, flagVars, writing, ioVars,
                   boundVars, registryVars, queueVars, roomVars, workerVars>>

\* context.run() returns and room_worker.stop() closes the command queue.
MainStopsWorker ==
    /\ main = "running"
    /\ ContextIdle
    /\ main' = "stopping"
    /\ closed' = TRUE
    /\ UNCHANGED <<accepting, nextSessionId, reader, flagVars, writing, ioVars,
                   boundVars, registryVars, commands, roomVars, workerVars>>

\* join() returns.
MainJoinsWorker ==
    /\ main = "stopping"
    /\ worker = "exited"
    /\ main' = "stopped"
    /\ UNCHANGED <<accepting, nextSessionId, reader, flagVars, writing, ioVars,
                   boundVars, registryVars, queueVars, roomVars, workerVars>>

Terminated == main = "stopped" /\ UNCHANGED vars

-----------------------------------------------------------------------------

PacketStep(s) ==
    \/ PingPacket(s) \/ JoinPacket(s) \/ MovePacket(s) \/ LeavePacket(s)
    \/ RefusedPacket(s)

WorkerStep ==
    \/ WorkerApplies \/ WorkerPublishes \/ HandlerThrows \/ WorkerExits
    \/ \E s \in SessionIds : WorkerDelivers(s)

SessionStep(s) ==
    \/ StartSession(s) \/ ReadCompletes(s) \/ ReadFailed(s) \/ ReadSucceeded(s)
    \/ AwaitMoreBytes(s) \/ PacketStep(s) \/ RunThrows(s) \/ Unregister(s)
    \/ DeliverHandler(s) \/ WriterReturns(s) \/ WriterFails(s)

Next ==
    \/ Accept \/ AcceptFails \/ WorkerStep
    \/ \E s \in SessionIds : SessionStep(s)
    \/ MainStopsWorker \/ MainJoinsWorker
    \/ Terminated

Spec == Init /\ [][Next]_vars

-----------------------------------------------------------------------------
(* Safety *)

\* Session::joined_room_ and the FIFO command queue keep the Room's own checks
\* idle: whatever the interleaving of packets, stops and rejoins, Room::apply
\* never answers duplicate_session or session_not_found.
NoCommandRejected == rejected = 0

\* SessionRegistry broadcasts to exactly the registered players: outside the
\* window between Room::apply and the registry's critical section,
\* room_members_ is the set of registered sessions the Room holds, although
\* sessions unregister on the I/O thread at any point of the worker's step
\* (as long as no publish was cut short by an exception).
MembersMatchRoom ==
    failures = 0 /\ worker # "publish" => members = PlayersOf(players) \cap sessions

\* The command queue stays open as long as any session could still submit to
\* it: the server_shutdown paths of Session are never taken and no
\* LeaveCommand is lost to a closed queue.
QueueOutlivesSessions ==
    closed => /\ turn = NoTurn
              /\ \A s \in SessionIds : reader[s] \in Inactive /\ ~writing[s]

\* Every session whose run_session has returned, with no command of its own
\* left to apply, has no player in the Room.
NoGhostPlayer ==
    \A s \in SessionIds :
        /\ reader[s] = "done"
        /\ \A i \in 1..Len(commands) : commands[i].session_id # s
        => players[s] = Absent

\* What publish posts to a session is its own player_joined first and then
\* every following event of the Room, in order and without a gap, up to but not
\* including its own player_left.
EventsPostedInOrder ==
    [][\A s \in SessionIds :
         posts'[s] > posts[s] /\ failures = 0 =>
            \/ event = [type |-> "player_joined", session_id |-> s]
            \/ /\ event # [type |-> "player_left", session_id |-> s]
               /\ lastPosted[s] # 0
               /\ lastPosted[s] = processed - 1]_vars

-----------------------------------------------------------------------------
(* Liveness *)

\* The worker thread runs, main returns from context.run(), and a reader's turn
\* goes on to its end.  A handler that is ready waits for the turns of others,
\* which the io_context serves in FIFO order: it is not overtaken for ever, so
\* its fairness is strong.  Nothing is assumed of the clients: a read may stay
\* outstanding and a write in progress for ever, until the socket is closed.
Fairness ==
    /\ WF_vars(WorkerStep)
    /\ WF_vars(MainStopsWorker) /\ WF_vars(MainJoinsWorker)
    /\ \A s \in SessionIds :
          /\ WF_vars(AwaitMoreBytes(s) \/ Unregister(s))
          /\ SF_vars(StartSession(s) \/ ReadFailed(s) \/ ReadSucceeded(s))
          /\ SF_vars(DeliverHandler(s))
          /\ SF_vars(stopped[s] /\ WriterReturns(s))

FairSpec == Spec /\ Fairness

\* A session that is stopped, by whichever of reader, writer or deliver handler,
\* ends its run_session and leaves the registry, whatever its client does.
StoppedSessionEnds == \A s \in SessionIds : stopped[s] ~> reader[s] = "done"

\* Every command the queue accepted is applied, also when main closes the queue
\* with commands still waiting and when a broadcast threw before: the worker
\* empties the queue again and again.
AcceptedCommandsApplied == []<>(commands = <<>>)

\* Once the acceptor is gone and every session has ended, the worker drains
\* and main returns: no post and no command keeps the process alive.
ServerTerminates ==
    (~accepting /\ \A s \in SessionIds : reader[s] \in Inactive /\ (reader[s] = "done" => stopped[s]))
        ~> main = "stopped"
=============================================================================
