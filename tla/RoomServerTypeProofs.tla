------------------------ MODULE RoomServerTypeProofs ------------------------
(***************************************************************************)
(* The first part of the proofs about RoomServer, for any number of        *)
(* sessions, packets, exceptions and failures, with or without stale       *)
(* reads: its types, what keeps joined_room_, the command queue and the    *)
(* Room in agreement, and what a step of a session does to them.           *)
(***************************************************************************)
EXTENDS RoomServerInv, SequenceTheorems, TLAPS

(***************************************************************************)
(* Types                                                                   *)
(***************************************************************************)

\* The numbers of TypeOK, for the arithmetic steps.
LEMMA CounterTypes ==
    ASSUME TypeOK
    PROVE  /\ processed \in Nat /\ rejected \in Nat
           /\ failures \in 0..MaxFailures /\ throws \in 0..MaxThrows
           /\ received \in 0..MaxPackets
           /\ nextSessionId \in 1..(MaxSessions + 1)
           /\ posts \in [SessionIds -> Nat] /\ lastPosted \in [SessionIds -> Nat]
BY DEF TypeOK

\* The commands the sessions submit are RoomCommands.
LEMMA CommandTypes ==
    ASSUME NEW s \in SessionIds
    PROVE  /\ JoinCommand(s) \in RoomCommands
           /\ LeaveCommand(s) \in RoomCommands
           /\ \A p \in Positions : MoveCommand(s, p) \in RoomCommands
BY DEF JoinCommand, LeaveCommand, MoveCommand, RoomCommands

\* Room::apply keeps players_ a map from session ids to positions, and an
\* accepted command has an event about its session.
LEMMA ApplyType ==
    ASSUME NEW room \in Rooms, NEW command \in RoomCommands
    PROVE  /\ command.session_id \in SessionIds
           /\ command.type \in {"join", "move", "leave"}
           /\ Apply(room, command) \in Rooms
           /\ EventOf(command) \in RoomEvents
<1>1. /\ command.session_id \in SessionIds
      /\ command.type \in {"join", "move", "leave"}
      /\ command.type = "move" => command.destination \in Positions
  BY DEF RoomCommands
<1>2. PositionAfter(command) \in Positions \cup {Absent}
  BY <1>1, RoomAssumption DEF PositionAfter
<1>3. Apply(room, command) \in Rooms
  BY <1>1, <1>2 DEF Apply, Rooms
<1>4. EventOf(command) \in RoomEvents
  BY <1>1 DEF EventOf, RoomEvents
<1> QED
  BY <1>1, <1>3, <1>4

\* publish only ever adds the session of a player_joined event, and only ever
\* removes that of a player_left event.
LEMMA MembersAfterEvent ==
    ASSUME NEW e \in RoomEvents
    PROVE  /\ e.type = "player_joined" => MembersAfter(e) = members \cup {e.session_id}
           /\ e.type = "player_left" => MembersAfter(e) = members \ {e.session_id}
           /\ e.type = "player_moved" => MembersAfter(e) = members
           /\ e.session_id \in SessionIds
           /\ e.type \in {"player_joined", "player_moved", "player_left"}
BY DEF MembersAfter, RoomEvents

\* submit appends at most the one command it is given.
LEMMA SubmitType ==
    ASSUME TypeOK, NEW command \in RoomCommands, Submit(command)
    PROVE  commands' \in Seq(RoomCommands)
BY AppendProperties DEF Submit, TypeOK

\* leave_room_if_joined and stop_session keep the flags Boolean and the queue a
\* sequence of commands.
LEMMA LeaveType ==
    ASSUME TypeOK, NEW s \in SessionIds, LeaveRoomIfJoined(s)
    PROVE  joined' \in [SessionIds -> BOOLEAN] /\ commands' \in Seq(RoomCommands)
BY CommandTypes, SubmitType, Zenon DEF LeaveRoomIfJoined, TypeOK

\* stop_session keeps the types of what it changes.
LEMMA StopType ==
    ASSUME TypeOK, NEW s \in SessionIds, StopSession(s)
    PROVE  /\ stopped' \in [SessionIds -> BOOLEAN]
           /\ joined' \in [SessionIds -> BOOLEAN]
           /\ commands' \in Seq(RoomCommands)
BY LeaveType, Zenon DEF StopSession, TypeOK

\* Cancelling a read leaves the reader in one of its states.
LEMMA StopFromOutsideType ==
    ASSUME TypeOK, NEW s \in SessionIds, StopFromOutside(s)
    PROVE  reader' \in [SessionIds -> ReaderStates]
BY DEF StopFromOutside, CancelRead, ReaderStates, TypeOK

\* A packet keeps the flags Boolean and the queue a sequence of commands.
LEMMA PacketFlagsType ==
    ASSUME TypeOK, NEW s \in SessionIds, PacketStep(s)
    PROVE  /\ stopped' \in [SessionIds -> BOOLEAN]
           /\ joined' \in [SessionIds -> BOOLEAN]
           /\ commands' \in Seq(RoomCommands)
<1>1. CASE StopSession(s)
  BY <1>1, StopType
<1>2. CASE UNCHANGED <<flagVars, commands>>
  BY <1>2 DEF flagVars, TypeOK
<1>3. CASE LeaveRoomIfJoined(s) /\ UNCHANGED stopped
  BY <1>3, LeaveType, Zenon DEF TypeOK
<1>4. ASSUME Submit(JoinCommand(s)), joined' = [joined EXCEPT ![s] = TRUE], UNCHANGED stopped
      PROVE  /\ stopped' \in [SessionIds -> BOOLEAN]
             /\ joined' \in [SessionIds -> BOOLEAN]
             /\ commands' \in Seq(RoomCommands)
  <2>1. commands' \in Seq(RoomCommands)
    BY <1>4, SubmitType, CommandTypes
  <2> QED
    BY <1>4, <2>1 DEF TypeOK
<1>5. ASSUME NEW p \in Positions, Submit(MoveCommand(s, p)), UNCHANGED flagVars
      PROVE  /\ stopped' \in [SessionIds -> BOOLEAN]
             /\ joined' \in [SessionIds -> BOOLEAN]
             /\ commands' \in Seq(RoomCommands)
  <2>1. commands' \in Seq(RoomCommands)
    BY <1>5, SubmitType, CommandTypes
  <2> QED
    BY <1>5, <2>1 DEF flagVars, TypeOK
<1> QED
  BY <1>1, <1>2, <1>3, <1>4, <1>5
     DEF PacketStep, PingPacket, JoinPacket, MovePacket, LeavePacket, RefusedPacket, RejectProtocol

\* What the packets have in common: one more is counted, the reader goes on or
\* returns, and a writer may be started.
LEMMA PacketFrame ==
    ASSUME TypeOK, NEW s \in SessionIds, PacketStep(s)
    PROVE  /\ turn = s /\ reader[s] = "processing" /\ main = "running"
           /\ received' \in 0..MaxPackets
           /\ reader' = reader \/ Return(s)
           /\ reader' \in [SessionIds -> ReaderStates]
           /\ writing' \in [SessionIds -> BOOLEAN]
           /\ UNCHANGED unchangedByPacket
<1>1. NextPacket(s) /\ UNCHANGED unchangedByPacket
  BY DEF PacketStep, PingPacket, JoinPacket, MovePacket, LeavePacket, RefusedPacket
<1>2. received' \in 0..MaxPackets
  BY <1>1, ServerAssumption, CounterTypes DEF NextPacket
<1>3. reader' = reader \/ Return(s)
  BY DEF PacketStep, PingPacket, JoinPacket, MovePacket, LeavePacket, RefusedPacket,
         RejectProtocol, Continue
<1>4. writing' = writing \/ writing' = [writing EXCEPT ![s] = TRUE]
  BY DEF PacketStep, PingPacket, JoinPacket, MovePacket, LeavePacket, RefusedPacket,
         RejectProtocol, OutboundAccepts
<1>5. reader' \in [SessionIds -> ReaderStates]
  BY <1>3, Zenon DEF Return, ReaderStates, TypeOK
<1>6. writing' \in [SessionIds -> BOOLEAN]
  BY <1>4, Zenon DEF TypeOK
<1> QED
  BY <1>1, <1>2, <1>3, <1>5, <1>6 DEF NextPacket

\* Every step of the server keeps the types.
LEMMA TypeInductive == TypeOK /\ [Next]_vars => TypeOK'
<1> SUFFICES ASSUME TypeOK, [Next]_vars
             PROVE  TypeOK'
  OBVIOUS
<1> USE DEF serverVars, flagVars, ioVars, boundVars, registryVars, queueVars,
            roomVars, workerVars
<1>1. CASE Accept
  <2>1. nextSessionId' \in 1..(MaxSessions + 1)
    BY <1>1, RoomAssumption DEF Accept, SessionIds
  <2>2. reader' \in [SessionIds -> ReaderStates]
    BY <1>1 DEF Accept, ReaderStates, TypeOK
  <2> QED
    BY <1>1, <2>1, <2>2, Zenon DEF Accept, TypeOK
<1>2. CASE AcceptFails
  BY <1>2, Zenon DEF AcceptFails, TypeOK
<1>3. CASE WorkerApplies
  <2>1. Head(commands) \in RoomCommands /\ Tail(commands) \in Seq(RoomCommands)
    BY <1>3, HeadTailProperties DEF WorkerApplies, TypeOK
  <2>2. players' \in Rooms /\ EventOf(Head(commands)) \in RoomEvents
    BY <1>3, <2>1, ApplyType DEF WorkerApplies, TypeOK
  <2>3. /\ commands' \in Seq(RoomCommands)
        /\ processed' \in Nat /\ rejected' \in Nat
    BY <1>3, <2>1, CounterTypes, SMTT(30) DEF WorkerApplies
  <2>4. worker' \in {"idle", "publish"} /\ event' \in RoomEvents \cup {NoEvent}
    BY <1>3, <2>2 DEF WorkerApplies, TypeOK
  <2> QED
    BY <1>3, <2>2, <2>3, <2>4, Zenon DEF WorkerApplies, TypeOK
<1>4. CASE WorkerPublishes
  <2>1. worker = "publish" /\ members' \subseteq sessions
    BY <1>4 DEF WorkerPublishes, TypeOK
  <2> QED
    BY <1>4, <2>1, Zenon DEF WorkerPublishes, TypeOK
<1>5. ASSUME NEW s \in SessionIds, WorkerDelivers(s)
      PROVE  TypeOK'
  <2>1. posts' \in [SessionIds -> Nat] /\ lastPosted' \in [SessionIds -> Nat]
    BY <1>5, CounterTypes DEF WorkerDelivers
  <2>2. /\ worker' \in {"idle", "deliver"}
        /\ event' \in RoomEvents \cup {NoEvent}
        /\ recipients' \subseteq SessionIds
    BY <1>5, Zenon DEF WorkerDelivers, TypeOK
  <2> QED
    BY <1>5, <2>1, <2>2, Zenon DEF WorkerDelivers, TypeOK
<1>6. CASE HandlerThrows
  <2>1. MembersAfter(event) \subseteq SessionIds
    BY DEF MembersAfter, NoEvent, RoomEvents, TypeOK
  <2>2. members' \subseteq SessionIds
    BY <1>6, <2>1 DEF HandlerThrows, TypeOK
  <2>3. failures' \in 0..MaxFailures
    BY <1>6, ServerAssumption, CounterTypes DEF HandlerThrows
  <2> QED
    BY <1>6, <2>2, <2>3 DEF HandlerThrows, TypeOK
<1>7. CASE WorkerExits
  BY <1>7 DEF WorkerExits, TypeOK
<1>8. CASE MainStopsWorker
  BY <1>8 DEF MainStopsWorker, TypeOK
<1>9. CASE MainJoinsWorker
  BY <1>9, Zenon DEF MainJoinsWorker, TypeOK
<1>10. CASE UNCHANGED vars
  BY <1>10, ZenonT(30) DEF vars, TypeOK
<1>11. ASSUME NEW s \in SessionIds, SessionStep(s)
       PROVE  TypeOK'
  <2> USE DEF Return, Continue, unchangedByPacket, NextPacket, ReaderStates, IoReady
  <2>1. CASE StartSession(s)
    BY <2>1 DEF StartSession, TypeOK
  <2>2. CASE ReadCompletes(s)
    BY <2>2 DEF ReadCompletes, TypeOK
  <2>3. CASE ReadFailed(s)
    <3>1. stopped' \in [SessionIds -> BOOLEAN] /\ joined' \in [SessionIds -> BOOLEAN] /\ commands' \in Seq(RoomCommands)
      BY <2>3, StopType DEF ReadFailed
    <3> QED
      BY <2>3, <3>1, Zenon DEF ReadFailed, TypeOK
  <2>4. CASE ReadSucceeded(s)
    BY <2>4 DEF ReadSucceeded, TypeOK
  <2>5. CASE AwaitMoreBytes(s)
    BY <2>5, Zenon DEF AwaitMoreBytes, TypeOK
  <2>6. CASE PacketStep(s)
    <3>1. /\ stopped' \in [SessionIds -> BOOLEAN]
          /\ joined' \in [SessionIds -> BOOLEAN]
          /\ commands' \in Seq(RoomCommands)
      BY <2>6, PacketFlagsType
    <3>2. /\ received' \in 0..MaxPackets
          /\ reader' \in [SessionIds -> ReaderStates]
          /\ writing' \in [SessionIds -> BOOLEAN]
          /\ UNCHANGED unchangedByPacket
      BY <2>6, PacketFrame
    <3> QED
      BY <3>1, <3>2, Zenon DEF TypeOK
  <2>11. CASE RunThrows(s)
    <3>1. throws' \in 0..MaxThrows
      BY <2>11, ServerAssumption, CounterTypes DEF RunThrows
    <3> QED
      BY <2>11, <3>1 DEF RunThrows, TypeOK
  <2>12. CASE Unregister(s)
    BY <2>12 DEF Unregister, TypeOK
  <2>13. CASE DeliverHandler(s)
    <3>1. stopped' \in [SessionIds -> BOOLEAN] /\ joined' \in [SessionIds -> BOOLEAN] /\ commands' \in Seq(RoomCommands)
      <4>1. CASE StopFromOutside(s)
        BY <4>1, StopType DEF StopFromOutside
      <4>2. CASE UNCHANGED <<flagVars, commands>>
        BY <4>2 DEF TypeOK
      <4> QED
        BY <2>13, <4>1, <4>2 DEF DeliverHandler
    <3>2. reader' \in [SessionIds -> ReaderStates]
      <4>1. CASE StopFromOutside(s)
        BY <4>1, StopFromOutsideType
      <4>2. CASE UNCHANGED reader
        BY <4>2 DEF TypeOK
      <4> QED
        BY <2>13, <4>1, <4>2 DEF DeliverHandler
    <3>3. writing' \in [SessionIds -> BOOLEAN] /\ posts' \in [SessionIds -> Nat]
      <4>1. posts' \in [SessionIds -> Nat]
        BY <2>13, CounterTypes DEF DeliverHandler, TakePost
      <4>2. writing' = writing \/ writing' = [writing EXCEPT ![s] = TRUE]
        BY <2>13 DEF DeliverHandler, OutboundAccepts
      <4> QED
        BY <4>1, <4>2, Zenon DEF TypeOK
    <3> QED
      BY <2>13, <3>1, <3>2, <3>3, Zenon DEF DeliverHandler, TakePost, TypeOK
  <2>14. CASE WriterReturns(s)
    BY <2>14 DEF WriterReturns, TypeOK
  <2>15. CASE WriterFails(s)
    <3>1. stopped' \in [SessionIds -> BOOLEAN] /\ joined' \in [SessionIds -> BOOLEAN] /\ commands' \in Seq(RoomCommands)
      BY <2>15, StopType DEF WriterFails, StopFromOutside
    <3> QED
      BY <2>15, <3>1, StopFromOutsideType, ZenonT(30) DEF WriterFails, TypeOK
  <2> QED
    BY <1>11, <2>1, <2>2, <2>3, <2>4, <2>5, <2>6, <2>11, <2>12,
       <2>13, <2>14, <2>15 DEF SessionStep
<1> QED
  BY <1>1, <1>2, <1>3, <1>4, <1>5, <1>6, <1>7, <1>8, <1>9, <1>10, <1>11
     DEF Next, WorkerStep, Terminated

\* The initial values have their types.
LEMMA TypeInitial == Init => TypeOK
<1> SUFFICES ASSUME Init
             PROVE  TypeOK
  OBVIOUS
<1>1. /\ nextSessionId \in 1..(MaxSessions + 1)
      /\ received \in 0..MaxPackets
      /\ throws \in 0..MaxThrows
      /\ failures \in 0..MaxFailures
  BY RoomAssumption, ServerAssumption DEF Init
<1>2. /\ reader \in [SessionIds -> ReaderStates]
      /\ posts \in [SessionIds -> Nat]
      /\ lastPosted \in [SessionIds -> Nat]
      /\ players \in Rooms
  BY DEF Init, ReaderStates, EmptyRoom, Rooms
<1>3. /\ stopped \in [SessionIds -> BOOLEAN]
      /\ joined \in [SessionIds -> BOOLEAN]
      /\ writing \in [SessionIds -> BOOLEAN]
  BY DEF Init
<1>4. commands \in Seq(RoomCommands)
  BY DEF Init
<1> QED
  BY <1>1, <1>2, <1>3, <1>4, Zenon DEF Init, TypeOK

\* Every variable of the server keeps its type, for any number of sessions.
THEOREM TypeCorrect == Spec => []TypeOK
BY TypeInitial, TypeInductive, PTL DEF Spec

(***************************************************************************)
(* The queue between joined_room_ and the Room                             *)
(***************************************************************************)

\* Submitting a command that fits joined_room_, and updating the flag with it,
\* keeps flag, queue and Room in agreement.
LEMMA AppendKeepsCommandInv ==
    ASSUME TypeOK, CommandInv,
           NEW s \in SessionIds, NEW c \in RoomCommands,
           c.session_id = s,
           c.type = "join" <=> ~joined[s],
           commands' = Append(commands, c),
           joined'[s] <=> c.type # "leave",
           \A r \in SessionIds : r # s => joined'[r] = joined[r],
           UNCHANGED players
    PROVE  CommandInv'
<1> DEFINE n == Len(commands)
<1>1. /\ n \in Nat
      /\ Len(commands') = n + 1
      /\ \A i \in 1..n : commands'[i] = commands[i]
      /\ commands'[n + 1] = c
  BY DEF TypeOK
<1>2. \A i \in 1..n : commands[i] \in RoomCommands /\ commands[i].session_id \in SessionIds
  BY <1>1, ApplyType DEF TypeOK
<1> HIDE DEF n
<1>3. QueueFitsRoom'
  <2> SUFFICES ASSUME NEW i \in 1..(n + 1), FirstOfSession(i)'
               PROVE  Accepts(players, commands[i])'
    BY <1>1 DEF QueueFitsRoom
  <2>1. CASE i \in 1..n
    <3>1. FirstOfSession(i)
      BY <1>1, <2>1 DEF FirstOfSession
    <3> QED
      BY <1>1, <2>1, <3>1 DEF QueueFitsRoom, CommandInv, Accepts, n
  <2>2. CASE i = n + 1
    <3>1. NoneOfSession(s)
      BY <1>1, <2>2 DEF FirstOfSession, NoneOfSession, n
    <3>2. joined[s] <=> players[s] # Absent
      BY <3>1 DEF CommandInv, FlagFitsRoom
    <3> QED
      BY <1>1, <2>2, <3>2 DEF Accepts
  <2> QED
    BY <1>1, <2>1, <2>2
<1>4. QueueAlternates'
  <2> SUFFICES ASSUME NEW i \in 1..(n + 1), NEW j \in 1..(i - 1), NextOfSession(j, i)'
               PROVE  commands'[i].type = "join" <=> commands'[j].type = "leave"
    BY <1>1, Zenon DEF QueueAlternates
  <2>1. j \in 1..n /\ commands'[j] = commands[j]
    BY <1>1
  <2>2. CASE i \in 1..n
    <3>1. NextOfSession(j, i)
      BY <1>1, <2>1, <2>2 DEF NextOfSession
    <3> QED
      BY <1>1, <2>1, <2>2, <3>1 DEF QueueAlternates, CommandInv, n
  <2>3. CASE i = n + 1
    <3>1. LastOfSession(j) /\ commands[j].session_id = s
      BY <1>1, <2>1, <2>3 DEF NextOfSession, LastOfSession, n
    <3>2. joined[s] <=> commands[j].type # "leave"
      BY <2>1, <3>1 DEF CommandInv, FlagFitsQueue, n
    <3>3. commands'[i] = c /\ commands'[j] = commands[j]
      BY <1>1, <2>1, <2>3
    <3> QED
      BY <3>2, <3>3
  <2>4. i \in 1..n \/ i = n + 1
    BY <1>1
  <2> QED
    BY <2>2, <2>3, <2>4, Zenon
<1>5. FlagFitsQueue'
  <2> SUFFICES ASSUME NEW i \in 1..(n + 1), LastOfSession(i)'
               PROVE  (joined[commands[i].session_id] <=> commands[i].type # "leave")'
    BY <1>1 DEF FlagFitsQueue
  <2>1. CASE i \in 1..n
    <3>1. LastOfSession(i) /\ commands[i].session_id # s
      BY <1>1, <2>1, SMTT(30) DEF LastOfSession, n
    <3>2. joined[commands[i].session_id] <=> commands[i].type # "leave"
      BY <2>1, <3>1 DEF CommandInv, FlagFitsQueue, n
    <3> QED
      BY <1>1, <1>2, <2>1, <3>1, <3>2
  <2>2. CASE i = n + 1
    BY <1>1, <2>2
  <2> QED
    BY <1>1, <2>1, <2>2
<1>6. FlagFitsRoom'
  <2> SUFFICES ASSUME NEW r \in SessionIds, NoneOfSession(r)'
               PROVE  (joined[r] <=> players[r] # Absent)'
    BY DEF FlagFitsRoom
  <2>1. NoneOfSession(r) /\ r # s
    BY <1>1 DEF NoneOfSession, n
  <2> QED
    BY <2>1 DEF CommandInv, FlagFitsRoom
<1> QED
  BY <1>3, <1>4, <1>5, <1>6 DEF CommandInv

\* Room::apply on the oldest command accepts it and keeps flag, queue and Room in
\* agreement.
LEMMA PopKeepsCommandInv ==
    ASSUME TypeOK, CommandInv, commands # <<>>,
           commands' = Tail(commands),
           players' = Apply(players, Head(commands)),
           UNCHANGED joined
    PROVE  Accepts(players, Head(commands)) /\ CommandInv'
<1> DEFINE n == Len(commands)
           c == Head(commands)
<1>1. /\ n \in Nat \ {0}
      /\ Len(commands') = n - 1
      /\ \A i \in 1..(n - 1) : commands'[i] = commands[i + 1]
      /\ c = commands[1]
      /\ \A i \in 1..n : commands[i] \in RoomCommands
  BY DEF TypeOK
<1>2. \A i \in 1..n : /\ commands[i].session_id \in SessionIds
                      /\ commands[i].type \in {"join", "move", "leave"}
  BY <1>1, ApplyType DEF TypeOK
<1> HIDE DEF n
<1>3. Accepts(players, c)
  <2>1. FirstOfSession(1)
    BY SMTT(30) DEF FirstOfSession
  <2> QED
    BY <1>1, <2>1 DEF CommandInv, QueueFitsRoom, n
<1>4. /\ players'[c.session_id] # Absent <=> c.type # "leave"
      /\ \A r \in SessionIds : r # c.session_id => players'[r] = players[r]
  <2>1. PositionAfter(c) # Absent <=> c.type # "leave"
    BY <1>1, <1>2, RoomAssumption DEF PositionAfter, RoomCommands
  <2> QED
    BY <1>1, <1>2, <1>3, <2>1 DEF Apply, TypeOK, Rooms
<1> HIDE DEF c
<1>5. QueueFitsRoom'
  <2> SUFFICES ASSUME NEW i \in 1..(n - 1), FirstOfSession(i)'
               PROVE  Accepts(players, commands[i])'
    BY <1>1 DEF QueueFitsRoom
  <2>1. i + 1 \in 1..n /\ commands'[i] = commands[i + 1]
    BY <1>1
  <2>2. \A k \in 2..i : commands[k].session_id # commands[i + 1].session_id
    <3> SUFFICES ASSUME NEW k \in 2..i
                 PROVE  commands[k].session_id # commands[i + 1].session_id
      OBVIOUS
    <3>1. k - 1 \in 1..(i - 1) /\ commands'[k - 1] = commands[k]
      BY <1>1
    <3> QED
      BY <2>1, <3>1, Zenon DEF FirstOfSession
  <2>3. CASE commands[i + 1].session_id = c.session_id
    <3>1. NextOfSession(1, i + 1)
      BY <1>1, <2>1, <2>2, <2>3 DEF NextOfSession
    <3>2. commands[i + 1].type = "join" <=> c.type = "leave"
      BY <1>1, <2>1, <3>1 DEF CommandInv, QueueAlternates, n
    <3> QED
      BY <1>4, <2>1, <2>3, <3>2, Zenon DEF Accepts
  <2>4. CASE commands[i + 1].session_id # c.session_id
    <3>1. FirstOfSession(i + 1)
      BY <1>1, <2>1, <2>2, <2>4 DEF FirstOfSession
    <3>2. Accepts(players, commands[i + 1])
      BY <2>1, <3>1 DEF CommandInv, QueueFitsRoom, n
    <3> QED
      BY <1>2, <1>4, <2>1, <2>4, <3>2, Zenon DEF Accepts
  <2> QED
    BY <2>3, <2>4, Zenon
<1>6. QueueAlternates'
  <2> SUFFICES ASSUME NEW i \in 1..(n - 1), NEW j \in 1..(i - 1), NextOfSession(j, i)'
               PROVE  commands'[i].type = "join" <=> commands'[j].type = "leave"
    BY <1>1 DEF QueueAlternates
  <2>1. /\ i + 1 \in 1..n /\ commands'[i] = commands[i + 1]
        /\ j + 1 \in 1..((i + 1) - 1) /\ commands'[j] = commands[j + 1]
    BY <1>1
  <2>2. \A k \in (j + 2)..i : commands[k].session_id # commands[i + 1].session_id
    <3> SUFFICES ASSUME NEW k \in (j + 2)..i
                 PROVE  commands[k].session_id # commands[i + 1].session_id
      OBVIOUS
    <3>1. k - 1 \in (j + 1)..(i - 1) /\ commands'[k - 1] = commands[k]
      BY <1>1
    <3> QED
      BY <2>1, <3>1, Zenon DEF NextOfSession
  <2>3. NextOfSession(j + 1, i + 1)
    <3>1. (j + 1) + 1 = j + 2 /\ (i + 1) - 1 = i
      BY <1>1
    <3>2. commands[j + 1].session_id = commands[i + 1].session_id
      BY <2>1, Zenon DEF NextOfSession
    <3> QED
      BY <2>2, <3>1, <3>2 DEF NextOfSession
  <2> QED
    BY <2>1, <2>3, Zenon DEF CommandInv, QueueAlternates, n
<1>7. FlagFitsQueue'
  <2> SUFFICES ASSUME NEW i \in 1..(n - 1), LastOfSession(i)'
               PROVE  (joined[commands[i].session_id] <=> commands[i].type # "leave")'
    BY <1>1 DEF FlagFitsQueue
  <2>1. i + 1 \in 1..n /\ commands'[i] = commands[i + 1]
    BY <1>1
  <2>2. LastOfSession(i + 1)
    <3> SUFFICES ASSUME NEW k \in (i + 2)..n
                 PROVE  commands[k].session_id # commands[i + 1].session_id
      BY DEF LastOfSession, n
    <3>1. k - 1 \in (i + 1)..(n - 1) /\ commands'[k - 1] = commands[k]
      BY <1>1
    <3> QED
      BY <1>1, <2>1, <3>1 DEF LastOfSession
  <2> QED
    BY <2>1, <2>2 DEF CommandInv, FlagFitsQueue, n
<1>8. FlagFitsRoom'
  <2> SUFFICES ASSUME NEW r \in SessionIds, NoneOfSession(r)'
               PROVE  joined[r] <=> players'[r] # Absent
    BY DEF FlagFitsRoom
  <2>1. \A k \in 2..n : commands[k].session_id # r
    <3> SUFFICES ASSUME NEW k \in 2..n
                 PROVE  commands[k].session_id # r
      OBVIOUS
    <3>1. k - 1 \in 1..(n - 1) /\ commands'[k - 1] = commands[k]
      BY <1>1
    <3> QED
      BY <1>1, <3>1 DEF NoneOfSession
  <2>2. CASE r = c.session_id
    <3>1. LastOfSession(1)
      BY <1>1, <2>1, <2>2, SMTT(30) DEF LastOfSession, n
    <3> QED
      BY <1>1, <1>4, <2>2, <3>1 DEF CommandInv, FlagFitsQueue, n
  <2>3. CASE r # c.session_id
    <3>1. NoneOfSession(r)
      BY <1>1, <2>1, <2>3 DEF NoneOfSession, n
    <3> QED
      BY <1>4, <2>3, <3>1 DEF CommandInv, FlagFitsRoom
  <2> QED
    BY <2>2, <2>3
<1> QED
  BY <1>3, <1>5, <1>6, <1>7, <1>8 DEF CommandInv, c

\* Nothing happens to flag, queue and Room.
LEMMA SameKeepsCommandInv ==
    ASSUME CommandInv, UNCHANGED <<joined, commands, players>>
    PROVE  CommandInv'
<1>1. QueueFitsRoom'
  BY DEF CommandInv, QueueFitsRoom, FirstOfSession, Accepts
<1>2. QueueAlternates'
  BY DEF CommandInv, QueueAlternates, NextOfSession
<1>3. FlagFitsQueue'
  BY DEF CommandInv, FlagFitsQueue, LastOfSession
<1>4. FlagFitsRoom'
  BY DEF CommandInv, FlagFitsRoom, NoneOfSession
<1> QED
  BY <1>1, <1>2, <1>3, <1>4 DEF CommandInv

(***************************************************************************)
(* What a step of a session does to the queue and the flag                 *)
(***************************************************************************)

\* All that a session ever does to joined_room_ and the command queue: nothing,
\* or submit the one command that fits the flag.
CommandEffect(s) ==
    \/ UNCHANGED <<joined, commands>>
    \/ /\ ~joined[s]
       /\ reader[s] = "processing"
       /\ joined' = [joined EXCEPT ![s] = TRUE]
       /\ commands' = Append(commands, JoinCommand(s))
    \/ /\ joined[s]
       /\ joined' = [joined EXCEPT ![s] = FALSE]
       /\ commands' = Append(commands, LeaveCommand(s))
    \/ /\ joined[s]
       /\ joined' = joined
       /\ \E p \in Positions : commands' = Append(commands, MoveCommand(s, p))

\* leave_room_if_joined and stop_session with the queue open.
LEMMA LeaveEffect ==
    ASSUME TypeOK, ~closed, NEW s \in SessionIds, LeaveRoomIfJoined(s)
    PROVE  CommandEffect(s)
<1>1. CASE joined[s]
  BY <1>1 DEF LeaveRoomIfJoined, Submit, CommandEffect
<1>2. CASE ~joined[s]
  <2>1. joined' = joined
    BY <1>2, Zenon DEF LeaveRoomIfJoined, TypeOK
  <2> QED
    BY <1>2, <2>1 DEF LeaveRoomIfJoined, CommandEffect
<1> QED
  BY <1>1, <1>2

\* stop_session submits at most the leave of its session.
LEMMA StopEffect ==
    ASSUME TypeOK, ~closed, NEW s \in SessionIds, StopSession(s)
    PROVE  CommandEffect(s)
<1>1. CASE stopped[s]
  BY <1>1 DEF StopSession, CommandEffect
<1>2. CASE ~stopped[s]
  BY <1>2, LeaveEffect DEF StopSession
<1> QED
  BY <1>1, <1>2

\* A packet with the queue open.
LEMMA PacketEffect ==
    ASSUME TypeOK, ~closed, NEW s \in SessionIds, PacketStep(s)
    PROVE  CommandEffect(s)
<1>1. CASE PingPacket(s)
  BY <1>1, StopEffect DEF PingPacket, flagVars, CommandEffect
<1>2. CASE JoinPacket(s)
  <2>1. CASE joined[s]
    BY <1>2, <2>1, StopEffect DEF JoinPacket, RejectProtocol
  <2>2. CASE ~joined[s]
    BY <1>2, <2>2 DEF JoinPacket, NextPacket, Submit, CommandEffect
  <2> QED
    BY <2>1, <2>2
<1>3. CASE MovePacket(s)
  <2>1. CASE ~joined[s]
    BY <1>3, <2>1, StopEffect DEF MovePacket, RejectProtocol
  <2>2. CASE joined[s]
    BY <1>3, <2>2 DEF MovePacket, Submit, CommandEffect, flagVars
  <2> QED
    BY <2>1, <2>2
<1>4. CASE LeavePacket(s)
  BY <1>4, StopEffect, LeaveEffect DEF LeavePacket, RejectProtocol
<1>5. CASE RefusedPacket(s)
  BY <1>5, StopEffect DEF RefusedPacket, RejectProtocol
<1> QED
  BY <1>1, <1>2, <1>3, <1>4, <1>5, ZenonT(30) DEF PacketStep

\* Any step of a session: the I/O thread is alive, so the queue is open.
LEMMA SessionEffect ==
    ASSUME TypeOK, ShutdownOrder, NEW s \in SessionIds, SessionStep(s)
    PROVE  CommandEffect(s)
<1> USE DEF IoReady, flagVars, queueVars
<1>1. main = "running" /\ ~closed
  BY Zenon DEF ShutdownOrder, SessionStep, PacketStep, StartSession, ReadCompletes, ReadFailed,
         ReadSucceeded, AwaitMoreBytes, RunThrows, Unregister, DeliverHandler,
         WriterReturns, WriterFails, NextPacket,
         PingPacket, JoinPacket, MovePacket, LeavePacket, RefusedPacket
<1>2. CASE PacketStep(s)
  BY <1>1, <1>2, PacketEffect
<1>3. CASE ReadFailed(s)
  BY <1>1, <1>3, StopEffect, Zenon DEF ReadFailed
<1>4. CASE DeliverHandler(s)
  BY <1>1, <1>4, StopEffect DEF DeliverHandler, StopFromOutside, CommandEffect
<1>5. CASE WriterFails(s)
  BY <1>1, <1>5, StopEffect DEF WriterFails, StopFromOutside
<1>6. CASE \/ StartSession(s) \/ ReadCompletes(s) \/ ReadSucceeded(s) \/ AwaitMoreBytes(s)
           \/ RunThrows(s) \/ Unregister(s) \/ WriterReturns(s)
  BY <1>6, Zenon DEF StartSession, ReadCompletes, ReadSucceeded, AwaitMoreBytes, RunThrows,
              Unregister, WriterReturns, CommandEffect
<1> QED
  BY <1>2, <1>3, <1>4, <1>5, <1>6, Zenon DEF SessionStep

Running == {"reading", "data", "failed", "processing", "returning"}

\* Between its start and its end a reader stays between its start and its end.
KeepsRunning ==
    \A r \in SessionIds : reader'[r] = reader[r] \/ {reader[r], reader'[r]} \subseteq Running

\* The rest of what a session step changes, and what it leaves alone.
LEMMA SessionFrame ==
    ASSUME TypeOK, NEW s \in SessionIds, SessionStep(s)
    PROVE  /\ main = "running"
           /\ UNCHANGED <<main, nextSessionId, closed, players, processed, rejected, worker,
                          event, recipients, failures, lastPosted>>
           /\ \/ StartSession(s)
              \/ Unregister(s)
              \/ UNCHANGED <<sessions, members>> /\ KeepsRunning
<1> USE DEF IoReady, serverVars, flagVars, queueVars, registryVars, roomVars, workerVars,
            Running, KeepsRunning
<1>1. CASE PacketStep(s)
  <2>1. main = "running" /\ UNCHANGED unchangedByPacket
    BY <1>1, PacketFrame
  <2>2. KeepsRunning
    BY <1>1, PacketFrame, Zenon DEF Return, TypeOK
  <2> QED
    BY <2>1, <2>2 DEF unchangedByPacket
<1>2. CASE StartSession(s)
  BY <1>2 DEF StartSession
<1>3. CASE Unregister(s)
  BY <1>3 DEF Unregister
<1>4. CASE ReadCompletes(s) \/ ReadFailed(s) \/ ReadSucceeded(s) \/ AwaitMoreBytes(s) \/ RunThrows(s)
  BY <1>4, Zenon DEF ReadCompletes, ReadFailed, ReadSucceeded, AwaitMoreBytes, RunThrows, Return, TypeOK
<1>5. CASE WriterReturns(s)
  BY <1>5 DEF WriterReturns
<1>6. CASE WriterFails(s) \/ DeliverHandler(s)
  <2>1. reader' = reader \/ reader' = [reader EXCEPT ![s] = CancelRead(@)]
    BY <1>6 DEF WriterFails, DeliverHandler, StopFromOutside
  <2>2. KeepsRunning
    BY <2>1, Zenon DEF CancelRead, TypeOK
  <2> QED
    BY <1>6, <2>2, Zenon DEF WriterFails, DeliverHandler
<1> QED
  BY <1>1, <1>2, <1>3, <1>4, <1>5, <1>6, Zenon DEF SessionStep

\* A session step keeps flag, queue and Room in agreement.
LEMMA EffectKeepsCommandInv ==
    ASSUME TypeOK, CommandInv, NEW s \in SessionIds, CommandEffect(s), UNCHANGED players
    PROVE  CommandInv'
<1>1. CASE UNCHANGED <<joined, commands>>
  BY <1>1, SameKeepsCommandInv
<1>2. ASSUME ~joined[s], joined' = [joined EXCEPT ![s] = TRUE],
             commands' = Append(commands, JoinCommand(s))
      PROVE  CommandInv'
  <2>1. JoinCommand(s) \in RoomCommands /\ JoinCommand(s).session_id = s /\ JoinCommand(s).type = "join"
    BY CommandTypes DEF JoinCommand
  <2>2. joined'[s] /\ \A r \in SessionIds : r # s => joined'[r] = joined[r]
    BY <1>2 DEF TypeOK
  <2> QED
    BY <1>2, <2>1, <2>2, AppendKeepsCommandInv, Zenon
<1>3. ASSUME joined[s], joined' = [joined EXCEPT ![s] = FALSE],
             commands' = Append(commands, LeaveCommand(s))
      PROVE  CommandInv'
  <2>1. LeaveCommand(s) \in RoomCommands /\ LeaveCommand(s).session_id = s /\ LeaveCommand(s).type = "leave"
    BY CommandTypes, Zenon DEF LeaveCommand
  <2>2. ~joined'[s] /\ \A r \in SessionIds : r # s => joined'[r] = joined[r]
    BY <1>3, Zenon DEF TypeOK
  <2> QED
    BY <1>3, <2>1, <2>2, AppendKeepsCommandInv, Zenon
<1>4. ASSUME joined[s], joined' = joined,
             NEW p \in Positions, commands' = Append(commands, MoveCommand(s, p))
      PROVE  CommandInv'
  <2>1. MoveCommand(s, p) \in RoomCommands /\ MoveCommand(s, p).session_id = s /\ MoveCommand(s, p).type = "move"
    BY CommandTypes DEF MoveCommand
  <2> QED
    BY <1>4, <2>1, AppendKeepsCommandInv, Zenon
<1> QED
  BY <1>1, <1>2, <1>3, <1>4 DEF CommandEffect

\* It submits nothing for a session that is not reading packets.
LEMMA EffectOnOthers ==
    ASSUME TypeOK, NEW s \in SessionIds, CommandEffect(s),
           NEW r \in SessionIds, reader[r] # "processing", ~joined[r], NoneOfSession(r)
    PROVE  ~joined'[r] /\ NoneOfSession(r)'
<1>1. CASE UNCHANGED <<joined, commands>>
  BY <1>1 DEF NoneOfSession
<1>2. CASE ~UNCHANGED <<joined, commands>>
  <2>1. r # s
    BY <1>2 DEF CommandEffect
  <2>2. joined'[r] = joined[r]
    BY <2>1, Zenon DEF CommandEffect, TypeOK
  <2>3. PICK c \in RoomCommands : c.session_id = s /\ commands' = Append(commands, c)
    BY <1>2, CommandTypes, Zenon DEF CommandEffect, JoinCommand, LeaveCommand, MoveCommand
  <2>4. NoneOfSession(r)'
    BY <2>1, <2>3 DEF NoneOfSession, TypeOK
  <2> QED
    BY <2>2, <2>4
<1> QED
  BY <1>1, <1>2
=============================================================================
