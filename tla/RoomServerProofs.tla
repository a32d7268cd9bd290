-------------------------- MODULE RoomServerProofs --------------------------
(***************************************************************************)
(* The safety properties of RoomServer, proved from the inductive          *)
(* invariants of RoomServerInv.                                            *)
(***************************************************************************)
EXTENDS RoomServerTypeProofs

(***************************************************************************)
(* The steps of the room worker keep the invariant                         *)
(***************************************************************************)

\* The worker pops a command and applies it to the Room.
LEMMA ApplyKeepsInv ==
    ASSUME IInv, WorkerApplies, TypeOK'
    PROVE  IInv'
<1> USE DEF IInv
<1> DEFINE c == Head(commands)
           s == c.session_id
<1>1. /\ commands \in Seq(RoomCommands) /\ commands # <<>>
      /\ c \in RoomCommands /\ s \in SessionIds
      /\ c.type \in {"join", "move", "leave"}
  <2>1. commands \in Seq(RoomCommands) /\ commands # <<>> /\ players \in Rooms
    BY DEF WorkerApplies, TypeOK
  <2>2. c \in RoomCommands
    BY <2>1, HeadTailProperties
  <2> QED
    BY <2>1, <2>2, ApplyType
<1>2. Accepts(players, c) /\ CommandInv'
  BY PopKeepsCommandInv DEF WorkerApplies, flagVars
<1>3. /\ worker = "idle" /\ worker' = "publish"
      /\ event' = EventOf(c)
      /\ players' = [players EXCEPT ![s] = PositionAfter(c)]
      /\ processed' = processed + 1
      /\ commands' = Tail(commands)
      /\ UNCHANGED <<rejected, reader, joined, sessions, members, nextSessionId, main, closed,
                     turn, writing, recipients, failures, lastPosted>>
  BY <1>2 DEF WorkerApplies, Apply, serverVars, flagVars, registryVars, ioVars
<1>4. /\ c.type = "join" => event'.type = "player_joined" /\ players'[s] # Absent
      /\ c.type = "move" => event'.type = "player_moved" /\ players'[s] # Absent
      /\ c.type = "leave" => event'.type = "player_left" /\ players'[s] = Absent
      /\ event'.session_id = s
      /\ event' \in RoomEvents
      /\ event' # NoEvent
  <2>1. PositionAfter(c) # Absent <=> c.type # "leave"
    BY <1>1, RoomAssumption DEF PositionAfter, RoomCommands
  <2>2. players'[s] = PositionAfter(c)
    BY <1>1, <1>3 DEF TypeOK, Rooms
  <2>3. EventOf(c) \in RoomEvents
    BY <1>1, ApplyType, Zenon DEF TypeOK
  <2>4. /\ c.type = "join" => EventOf(c).type = "player_joined"
        /\ c.type = "move" => EventOf(c).type = "player_moved"
        /\ c.type = "leave" => EventOf(c).type = "player_left"
        /\ EventOf(c).session_id = s
    BY <1>1 DEF EventOf
  <2>5. EventOf(c) # NoEvent
    BY <1>1, <2>4 DEF NoEvent
  <2> QED
    BY <1>3, <2>1, <2>2, <2>3, <2>4, <2>5
<1>5. \A r \in SessionIds : r # s => players'[r] = players[r]
  BY <1>3 DEF TypeOK, Rooms
<1> HIDE DEF c, s
<1>6. ShutdownOrder'
  BY <1>3 DEF ShutdownOrder
<1>7. RegisteredWhileRunning'
  BY <1>3 DEF RegisteredWhileRunning
<1>8. NotStarted'
  <2> SUFFICES ASSUME NEW r \in SessionIds, reader[r] \in {"none", "spawned"}
               PROVE  NoneOfSession(r)' /\ r # s
    BY <1>3, <1>4 DEF NotStarted
  <2>1. NoneOfSession(r)
    BY DEF NotStarted
  <2>2. r # s
    BY <1>1, <2>1 DEF NoneOfSession, s, c
  <2>3. NoneOfSession(r)'
    BY <1>1, <1>3, <2>1 DEF NoneOfSession
  <2> QED
    BY <2>2, <2>3
<1>9. EventFitsRoom'
  <2>1. processed' # 0
    BY <1>3, CounterTypes
  <2> QED
    BY <1>1, <1>3, <1>4, <2>1 DEF EventFitsRoom
<1>10. MembersUpToEvent'
  <2> SUFFICES ASSUME failures = 0
               PROVE  MembersAfter(event)' \cap sessions = PlayersOf(players') \cap sessions
    BY <1>3, Zenon DEF MembersUpToEvent
  <2>1. members = PlayersOf(players) \cap sessions
    BY <1>3 DEF MembersUpToEvent
  <2>2. /\ c.type = "join" => MembersAfter(event)' = members \cup {s}
        /\ c.type = "move" => MembersAfter(event)' = members
        /\ c.type = "leave" => MembersAfter(event)' = members \ {s}
    BY <1>3, <1>4 DEF MembersAfter
  <2>3. CASE c.type = "join"
    BY <1>1, <1>4, <1>5, <2>1, <2>2, <2>3 DEF PlayersOf
  <2>4. CASE c.type = "move"
    <3>1. players[s] # Absent
      BY <1>2, <2>4 DEF Accepts, s
    <3> QED
      BY <1>1, <1>4, <1>5, <2>1, <2>2, <2>4, <3>1 DEF PlayersOf
  <2>5. CASE c.type = "leave"
    BY <1>1, <1>4, <1>5, <2>1, <2>2, <2>5 DEF PlayersOf
  <2> QED
    BY <1>1, <2>3, <2>4, <2>5
<1>11. PostsFollowEvents'
  <2>1. failures = 0 => \A r \in members : UpToDate(r)
    BY <1>3 DEF PostsFollowEvents
  <2>2. processed' - 1 = processed
    BY <1>3, CounterTypes
  <2> QED
    BY <1>3, <2>1, <2>2 DEF PostsFollowEvents, UpToDate, OneBehind
<1>12. NoCommandRejected'
  BY <1>3 DEF NoCommandRejected
<1> QED
  BY <1>2, <1>6, <1>7, <1>8, <1>9, <1>10, <1>11, <1>12

\* The event handler updates room_members_ and copies the recipients.
LEMMA PublishKeepsInv ==
    ASSUME IInv, WorkerPublishes, TypeOK'
    PROVE  IInv'
<1> USE DEF IInv
<1> DEFINE live == MembersAfter(event) \cap sessions
<1>1. worker = "publish" /\ event \in RoomEvents
  BY DEF WorkerPublishes, EventFitsRoom, TypeOK
<1>2. live = {r \in live : Alive(r)}
  BY Zenon DEF RegisteredWhileRunning, Alive, Inactive, TypeOK
<1>3. /\ members' = live /\ sessions' = sessions /\ recipients' = live
      /\ worker' = (IF live = {} THEN "idle" ELSE "deliver")
      /\ event' = (IF live = {} THEN NoEvent ELSE event)
      /\ UNCHANGED <<reader, joined, commands, players, processed, rejected, nextSessionId,
                     main, closed, turn, writing, failures, lastPosted>>
  BY <1>2, Zenon DEF WorkerPublishes, serverVars, flagVars, queueVars, roomVars, ioVars
<1> HIDE DEF live
<1>4. ShutdownOrder'
  BY <1>3 DEF ShutdownOrder
<1>5. CommandInv'
  BY <1>3, SameKeepsCommandInv
<1>6. RegisteredWhileRunning'
  BY <1>3 DEF RegisteredWhileRunning
<1>7. NotStarted'
  <2>1. \A r \in SessionIds : reader[r] \in {"none", "spawned"} => r \notin live
    BY DEF RegisteredWhileRunning, live
  <2>2. \A r \in SessionIds : event'.session_id = r => event.session_id = r
    BY <1>3, RoomAssumption DEF NoEvent, SessionIds
  <2> QED
    BY <1>3, <2>1, <2>2 DEF NotStarted, NoneOfSession
<1>8. EventFitsRoom'
  BY <1>1, <1>3 DEF EventFitsRoom
<1>9. MembersUpToEvent'
  BY <1>1, <1>3 DEF MembersUpToEvent, live, PlayersOf
<1>10. PostsFollowEvents'
  <2> SUFFICES ASSUME failures = 0, live # {}, NEW r \in live
               PROVE  \/ event = [type |-> "player_joined", session_id |-> r]
                      \/ event # [type |-> "player_left", session_id |-> r] /\ OneBehind(r)
    BY <1>3 DEF PostsFollowEvents, OneBehind
  <2>1. \A q \in members : OneBehind(q)
    BY <1>1 DEF PostsFollowEvents
  <2>2. event.type \in {"player_joined", "player_moved", "player_left"} /\ r \in MembersAfter(event)
    BY <1>1, MembersAfterEvent DEF live
  <2>3. CASE r \in members
    <3>1. event # [type |-> "player_left", session_id |-> r]
      BY <1>1, <2>2, MembersAfterEvent
    <3> QED
      BY <2>1, <2>3, <3>1
  <2>4. CASE r \notin members
    <3>1. event.type = "player_joined" /\ event.session_id = r
      BY <1>1, <2>2, <2>4, MembersAfterEvent
    <3> QED
      BY <1>1, <3>1 DEF RoomEvents
  <2> QED
    BY <2>3, <2>4
<1>11. NoCommandRejected'
  BY <1>3 DEF NoCommandRejected
<1> QED
  BY <1>4, <1>5, <1>6, <1>7, <1>8, <1>9, <1>10, <1>11, Zenon

\* The event handler posts the event to one recipient.
LEMMA DeliverKeepsInv ==
    ASSUME IInv, NEW s \in SessionIds, WorkerDelivers(s), TypeOK'
    PROVE  IInv'
<1> USE DEF IInv
<1>1. /\ worker = "deliver" /\ s \in recipients
      /\ lastPosted' = [lastPosted EXCEPT ![s] = processed]
      /\ recipients' = recipients \ {s}
      /\ worker' = (IF recipients = {s} THEN "idle" ELSE "deliver")
      /\ event' = (IF recipients = {s} THEN NoEvent ELSE event)
      /\ UNCHANGED <<reader, joined, commands, players, processed, rejected, nextSessionId,
                     main, closed, turn, writing, failures, sessions, members>>
  BY DEF WorkerDelivers, serverVars, flagVars, queueVars, roomVars, registryVars
<1>2. ShutdownOrder'
  BY <1>1 DEF ShutdownOrder
<1>3. CommandInv'
  BY <1>1, SameKeepsCommandInv
<1>4. RegisteredWhileRunning'
  BY <1>1 DEF RegisteredWhileRunning
<1>5. NotStarted'
  <2>1. \A r \in SessionIds : event'.session_id = r => event.session_id = r
    BY <1>1, RoomAssumption DEF NoEvent, SessionIds
  <2> QED
    BY <1>1, <2>1 DEF NotStarted, NoneOfSession
<1>6. EventFitsRoom'
  BY <1>1 DEF EventFitsRoom
<1>7. MembersUpToEvent'
  BY <1>1 DEF MembersUpToEvent, PlayersOf
<1>8. PostsFollowEvents'
  <2> SUFFICES ASSUME failures = 0
               PROVE  /\ \A r \in members \ (recipients \ {s}) : UpToDate(r)'
                      /\ \A r \in recipients \ {s} :
                            \/ event = [type |-> "player_joined", session_id |-> r]
                            \/ event # [type |-> "player_left", session_id |-> r] /\ OneBehind(r)'
    BY <1>1, Zenon DEF PostsFollowEvents
  <2>1. /\ \A r \in SessionIds : r # s => lastPosted'[r] = lastPosted[r]
        /\ lastPosted'[s] = processed
        /\ processed # 0
        /\ members \subseteq SessionIds /\ recipients \subseteq SessionIds
    BY <1>1, Zenon DEF TypeOK, EventFitsRoom
  <2>2. \A r \in members \ (recipients \ {s}) : UpToDate(r)'
    BY <1>1, <2>1 DEF PostsFollowEvents, UpToDate
  <2>3. \A r \in recipients \ {s} :
            \/ event = [type |-> "player_joined", session_id |-> r]
            \/ event # [type |-> "player_left", session_id |-> r] /\ OneBehind(r)'
    BY <1>1, <2>1 DEF PostsFollowEvents, OneBehind
  <2> QED
    BY <2>2, <2>3
<1>9. NoCommandRejected'
  BY <1>1 DEF NoCommandRejected
<1> QED
  BY <1>2, <1>3, <1>4, <1>5, <1>6, <1>7, <1>8, <1>9

\* An exception leaves the event handler and the worker catches it.
LEMMA ThrowKeepsInv ==
    ASSUME IInv, HandlerThrows, TypeOK'
    PROVE  IInv'
<1> USE DEF IInv
<1>1. /\ worker \in {"publish", "deliver"} /\ worker' = "idle"
      /\ failures' # 0
      /\ event' = NoEvent
      /\ members' = members \/ members' = MembersAfter(event)
      /\ UNCHANGED <<reader, joined, commands, players, processed, rejected, nextSessionId,
                     main, closed, turn, writing, sessions>>
  <2>1. failures' # 0
    BY CounterTypes, SMTT(30) DEF HandlerThrows
  <2> QED
    BY <2>1 DEF HandlerThrows, serverVars, flagVars, queueVars, roomVars, ioVars
<1>2. ShutdownOrder'
  BY <1>1 DEF ShutdownOrder
<1>3. CommandInv'
  BY <1>1, SameKeepsCommandInv
<1>4. RegisteredWhileRunning'
  BY <1>1 DEF RegisteredWhileRunning
<1>5. NotStarted'
  <2>1. event \in RoomEvents
    BY <1>1, Zenon DEF EventFitsRoom, TypeOK
  <2>2. \A r \in SessionIds : r \in members' => r \in members \/ event.session_id = r
    BY <1>1, <2>1, MembersAfterEvent, Zenon
  <2>3. \A r \in SessionIds : event'.session_id # r
    BY <1>1, RoomAssumption, SMTT(30) DEF NoEvent, SessionIds
  <2> QED
    BY <1>1, <2>2, <2>3, Zenon DEF NotStarted, NoneOfSession
<1>6. EventFitsRoom'
  BY <1>1 DEF EventFitsRoom
<1>7. MembersUpToEvent' /\ PostsFollowEvents'
  BY <1>1 DEF MembersUpToEvent, PostsFollowEvents
<1>8. NoCommandRejected'
  BY <1>1 DEF NoCommandRejected
<1> QED
  BY <1>2, <1>3, <1>4, <1>5, <1>6, <1>7, <1>8

(***************************************************************************)
(* Each step keeps the invariant                                           *)
(***************************************************************************)

\* A step of a session, argued from its CommandEffect.
LEMMA SessionKeepsInv ==
    ASSUME IInv, NEW s \in SessionIds, SessionStep(s), TypeOK'
    PROVE  IInv'
<1> USE DEF IInv
<1>1. CommandEffect(s)
  BY SessionEffect
<1>2. /\ main = "running"
      /\ UNCHANGED <<main, nextSessionId, closed, players, processed, rejected, worker,
                     event, recipients, failures, lastPosted>>
      /\ StartSession(s) \/ Unregister(s) \/ (UNCHANGED <<sessions, members>> /\ KeepsRunning)
  BY SessionFrame
<1>3. ShutdownOrder'
  BY <1>2 DEF ShutdownOrder
<1>4. CommandInv'
  BY <1>1, <1>2, EffectKeepsCommandInv
<1>5. RegisteredWhileRunning'
  <2>1. CASE StartSession(s)
    BY <2>1, Zenon DEF StartSession, RegisteredWhileRunning, TypeOK
  <2>2. CASE Unregister(s)
    BY <2>2, Zenon DEF Unregister, RegisteredWhileRunning, TypeOK
  <2>3. CASE UNCHANGED <<sessions, members>> /\ KeepsRunning
    BY <2>3 DEF KeepsRunning, Running, RegisteredWhileRunning
  <2> QED
    BY <1>2, <2>1, <2>2, <2>3
<1>6. NotStarted'
  <2> SUFFICES ASSUME NEW r \in SessionIds
               PROVE  /\ r >= nextSessionId => reader'[r] = "none"
                      /\ reader'[r] \in {"none", "spawned"} =>
                            /\ ~joined'[r]
                            /\ NoneOfSession(r)'
                            /\ r \notin members'
                            /\ event.session_id # r
    BY <1>2, Zenon DEF NotStarted
  <2>1. /\ reader[r] = "none" => reader'[r] = "none"
        /\ reader'[r] \in {"none", "spawned"} => reader'[r] = reader[r]
        /\ members' \subseteq members
    <3>1. CASE StartSession(s)
      BY <3>1, Zenon DEF StartSession, TypeOK
    <3>2. CASE Unregister(s)
      BY <3>2, Zenon DEF Unregister, TypeOK
    <3>3. CASE UNCHANGED <<sessions, members>> /\ KeepsRunning
      BY <3>3 DEF KeepsRunning, Running
    <3> QED
      BY <1>2, <3>1, <3>2, <3>3, Zenon
  <2>2. ASSUME reader'[r] \in {"none", "spawned"}
        PROVE  ~joined'[r] /\ NoneOfSession(r)'
    <3>1. ~joined[r] /\ NoneOfSession(r) /\ reader[r] # "processing"
      BY <2>1, <2>2 DEF NotStarted
    <3> QED
      BY <1>1, <3>1, EffectOnOthers
  <2> QED
    BY <2>1, <2>2 DEF NotStarted
<1>7. EventFitsRoom'
  BY <1>2 DEF EventFitsRoom
<1>8. MembersUpToEvent'
  <2> SUFFICES ASSUME failures = 0
               PROVE  IF worker = "publish"
                      THEN (MembersAfter(event) \cap sessions)' = PlayersOf(players) \cap sessions'
                      ELSE members' = PlayersOf(players) \cap sessions'
    BY <1>2, Zenon DEF MembersUpToEvent, PlayersOf
  <2>1. worker = "publish" => event \in RoomEvents
    BY Zenon DEF EventFitsRoom, TypeOK
  <2>2. CASE StartSession(s)
    <3>1. s \notin members /\ event.session_id # s /\ players[s] = Absent
      BY <2>2 DEF StartSession, NotStarted, CommandInv, FlagFitsRoom
    <3>2. worker = "publish" => s \notin MembersAfter(event)
      BY <2>1, <3>1, MembersAfterEvent
    <3>3. MembersAfter(event)' = MembersAfter(event)
      BY <1>2, <2>2 DEF MembersAfter, StartSession
    <3> QED
      BY <2>2, <3>1, <3>2, <3>3 DEF StartSession, MembersUpToEvent, PlayersOf
  <2>3. CASE Unregister(s)
    <3>1. worker = "publish" => MembersAfter(event)' \cap sessions' = (MembersAfter(event) \cap sessions) \ {s}
      <4> SUFFICES ASSUME worker = "publish"
                   PROVE  MembersAfter(event)' \cap sessions' = (MembersAfter(event) \cap sessions) \ {s}
        OBVIOUS
      <4>1. MembersAfter(event)' \ {s} = MembersAfter(event) \ {s}
        BY <1>2, <2>3 DEF MembersAfter, Unregister
      <4> QED
        BY <2>3, <4>1 DEF Unregister
    <3> QED
      BY <2>3, <3>1 DEF Unregister, MembersUpToEvent, PlayersOf
  <2>4. CASE UNCHANGED <<sessions, members>>
    BY <1>2, <2>4, Zenon DEF MembersUpToEvent, MembersAfter
  <2> QED
    BY <1>2, <2>2, <2>3, <2>4
<1>9. PostsFollowEvents'
  <2>1. members' \subseteq members
    BY <1>2 DEF StartSession, Unregister
  <2> QED
    BY <1>2, <2>1 DEF PostsFollowEvents, UpToDate, OneBehind
<1>10. NoCommandRejected'
  BY <1>2, Zenon DEF NoCommandRejected
<1> QED
  BY <1>3, <1>4, <1>5, <1>6, <1>7, <1>8, <1>9, <1>10

\* The accept loop creates a session that is spawned and not yet registered.
LEMMA AcceptKeepsInv ==
    ASSUME IInv, Accept, TypeOK'
    PROVE  IInv'
<1> USE DEF IInv
<1>1. /\ main = "running" /\ nextSessionId \in SessionIds
      /\ nextSessionId' = nextSessionId + 1
      /\ reader' = [reader EXCEPT ![nextSessionId] = "spawned"]
      /\ UNCHANGED <<main, joined, turn, sessions, members, commands, closed, players, processed,
                     rejected, worker, event, recipients, failures, lastPosted>>
  BY DEF Accept, IoReady, flagVars, ioVars, registryVars, queueVars, roomVars, workerVars
<1>2. ShutdownOrder'
  BY <1>1 DEF ShutdownOrder
<1>3. CommandInv'
  BY <1>1, SameKeepsCommandInv
<1>4. reader[nextSessionId] = "none"
  BY <1>1, SMTT(30) DEF NotStarted, SessionIds
<1>5. RegisteredWhileRunning'
  BY <1>1, <1>4 DEF RegisteredWhileRunning, TypeOK
<1>6. NotStarted'
  <2> SUFFICES ASSUME NEW r \in SessionIds
               PROVE  /\ r >= nextSessionId + 1 => reader'[r] = "none"
                      /\ reader'[r] \in {"none", "spawned"} => reader[r] \in {"none", "spawned"}
    BY <1>1, ZenonT(30) DEF NotStarted, NoneOfSession
  <2>1. r # nextSessionId => reader'[r] = reader[r]
    BY <1>1 DEF TypeOK
  <2>2. r >= nextSessionId + 1 => r # nextSessionId /\ r >= nextSessionId
    BY <1>1, SMTT(30) DEF SessionIds
  <2> QED
    BY <1>4, <2>1, <2>2, Zenon DEF NotStarted
<1>7. EventFitsRoom'
  BY <1>1 DEF EventFitsRoom
<1>8. MembersUpToEvent'
  BY <1>1, Zenon DEF MembersUpToEvent, MembersAfter, PlayersOf
<1>9. PostsFollowEvents'
  BY <1>1 DEF PostsFollowEvents, UpToDate, OneBehind
<1>10. NoCommandRejected'
  BY <1>1 DEF NoCommandRejected
<1> QED
  BY <1>2, <1>3, <1>5, <1>6, <1>7, <1>8, <1>9, <1>10, Zenon

\* The steps that touch nothing but the places of the acceptor, of main and of an
\* idle worker.
LEMMA ControlKeepsInv ==
    ASSUME IInv, TypeOK',
           AcceptFails \/ WorkerExits \/ MainStopsWorker \/ MainJoinsWorker \/ UNCHANGED vars
    PROVE  IInv'
<1> USE DEF IInv
<1>1. UNCHANGED <<nextSessionId, reader, joined, writing, turn, sessions, members, commands, players,
                  processed, rejected, event, recipients, failures, lastPosted>>
  BY DEF AcceptFails, WorkerExits, MainStopsWorker, MainJoinsWorker, vars, serverVars, flagVars,
         ioVars, registryVars, queueVars, roomVars, workerVars
<1>2. worker' = worker \/ (worker = "idle" /\ worker' = "exited")
  <2>1. CASE WorkerExits
    BY <2>1, ZenonT(30) DEF WorkerExits
  <2>2. CASE AcceptFails \/ MainStopsWorker \/ MainJoinsWorker \/ UNCHANGED vars
    BY <2>2 DEF AcceptFails, MainStopsWorker, MainJoinsWorker, vars, serverVars, flagVars, ioVars,
                boundVars, registryVars, queueVars, roomVars, workerVars
  <2> QED
    BY <2>1, <2>2
<1>3. ShutdownOrder'
  <2>1. CASE MainStopsWorker
    BY <1>1, <2>1, ZenonT(30) DEF MainStopsWorker, ContextIdle, ShutdownOrder
  <2>2. CASE MainJoinsWorker
    BY <1>1, <2>2, Zenon DEF MainJoinsWorker, ShutdownOrder, queueVars
  <2>3. CASE AcceptFails \/ WorkerExits \/ UNCHANGED vars
    <3>1. UNCHANGED <<main, closed>>
      BY <2>3 DEF AcceptFails, WorkerExits, vars, serverVars, queueVars
    <3> QED
      BY <1>1, <3>1, Zenon DEF ShutdownOrder
  <2> QED
    BY <2>1, <2>2, <2>3, Zenon
<1>4. CommandInv'
  BY <1>1, SameKeepsCommandInv, ZenonT(30)
<1>5. RegisteredWhileRunning' /\ NotStarted'
  BY <1>1, ZenonT(30) DEF RegisteredWhileRunning, NotStarted, NoneOfSession
<1>6. EventFitsRoom'
  BY <1>1, <1>2, Zenon DEF EventFitsRoom
<1>7. MembersUpToEvent'
  BY <1>1, <1>2, Zenon DEF MembersUpToEvent, MembersAfter, PlayersOf
<1>8. PostsFollowEvents'
  BY <1>1, <1>2 DEF PostsFollowEvents, UpToDate, OneBehind
<1>9. NoCommandRejected'
  BY <1>1 DEF NoCommandRejected
<1> QED
  BY <1>3, <1>4, <1>5, <1>6, <1>7, <1>8, <1>9, ZenonT(30)

(***************************************************************************)
(* Theorems                                                                *)
(***************************************************************************)

\* The invariant holds when the server starts.
LEMMA InvInitial == Init => IInv
<1> SUFFICES ASSUME Init
             PROVE  IInv
  OBVIOUS
<1>1. TypeOK
  BY TypeInitial
<1>2. ShutdownOrder
  BY DEF Init, ShutdownOrder
<1>3. CommandInv
  BY DEF Init, CommandInv, QueueFitsRoom, QueueAlternates, FlagFitsQueue, FlagFitsRoom, EmptyRoom
<1>4. RegisteredWhileRunning
  BY DEF Init, RegisteredWhileRunning
<1>5. NotStarted
  BY RoomAssumption DEF Init, NotStarted, NoneOfSession, NoEvent, SessionIds
<1>6. EventFitsRoom
  BY DEF Init, EventFitsRoom
<1>7. MembersUpToEvent
  BY DEF Init, MembersUpToEvent, PlayersOf, EmptyRoom
<1>8. PostsFollowEvents
  BY DEF Init, PostsFollowEvents
<1>9. NoCommandRejected
  BY DEF Init, NoCommandRejected
<1> QED
  BY <1>1, <1>2, <1>3, <1>4, <1>5, <1>6, <1>7, <1>8, <1>9 DEF IInv

\* Every step of the server keeps the invariant.
LEMMA InvInductive == IInv /\ [Next]_vars => IInv'
<1> SUFFICES ASSUME IInv, [Next]_vars
             PROVE  IInv'
  OBVIOUS
<1>1. TypeOK'
  BY TypeInductive DEF IInv
<1>2. CASE Accept
  BY <1>1, <1>2, AcceptKeepsInv
<1>3. CASE WorkerApplies
  BY <1>1, <1>3, ApplyKeepsInv
<1>4. CASE WorkerPublishes
  BY <1>1, <1>4, PublishKeepsInv
<1>5. ASSUME NEW s \in SessionIds, WorkerDelivers(s)
      PROVE  IInv'
  BY <1>1, <1>5, DeliverKeepsInv
<1>6. CASE HandlerThrows
  BY <1>1, <1>6, ThrowKeepsInv
<1>7. ASSUME NEW s \in SessionIds, SessionStep(s)
      PROVE  IInv'
  BY <1>1, <1>7, SessionKeepsInv
<1>8. CASE AcceptFails \/ WorkerExits \/ MainStopsWorker \/ MainJoinsWorker \/ UNCHANGED vars
  BY <1>1, <1>8, ControlKeepsInv
<1> QED
  BY <1>2, <1>3, <1>4, <1>5, <1>6, <1>7, <1>8 DEF Next, WorkerStep, Terminated

\* joined_room_, the command queue, the Room, the registry and the posts agree in
\* every reachable state, as spelled out by the parts of IInv.
THEOREM Invariance == Spec => []IInv
BY InvInitial, InvInductive, PTL DEF Spec

\* Room::apply never rejects a command of a Session, for any number of sessions
\* and packets and with exceptions out of run() and out of the event handler.
THEOREM CommandsAccepted == Spec => []NoCommandRejected
<1>1. IInv => NoCommandRejected
  BY DEF IInv
<1> QED
  BY <1>1, Invariance, PTL

\* room_members_ of the SessionRegistry is the set of registered players of the
\* Room whenever no event is between the two.
THEOREM RegistryMatchesRoom == Spec => []MembersMatchRoom
<1>1. IInv => MembersMatchRoom
  BY DEF IInv, MembersUpToEvent, MembersMatchRoom
<1> QED
  BY <1>1, Invariance, PTL

\* room_worker.stop() closes the queue when no session can submit any more.
THEOREM QueueClosedLast == Spec => []QueueOutlivesSessions
<1>1. IInv => QueueOutlivesSessions
  BY DEF IInv, ShutdownOrder, QueueOutlivesSessions
<1> QED
  BY <1>1, Invariance, PTL

\* Only SessionRegistry::publish posts to a session; every other step leaves the
\* number of posts alone or takes one off.
LEMMA OnlyDeliverPosts ==
    ASSUME TypeOK, [Next]_vars, NEW r \in SessionIds, posts'[r] > posts[r]
    PROVE  WorkerDelivers(r)
<1> USE DEF ioVars
<1>1. posts[r] \in Nat /\ posts' # posts
  BY DEF TypeOK
<1>2. CASE Accept \/ AcceptFails \/ MainStopsWorker \/ MainJoinsWorker \/ UNCHANGED vars
  BY <1>1, <1>2, ZenonT(30) DEF Accept, AcceptFails, MainStopsWorker, MainJoinsWorker, vars
<1>3. CASE WorkerApplies \/ WorkerPublishes \/ HandlerThrows \/ WorkerExits
  BY <1>1, <1>3 DEF WorkerApplies, WorkerPublishes, HandlerThrows, WorkerExits
<1>4. ASSUME NEW s \in SessionIds, WorkerDelivers(s)
      PROVE  WorkerDelivers(r)
  <2>1. CASE s # r
    <3>1. posts'[r] = posts[r]
      BY <1>4, <2>1, Zenon DEF WorkerDelivers, TypeOK
    <3> QED
      BY <1>1, <3>1
  <2> QED
    BY <1>4, <2>1
<1>5. ASSUME NEW s \in SessionIds, SessionStep(s)
      PROVE  FALSE
  <2>1. CASE PacketStep(s)
    BY <1>1, <2>1, PacketFrame DEF unchangedByPacket
  <2>2. CASE DeliverHandler(s)
    <3>1. posts'[r] = posts[r] \/ posts'[r] = posts[r] - 1
      BY <2>2, ZenonT(30) DEF DeliverHandler, TakePost, TypeOK
    <3> QED
      BY <1>1, <3>1, SMTT(30)
  <2>3. CASE \/ StartSession(s) \/ ReadCompletes(s) \/ ReadFailed(s) \/ ReadSucceeded(s)
             \/ AwaitMoreBytes(s) \/ RunThrows(s) \/ Unregister(s)
             \/ WriterReturns(s) \/ WriterFails(s)
    BY <1>1, <2>3, Zenon DEF StartSession, ReadCompletes, ReadFailed, ReadSucceeded, AwaitMoreBytes,
                      RunThrows, Unregister, WriterReturns, WriterFails
  <2> QED
    BY <1>5, <2>1, <2>2, <2>3, Zenon DEF SessionStep
<1> QED
  BY <1>2, <1>3, <1>4, <1>5, Zenon DEF Next, WorkerStep, Terminated

\* A client that joined is sent the events of the Room in order and without a
\* gap, from its own player_joined to the last before its own player_left.
THEOREM PostsInOrder == Spec => EventsPostedInOrder
<1>1. ASSUME IInv, [Next]_vars
      PROVE  [\A s \in SessionIds :
                posts'[s] > posts[s] /\ failures = 0 =>
                   \/ event = [type |-> "player_joined", session_id |-> s]
                   \/ /\ event # [type |-> "player_left", session_id |-> s]
                      /\ lastPosted[s] # 0
                      /\ lastPosted[s] = processed - 1]_vars
  <2> SUFFICES ASSUME NEW s \in SessionIds, posts'[s] > posts[s], failures = 0
               PROVE  \/ event = [type |-> "player_joined", session_id |-> s]
                      \/ /\ event # [type |-> "player_left", session_id |-> s]
                         /\ lastPosted[s] # 0
                         /\ lastPosted[s] = processed - 1
    BY Zenon
  <2>1. WorkerDelivers(s)
    BY <1>1, OnlyDeliverPosts DEF IInv
  <2> QED
    BY <1>1, <2>1, Zenon DEF WorkerDelivers, IInv, PostsFollowEvents, OneBehind
<1> QED
  BY <1>1, Invariance, PTL DEF Spec, EventsPostedInOrder

(***************************************************************************)
(* No player outlives its session, provided that no exception leaves run() *)
(* and that closing a socket takes a completed read back                   *)
(***************************************************************************)

\* stop_session leaves the Room and sets the flag, whoever called it before.
LEMMA StopLeaves ==
    ASSUME TypeOK, LeftWhenStopped, NEW s \in SessionIds, StopSession(s)
    PROVE  /\ stopped' = [stopped EXCEPT ![s] = TRUE]
           /\ joined' = [joined EXCEPT ![s] = FALSE]
<1>1. CASE stopped[s]
  <2>1. ~joined[s] /\ stopped' = stopped /\ joined' = joined
    BY <1>1 DEF LeftWhenStopped, StopSession
  <2> QED
    BY <1>1, <2>1 DEF TypeOK
<1>2. CASE ~stopped[s]
  BY <1>2 DEF StopSession, LeaveRoomIfJoined
<1> QED
  BY <1>1, <1>2

\* A packet of a session that is not stopped: the session is stopped and its
\* reader returns, or it goes on with joined_room_ changed or not.
LEMMA PacketLeaves ==
    ASSUME TypeOK, LeaveInv, NEW s \in SessionIds, PacketStep(s)
    PROVE  /\ ~stopped[s]
           /\ \/ /\ stopped' = [stopped EXCEPT ![s] = TRUE]
                 /\ joined' = [joined EXCEPT ![s] = FALSE]
                 /\ reader' = [reader EXCEPT ![s] = "returning"]
              \/ /\ UNCHANGED <<stopped, reader>>
                 /\ \E flag \in BOOLEAN : joined' = [joined EXCEPT ![s] = flag]
<1>1. turn = s /\ reader[s] = "processing"
  BY PacketFrame
<1>2. ~stopped[s]
  BY <1>1 DEF LeaveInv, LeftWhenStopped
<1>3. joined[s] \in BOOLEAN /\ joined = [joined EXCEPT ![s] = joined[s]]
  BY DEF TypeOK
<1>4. \/ StopSession(s) /\ Return(s)
      \/ /\ UNCHANGED <<stopped, reader>>
         /\ \/ UNCHANGED joined
            \/ joined' = [joined EXCEPT ![s] = TRUE]
            \/ joined' = [joined EXCEPT ![s] = FALSE]
  BY <1>2 DEF PacketStep, PingPacket, JoinPacket, MovePacket, LeavePacket, RefusedPacket,
              RejectProtocol, LeaveRoomIfJoined, Continue, flagVars
<1>5. CASE StopSession(s) /\ Return(s)
  BY <1>2, <1>5, StopLeaves DEF LeaveInv, Return
<1>6. CASE ~(StopSession(s) /\ Return(s))
  BY <1>2, <1>3, <1>4, <1>6, Zenon
<1> QED
  BY <1>5, <1>6

\* A step of a session.
LEMMA SessionKeepsLeave ==
    ASSUME ~StaleReads, MaxThrows = 0, IInv, LeaveInv, NEW s \in SessionIds, SessionStep(s)
    PROVE  LeaveInv'
<1> USE DEF IInv, IoReady, flagVars, ioVars, workerVars
<1>1. /\ UNCHANGED recipients
      /\ NoTurn \notin SessionIds
  BY SessionFrame, RoomAssumption DEF NoTurn, SessionIds
<1>2. CASE PacketStep(s)
  <2>1. /\ turn = s /\ reader[s] = "processing"
        /\ UNCHANGED <<turn, posts>>
    BY <1>2, PacketFrame, Zenon DEF unchangedByPacket
  <2>2. writing' = writing \/ writing' = [writing EXCEPT ![s] = TRUE]
    BY <1>2 DEF PacketStep, PingPacket, JoinPacket, MovePacket, LeavePacket, RefusedPacket,
                RejectProtocol, OutboundAccepts
  <2>3. /\ ~stopped[s]
        /\ \/ /\ stopped' = [stopped EXCEPT ![s] = TRUE]
              /\ joined' = [joined EXCEPT ![s] = FALSE]
              /\ reader' = [reader EXCEPT ![s] = "returning"]
           \/ /\ UNCHANGED <<stopped, reader>>
              /\ \E flag \in BOOLEAN : joined' = [joined EXCEPT ![s] = flag]
    BY <1>2, PacketLeaves
  <2>4. TurnOfReader'
    BY <2>1, <2>3, Zenon DEF LeaveInv, TurnOfReader, TypeOK
  <2>5. QuietBeforeStart'
    BY <1>1, <2>1, <2>2, <2>3, Zenon DEF LeaveInv, QuietBeforeStart, TypeOK
  <2>6. LeftWhenStopped'
    BY <2>1, <2>3, Zenon DEF LeaveInv, LeftWhenStopped, TypeOK
  <2> QED
    BY <2>4, <2>5, <2>6 DEF LeaveInv
<1>3. CASE StartSession(s)
  <2>1. s \notin sessions /\ ~joined[s]
    BY <1>3, Zenon DEF StartSession, RegisteredWhileRunning, NotStarted
  <2>2. ~stopped[s] /\ reader[s] = "spawned" /\ turn = NoTurn
    BY <1>3 DEF StartSession, LeaveInv, LeftWhenStopped
  <2>3. /\ reader' = [reader EXCEPT ![s] = "reading"]
        /\ UNCHANGED <<stopped, joined, writing, posts, turn>>
    BY <1>3, <2>1, Zenon DEF StartSession
  <2> QED
    BY <1>1, <2>2, <2>3, ZenonT(30) DEF LeaveInv, TurnOfReader, QuietBeforeStart, LeftWhenStopped, TypeOK
<1>4. CASE ReadCompletes(s)
  <2>1. ~stopped[s] /\ reader[s] = "reading" /\ turn = NoTurn
    BY <1>4 DEF ReadCompletes, LeaveInv, LeftWhenStopped
  <2>2. /\ \E result \in {"data", "failed"} : reader' = [reader EXCEPT ![s] = result]
        /\ UNCHANGED <<stopped, joined, writing, posts, turn>>
    BY <1>4, Zenon DEF ReadCompletes
  <2> QED
    BY <1>1, <2>1, <2>2, ZenonT(30) DEF LeaveInv, TurnOfReader, QuietBeforeStart, LeftWhenStopped, TypeOK
<1>5. CASE ReadFailed(s)
  <2>1. /\ stopped' = [stopped EXCEPT ![s] = TRUE]
        /\ joined' = [joined EXCEPT ![s] = FALSE]
    BY <1>5, StopLeaves DEF ReadFailed, LeaveInv
  <2>2. /\ reader[s] = "failed" /\ turn = NoTurn
        /\ reader' = [reader EXCEPT ![s] = "returning"]
        /\ turn' = s
        /\ UNCHANGED <<writing, posts>>
    BY <1>5, Zenon DEF ReadFailed
  <2> QED
    BY <1>1, <2>1, <2>2, ZenonT(30) DEF LeaveInv, TurnOfReader, QuietBeforeStart, LeftWhenStopped, TypeOK
<1>6. CASE ReadSucceeded(s)
  <2>1. /\ reader[s] = "data" /\ turn = NoTurn /\ ~stopped[s]
        /\ reader' = [reader EXCEPT ![s] = "processing"]
        /\ turn' = s
        /\ UNCHANGED <<stopped, joined, writing, posts>>
    BY <1>6 DEF ReadSucceeded, LeaveInv, LeftWhenStopped
  <2> QED
    BY <1>1, <2>1, ZenonT(30) DEF LeaveInv, TurnOfReader, QuietBeforeStart, LeftWhenStopped, TypeOK
<1>7. CASE AwaitMoreBytes(s)
  <2>1. reader[s] = "processing" /\ turn = s /\ ~stopped[s]
    BY <1>7 DEF AwaitMoreBytes, LeaveInv, LeftWhenStopped
  <2>2. /\ reader' = [reader EXCEPT ![s] = "reading"]
        /\ turn' = NoTurn
        /\ UNCHANGED <<stopped, joined, writing, posts>>
    BY <1>7, <2>1, Zenon DEF AwaitMoreBytes
  <2> QED
    BY <1>1, <2>1, <2>2, ZenonT(30) DEF LeaveInv, TurnOfReader, QuietBeforeStart, LeftWhenStopped, TypeOK
<1>8. CASE RunThrows(s)
  BY <1>8, CounterTypes, SMTT(30) DEF RunThrows
<1>9. CASE Unregister(s)
  <2>1. /\ reader[s] = "returning" /\ turn = s
        /\ reader' = [reader EXCEPT ![s] = "done"]
        /\ turn' = NoTurn
        /\ UNCHANGED <<stopped, joined, writing, posts>>
    BY <1>9 DEF Unregister
  <2> QED
    BY <1>1, <2>1, Zenon DEF LeaveInv, TurnOfReader, QuietBeforeStart, LeftWhenStopped, TypeOK
<1>10. CASE WriterReturns(s)
  <2>1. /\ writing' = [writing EXCEPT ![s] = FALSE]
        /\ UNCHANGED <<reader, stopped, joined, posts, turn>>
    BY <1>10, ZenonT(30) DEF WriterReturns
  <2> QED
    BY <1>1, <2>1, Zenon DEF LeaveInv, TurnOfReader, QuietBeforeStart, LeftWhenStopped, TypeOK
<1>11. CASE WriterFails(s) \/ DeliverHandler(s)
  <2>1. turn = NoTurn /\ UNCHANGED turn /\ reader[s] \notin {"none", "spawned", "processing"}
    BY <1>1, <1>11, SMTT(30) DEF WriterFails, DeliverHandler, TakePost, LeaveInv, TurnOfReader,
                       QuietBeforeStart, TypeOK
  <2>2. \/ UNCHANGED <<reader, stopped, joined>>
        \/ StopFromOutside(s)
    BY <1>11, ZenonT(30) DEF WriterFails, DeliverHandler
  <2>3. \A r \in SessionIds : r # s => writing'[r] = writing[r] /\ posts'[r] = posts[r]
    BY <1>11, Zenon DEF WriterFails, DeliverHandler, TakePost, OutboundAccepts, TypeOK
  <2>4. \/ UNCHANGED <<reader, stopped, joined>>
        \/ /\ stopped' = [stopped EXCEPT ![s] = TRUE]
           /\ joined' = [joined EXCEPT ![s] = FALSE]
           /\ \/ reader' = [reader EXCEPT ![s] = "failed"] /\ reader[s] \in {"reading", "data"}
              \/ UNCHANGED reader /\ reader[s] \in {"failed", "returning", "done"}
    <3>1. CASE UNCHANGED <<reader, stopped, joined>>
      BY <3>1
    <3>2. CASE StopFromOutside(s)
      <4>1. /\ stopped' = [stopped EXCEPT ![s] = TRUE]
            /\ joined' = [joined EXCEPT ![s] = FALSE]
        BY <3>2, StopLeaves, Zenon DEF StopFromOutside, LeaveInv
      <4>2. CASE stopped[s]
        BY <3>2, <4>1, <4>2, Zenon DEF StopFromOutside, LeaveInv, LeftWhenStopped
      <4>3. CASE ~stopped[s]
        <5>1. reader' = [reader EXCEPT ![s] = CancelRead(reader[s])]
          BY <3>2, <4>3, Zenon DEF StopFromOutside
        <5>2. reader[s] \in {"reading", "data", "failed", "returning", "done"}
          BY <2>1 DEF TypeOK, ReaderStates
        <5>3. CASE reader[s] \in {"reading", "data"}
          BY <4>1, <5>1, <5>3, Zenon DEF CancelRead
        <5>4. CASE reader[s] \in {"failed", "returning", "done"}
          <6>1. CancelRead(reader[s]) = reader[s]
            BY <5>4 DEF CancelRead
          <6>2. UNCHANGED reader
            BY <5>1, <6>1, Zenon DEF TypeOK
          <6> QED
            BY <4>1, <5>4, <6>2
        <5> QED
          BY <5>2, <5>3, <5>4
      <4> QED
        BY <4>2, <4>3
    <3> QED
      BY <2>2, <3>1, <3>2
  <2>5. TurnOfReader'
    BY <1>1, <2>1, <2>4, ZenonT(30) DEF LeaveInv, TurnOfReader, TypeOK
  <2>6. QuietBeforeStart'
    BY <1>1, <2>1, <2>3, <2>4, ZenonT(30) DEF LeaveInv, QuietBeforeStart, TypeOK
  <2>7. LeftWhenStopped'
    BY <2>4, Zenon DEF LeaveInv, LeftWhenStopped, TypeOK
  <2> QED
    BY <2>5, <2>6, <2>7 DEF LeaveInv
<1> QED
  BY <1>2, <1>3, <1>4, <1>5, <1>6, <1>7, <1>8, <1>9, <1>10, <1>11, Zenon DEF SessionStep

\* A step of the accept loop, the worker or main.
LEMMA OthersKeepLeave ==
    ASSUME IInv, LeaveInv,
           \/ Accept \/ AcceptFails \/ WorkerStep \/ MainStopsWorker \/ MainJoinsWorker
           \/ UNCHANGED vars
    PROVE  LeaveInv'
<1> USE DEF IInv, flagVars, ioVars, workerVars
<1>1. CASE Accept
  <2>1. /\ nextSessionId \in SessionIds /\ reader[nextSessionId] = "none"
        /\ reader' = [reader EXCEPT ![nextSessionId] = "spawned"]
        /\ UNCHANGED <<stopped, joined, writing, posts, turn, recipients>>
    BY <1>1 DEF Accept, NotStarted, SessionIds
  <2> QED
    BY <2>1, ZenonT(30) DEF LeaveInv, TurnOfReader, QuietBeforeStart, LeftWhenStopped, TypeOK
<1>2. CASE \/ AcceptFails \/ MainStopsWorker \/ MainJoinsWorker \/ UNCHANGED vars
           \/ WorkerExits
  <2>1. UNCHANGED <<reader, stopped, joined, writing, posts, turn, recipients>>
    BY <1>2, ZenonT(30) DEF AcceptFails, MainStopsWorker, MainJoinsWorker, WorkerExits, vars
  <2> QED
    BY <2>1, ZenonT(30) DEF LeaveInv, TurnOfReader, QuietBeforeStart, LeftWhenStopped
<1>3. CASE WorkerApplies
  <2>1. UNCHANGED <<reader, stopped, joined, writing, posts, turn, recipients>>
    BY <1>3, Zenon DEF WorkerApplies
  <2> QED
    BY <2>1, Zenon DEF LeaveInv, TurnOfReader, QuietBeforeStart, LeftWhenStopped
<1>4. CASE WorkerPublishes \/ HandlerThrows
  <2>1. /\ UNCHANGED <<reader, stopped, joined, writing, posts, turn>>
        /\ recipients' \subseteq sessions
    BY <1>4, ZenonT(30) DEF WorkerPublishes, HandlerThrows
  <2> QED
    BY <2>1 DEF LeaveInv, TurnOfReader, QuietBeforeStart, LeftWhenStopped,
                RegisteredWhileRunning
<1>5. ASSUME NEW s \in SessionIds, WorkerDelivers(s)
      PROVE  LeaveInv'
  <2>1. /\ UNCHANGED <<reader, stopped, joined, writing, turn>>
        /\ s \in recipients
        /\ recipients' = recipients \ {s}
        /\ posts' = [posts EXCEPT ![s] = @ + 1]
    BY <1>5 DEF WorkerDelivers
  <2> QED
    BY <2>1, Zenon DEF LeaveInv, TurnOfReader, QuietBeforeStart, LeftWhenStopped, TypeOK
<1> QED
  BY <1>1, <1>2, <1>3, <1>4, <1>5, Zenon DEF WorkerStep

\* Every way a session ends takes its player out of the Room, for any number of
\* sessions, packets and failed broadcasts: what can leave a player behind is an
\* exception out of run(), or a read that completed before its socket was closed.
THEOREM PlayersLeave ==
    ASSUME ~StaleReads, MaxThrows = 0
    PROVE  Spec => []NoGhostPlayer
<1>1. Init => LeaveInv
  <2>1. NoTurn \notin SessionIds
    BY RoomAssumption DEF NoTurn, SessionIds
  <2> QED
    BY <2>1 DEF Init, LeaveInv, TurnOfReader, QuietBeforeStart, LeftWhenStopped
<1>2. IInv /\ LeaveInv /\ [Next]_vars => LeaveInv'
  BY SessionKeepsLeave, OthersKeepLeave DEF Next, Terminated
<1>3. IInv /\ LeaveInv => NoGhostPlayer
  BY DEF IInv, CommandInv, FlagFitsRoom, NoneOfSession, LeaveInv, LeftWhenStopped, NoGhostPlayer
<1> QED
  BY <1>1, <1>2, <1>3, Invariance, PTL DEF Spec
=============================================================================
