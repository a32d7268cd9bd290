-------------------------------- MODULE Room --------------------------------
(***************************************************************************)
(* The authoritative Room (src/src/room/room.cpp): players_ maps a joined  *)
(* session id to a grid position, and apply() executes one RoomCommand.    *)
(* players_ is a function over all session ids with the value Absent for   *)
(* the ids the unordered_map does not hold.                                *)
(***************************************************************************)
EXTENDS Naturals

CONSTANTS
    MaxSessions,    \* bound: connections accepted in one run of the server
    Positions,      \* the grid positions a client may move to
    Origin,         \* GridPosition{}
    Absent          \* "players_ has no entry for this session id"

ASSUME RoomAssumption ==
    /\ MaxSessions \in Nat
    /\ Origin \in Positions
    /\ Absent \notin Positions

\* run_server hands out 1, 2, 3, ...
SessionIds == 1..MaxSessions

\* The DisconnectReason of a LeaveCommand is only passed on to the clients and is
\* left out.
JoinCommand(s) == [type |-> "join", session_id |-> s]
MoveCommand(s, p) == [type |-> "move", session_id |-> s, destination |-> p]
LeaveCommand(s) == [type |-> "leave", session_id |-> s]

RoomCommands ==
    [type: {"join", "leave"}, session_id: SessionIds]
        \cup [type: {"move"}, session_id: SessionIds, destination: Positions]

Rooms == [SessionIds -> Positions \cup {Absent}]

EmptyRoom == [s \in SessionIds |-> Absent]

PlayersOf(room) == {s \in SessionIds : room[s] # Absent}

(***************************************************************************)
(* apply_join, apply_move and apply_leave: Accepts is the condition under  *)
(* which apply returns an event and not a RoomCommandError                 *)
(* (duplicate_session, session_not_found), and Apply is players_ after it. *)
(***************************************************************************)
Accepts(room, command) ==
    IF command.type = "join"
    THEN room[command.session_id] = Absent
    ELSE room[command.session_id] # Absent

\* The RoomEvent of an accepted command, as far as its receivers tell events
\* apart: its kind and the player it is about.
RoomEvents ==
    [type: {"player_joined", "player_moved", "player_left"}, session_id: SessionIds]

EventOf(command) ==
    [type |-> CASE command.type = "join" -> "player_joined"
                [] command.type = "move" -> "player_moved"
                [] OTHER -> "player_left",
     session_id |-> command.session_id]

PositionAfter(command) ==
    CASE command.type = "join" -> Origin
      [] command.type = "move" -> command.destination
      [] OTHER -> Absent

Apply(room, command) ==
    IF Accepts(room, command)
    THEN [room EXCEPT ![command.session_id] = PositionAfter(command)]
    ELSE room
=============================================================================
