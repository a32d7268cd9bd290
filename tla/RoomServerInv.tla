--------------------------- MODULE RoomServerInv ----------------------------
(***************************************************************************)
(* The inductive invariant behind the safety properties of RoomServer, in  *)
(* named parts.                                                            *)
(***************************************************************************)
EXTENDS RoomServer

\* main closes the queue when it leaves context.run(), and by then the I/O thread
\* has no session left to run.
ShutdownOrder ==
    /\ closed <=> main # "running"
    /\ main # "running" =>
          turn = NoTurn /\ \A s \in SessionIds : reader[s] \in Inactive /\ ~writing[s]

\* Command i is the first, or the next after command j, of its session.
FirstOfSession(i) ==
    \A k \in 1..(i - 1) : commands[k].session_id # commands[i].session_id

NextOfSession(j, i) ==
    /\ commands[j].session_id = commands[i].session_id
    /\ \A k \in (j + 1)..(i - 1) : commands[k].session_id # commands[i].session_id

LastOfSession(i) ==
    \A k \in (i + 1)..Len(commands) : commands[k].session_id # commands[i].session_id

NoneOfSession(s) == \A i \in 1..Len(commands) : commands[i].session_id # s

\* Replaying the queue on the Room rejects nothing and ends in joined_room_: the
\* first command of a session fits the Room, each further one fits the one
\* before it, and the flag fits the last one, or the Room if there is none.
QueueFitsRoom ==
    \A i \in 1..Len(commands) : FirstOfSession(i) => Accepts(players, commands[i])

QueueAlternates ==
    \A i \in 1..Len(commands) : \A j \in 1..(i - 1) :
        NextOfSession(j, i) => (commands[i].type = "join" <=> commands[j].type = "leave")

FlagFitsQueue ==
    \A i \in 1..Len(commands) :
        LastOfSession(i) => (joined[commands[i].session_id] <=> commands[i].type # "leave")

FlagFitsRoom ==
    \A s \in SessionIds : NoneOfSession(s) => (joined[s] <=> players[s] # Absent)

\* A session is registered from its start until run() has returned.
RegisteredWhileRunning ==
    \A s \in SessionIds : s \in sessions <=> reader[s] \notin {"none", "spawned", "done"}

\* Nothing is known anywhere of a session that has not started.
NotStarted ==
    \A s \in SessionIds :
        /\ s >= nextSessionId => reader[s] = "none"
        /\ reader[s] \in {"none", "spawned"} =>
              /\ ~joined[s]
              /\ NoneOfSession(s)
              /\ s \notin members
              /\ event.session_id # s

\* The event being published is the Room's last change.
EventFitsRoom ==
    /\ worker \in {"publish", "deliver"} <=> event # NoEvent
    /\ worker \in {"publish", "deliver"} => processed # 0
    /\ worker = "publish" =>
          (event.type = "player_left" <=> players[event.session_id] = Absent)

\* room_members_ is right as soon as the event at hand has been taken in.
MembersUpToEvent ==
    failures = 0 =>
        IF worker = "publish"
        THEN MembersAfter(event) \cap sessions = PlayersOf(players) \cap sessions
        ELSE members = PlayersOf(players) \cap sessions

UpToDate(s) == lastPosted[s] = processed /\ lastPosted[s] # 0
OneBehind(s) == lastPosted[s] = processed - 1 /\ lastPosted[s] # 0

\* How far the posts to each member have got.
PostsFollowEvents ==
    failures = 0 =>
        /\ worker \in {"idle", "exited"} => \A s \in members : UpToDate(s)
        /\ worker = "publish" => \A s \in members : OneBehind(s)
        /\ worker = "deliver" =>
              /\ \A s \in members \ recipients : UpToDate(s)
              /\ \A s \in recipients :
                    \/ event = [type |-> "player_joined", session_id |-> s]
                    \/ event # [type |-> "player_left", session_id |-> s] /\ OneBehind(s)

CommandInv == QueueFitsRoom /\ QueueAlternates /\ FlagFitsQueue /\ FlagFitsRoom

\* The inductive invariant: types, the order of shutdown, the agreement of
\* joined_room_, the queue and the Room, and that of Room, registry and posts.
IInv ==
    /\ TypeOK
    /\ ShutdownOrder
    /\ CommandInv
    /\ RegisteredWhileRunning
    /\ NotStarted
    /\ EventFitsRoom
    /\ MembersUpToEvent
    /\ PostsFollowEvents
    /\ NoCommandRejected

\* The I/O thread is inside the reader whose turn it is.
TurnOfReader ==
    \A s \in SessionIds : turn = s <=> reader[s] \in {"processing", "returning"}

\* Nothing is written or posted to a session before it starts.
QuietBeforeStart ==
    \A s \in SessionIds :
        reader[s] \in {"none", "spawned"} => ~writing[s] /\ posts[s] = 0 /\ s \notin recipients

\* A stopped session reads no further packet, and it has left the Room, as has
\* every session whose run() has returned.  Without exceptions and stale reads.
LeftWhenStopped ==
    \A s \in SessionIds :
        /\ stopped[s] => ~joined[s] /\ reader[s] \in {"failed", "returning", "done"}
        /\ reader[s] \in {"returning", "done"} => ~joined[s]

LeaveInv == TurnOfReader /\ QuietBeforeStart /\ LeftWhenStopped
=============================================================================
