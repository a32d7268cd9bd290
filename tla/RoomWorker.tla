----------------------------- MODULE RoomWorker -----------------------------
(***************************************************************************)
(* RoomWorker (src/src/room/room_worker.cpp) with its CloseableQueue       *)
(* (src/include/mcrs/concurrency/closeable_queue.hpp) and Room: any number *)
(* of threads submit commands, one worker thread waits on the queue's      *)
(* condition variable and applies them, and the owner calls stop().  A     *)
(* critical section of the queue's mutex is one step; a notification is a  *)
(* step of its own because it happens after the unlock.                    *)
(***************************************************************************)
EXTENDS Room, Sequences, FiniteSets

CONSTANTS
    Submitters,     \* threads that call submit
    MaxCommands     \* bound: commands accepted in one run

ASSUME WorkerAssumption == MaxCommands \in Nat

VARIABLES
    values, closed,                     \* CloseableQueue
    stop_requested,                     \* the jthread's stop_token
    submitter,                          \* per thread: outside push, or at notify_one
    owner,                              \* the thread that calls stop()
    worker,                             \* place of the worker thread in run()
    players,                            \* room_
    processed, rejected, failures,      \* the counters of the summary
    summary,                            \* stopped_summary_, once engaged
    accepted                            \* history: every command push accepted

queueVars == <<values, closed, accepted>>
roomVars == <<players, processed, rejected, failures>>
vars == <<queueVars, stop_requested, submitter, owner, worker, roomVars, summary>>

NoSummary == [engaged |-> FALSE]
Summary == [engaged |-> TRUE, players |-> players, processed |-> processed,
            rejected |-> rejected, failures |-> failures]

Init ==
    /\ values = <<>>
    /\ closed = FALSE
    /\ stop_requested = FALSE
    /\ submitter = [t \in Submitters |-> "outside"]
    /\ owner = "running"
    /\ worker = "wait_pop"
    /\ players = EmptyRoom
    /\ processed = 0
    /\ rejected = 0
    /\ failures = 0
    /\ summary = NoSummary
    /\ accepted = <<>>

\* A notification reaches the worker if it is blocked in wait().
Wake == worker' = IF worker = "waiting" THEN "wait_pop" ELSE worker

-----------------------------------------------------------------------------
(* submit, that is CloseableQueue::push *)

Submit(t) ==
    /\ submitter[t] = "outside"
    /\ IF closed
       THEN UNCHANGED <<queueVars, submitter>>
       ELSE /\ Len(accepted) < MaxCommands
            /\ \E command \in RoomCommands :
                  /\ values' = Append(values, command)
                  /\ accepted' = Append(accepted, command)
            /\ submitter' = [submitter EXCEPT ![t] = "notify_one"]
            /\ UNCHANGED closed
    /\ UNCHANGED <<stop_requested, owner, worker, roomVars, summary>>

NotifyOne(t) ==
    /\ submitter[t] = "notify_one"
    /\ submitter' = [submitter EXCEPT ![t] = "outside"]
    /\ Wake
    /\ UNCHANGED <<queueVars, stop_requested, owner, roomVars, summary>>

-----------------------------------------------------------------------------
(* The worker thread: run and CloseableQueue::wait_pop *)

\* Mutant of Awaited: the predicate forgets closed_.
AwaitedWithoutClose == values # <<>> \/ stop_requested

\* The predicate wait() checks under the lock.
Awaited == closed \/ values # <<>> \/ stop_requested

WorkerBlocks ==
    /\ worker = "wait_pop"
    /\ ~Awaited
    /\ worker' = "waiting"
    /\ UNCHANGED <<queueVars, stop_requested, submitter, owner, roomVars, summary>>

\* wait() may also return without a notification.
SpuriousWakeup ==
    /\ worker = "waiting"
    /\ worker' = "wait_pop"
    /\ UNCHANGED <<queueVars, stop_requested, submitter, owner, roomVars, summary>>

\* Mutant of WorkerApplies: a rejected command is not counted as processed.
WorkerCountsAccepted ==
    /\ worker = "wait_pop"
    /\ Awaited
    /\ values # <<>>
    /\ values' = Tail(values)
    /\ players' = Apply(players, Head(values))
    /\ IF Accepts(players, Head(values))
       THEN worker' = "handle_event" /\ processed' = processed + 1 /\ UNCHANGED rejected
       ELSE rejected' = rejected + 1 /\ UNCHANGED <<worker, processed>>
    /\ UNCHANGED <<closed, accepted, stop_requested, submitter, owner, failures, summary>>

\* wait_pop returns the first command and run applies it to the Room.
WorkerApplies ==
    /\ worker = "wait_pop"
    /\ Awaited
    /\ values # <<>>
    /\ values' = Tail(values)
    /\ players' = Apply(players, Head(values))
    /\ processed' = processed + 1
    /\ IF Accepts(players, Head(values))
       THEN worker' = "handle_event" /\ UNCHANGED rejected
       ELSE rejected' = rejected + 1 /\ UNCHANGED worker
    /\ UNCHANGED <<closed, accepted, stop_requested, submitter, owner, failures, summary>>

\* event_handler_ returns, or throws and the failure is counted.
WorkerHandlesEvent ==
    /\ worker = "handle_event"
    /\ worker' = "wait_pop"
    /\ failures' \in {failures, failures + 1}
    /\ UNCHANGED <<queueVars, stop_requested, submitter, owner,
                   players, processed, rejected, summary>>

\* Mutant of WorkerExits: a stop request ends the worker with commands queued.
WorkerExitsOnRequest ==
    /\ worker = "wait_pop"
    /\ stop_requested \/ (closed /\ values = <<>>)
    /\ worker' = "exited"
    /\ UNCHANGED <<queueVars, stop_requested, submitter, owner, roomVars, summary>>

\* wait_pop returns nullopt and run returns.
WorkerExits ==
    /\ worker = "wait_pop"
    /\ Awaited
    /\ values = <<>>
    /\ worker' = "exited"
    /\ UNCHANGED <<queueVars, stop_requested, submitter, owner, roomVars, summary>>

-----------------------------------------------------------------------------
(* stop(), called by the owner *)

StopCloses ==
    /\ owner = "running"
    /\ closed' = TRUE
    /\ owner' = "notify_all"
    /\ UNCHANGED <<values, accepted, stop_requested, submitter, worker, roomVars, summary>>

CloseNotifies ==
    /\ owner = "notify_all"
    /\ owner' = "request_stop"
    /\ Wake
    /\ UNCHANGED <<queueVars, stop_requested, submitter, roomVars, summary>>

\* request_stop also wakes a waiter, by the callback wait() registered.
StopRequests ==
    /\ owner = "request_stop"
    /\ stop_requested' = TRUE
    /\ owner' = "join"
    /\ Wake
    /\ UNCHANGED <<queueVars, submitter, roomVars, summary>>

\* Mutant of StopJoins: the summary is taken before the worker has ended.
StopDetaches ==
    /\ owner = "join"
    /\ owner' = "stopped"
    /\ summary' = Summary
    /\ UNCHANGED <<queueVars, stop_requested, submitter, worker, roomVars>>

StopJoins ==
    /\ owner = "join"
    /\ worker = "exited"
    /\ owner' = "stopped"
    /\ summary' = Summary
    /\ UNCHANGED <<queueVars, stop_requested, submitter, worker, roomVars>>

\* Later calls, the destructor's included, return the stored summary.
StopAgain ==
    /\ owner = "stopped"
    /\ summary.engaged
    /\ UNCHANGED vars

WorkerStep == WorkerBlocks \/ WorkerApplies \/ WorkerHandlesEvent \/ WorkerExits

OwnerStep == StopCloses \/ CloseNotifies \/ StopRequests \/ StopJoins

Next ==
    \/ WorkerStep \/ SpuriousWakeup \/ OwnerStep \/ StopAgain
    \/ \E t \in Submitters : Submit(t) \/ NotifyOne(t)

\* Threads run: the worker, a submitter that has to notify, and stop() once it has
\* been called.  Nobody has to submit or to call stop(), and spurious wakeups
\* are not relied on.
Fairness ==
    /\ WF_vars(WorkerStep)
    /\ WF_vars(owner # "running" /\ OwnerStep)
    /\ \A t \in Submitters : WF_vars(NotifyOne(t))

Spec == Init /\ [][Next]_vars /\ Fairness

-----------------------------------------------------------------------------

\* No wakeup is lost: a worker blocked in wait() while there is something to do
\* has a notification coming.
NoLostWakeup ==
    worker = "waiting" =>
        /\ values # <<>> => owner = "notify_all" \/ \E t \in Submitters : submitter[t] = "notify_one"
        /\ closed => owner = "notify_all"

\* The Room after each prefix of a sequence of commands, applied one at a time.
RoomsAfter(commands) ==
    LET room[i \in 0..Len(commands)] ==
            IF i = 0 THEN EmptyRoom ELSE Apply(room[i - 1], commands[i])
    IN  room

\* The Room is the result of applying the accepted commands one at a time in the
\* order in which they were accepted, with the rejected ones counted.
RoomIsReplay ==
    LET before(i) == RoomsAfter(accepted)[i - 1]
    IN  /\ accepted = SubSeq(accepted, 1, processed) \o values
        /\ players = RoomsAfter(accepted)[processed]
        /\ rejected = Cardinality({i \in 1..processed : ~Accepts(before(i), accepted[i])})

\* The summary stop() hands out is final: once engaged, it is the state of the
\* Room and of the counters for good, however often stop() is called.
SummaryIsFinal == summary.engaged => summary = Summary /\ processed = Len(accepted)

\* RoomWorker implements the service: stop drains what was accepted before the
\* close, and returns.
Service == INSTANCE RoomService WITH
    Commands <- RoomCommands, applied <- processed,
    open <- ~closed, returned <- owner = "stopped"
ImplementsService == Service!Spec
=============================================================================
