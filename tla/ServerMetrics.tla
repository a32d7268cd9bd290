---------------------------- MODULE ServerMetrics ----------------------------
(***************************************************************************)
(* ServerMetrics (src/src/observability/server_metrics.cpp): the map of    *)
(* live sessions and the ring of closed ones under sessions_mutex_, the    *)
(* command counters, and snapshot() as the reporter runs it.  The I/O      *)
(* thread creates and ends sessions and takes the reports; the Room worker *)
(* counts commands and holds recipients while it publishes.  Whoever drops *)
(* the last reference to a session runs its destructor, which retires the  *)
(* session under the mutex.  A session's gauges are SessionMetrics' matter;*)
(* here its snapshot is its id.  Atomic operations take effect in program  *)
(* order, as x86-64 performs them although the code asks for relaxed ones. *)
(***************************************************************************)
EXTENDS Naturals, Sequences, FiniteSets, Functions

CONSTANTS
    Capacity,       \* closed_history_capacity
    MaxSessions,    \* bound: sessions created in one run
    MaxCommands,    \* bound: commands processed
    MaxReports      \* bound: snapshots taken

ASSUME MetricsAssumption ==
    Capacity \in Nat \ {0} /\ MaxSessions \in Nat /\ MaxCommands \in Nat /\ MaxReports \in Nat

Ids == 1..MaxSessions
Threads == {"io", "worker"}
None == 0

VARIABLES
    holders,            \* per session: who holds a strong reference
    destroying,         \* per thread: the session whose destructor it runs, or None
    sessions_mutex,     \* "free", or the thread that has locked it
    sessions,           \* the keys of sessions_
    closed, closed_count, closed_next, overwritten,     \* the ring
    processed, rejected,                                \* command counters
    worker,             \* "idle", or "rejecting": between the two increments
    io,                 \* "idle", or the place of the reporter within snapshot()
    todo,               \* entries of sessions_ the loop has still to visit
    report,             \* what snapshot() has gathered
    created, reports,   \* sessions created and reports taken so far
    retired             \* history: the sessions retired, in order

ringVars == <<sessions, closed, closed_count, closed_next, overwritten, retired>>
counterVars == <<processed, rejected, worker>>
reportVars == <<io, todo, report, reports>>
vars == <<holders, destroying, sessions_mutex, ringVars, counterVars, reportVars, created>>

NoReport == [processed |-> 0, rejected |-> 0, live |-> {}, closed |-> <<>>]

Init ==
    /\ holders = [s \in Ids |-> {}]
    /\ destroying = [t \in Threads |-> None]
    /\ sessions_mutex = "free"
    /\ sessions = {}
    /\ closed = [i \in 0..(Capacity - 1) |-> None]
    /\ closed_count = 0 /\ closed_next = 0 /\ overwritten = 0
    /\ processed = 0 /\ rejected = 0
    /\ worker = "idle"
    /\ io = "idle"
    /\ todo = {}
    /\ report = NoReport
    /\ created = 0 /\ reports = 0
    /\ retired = <<>>

Free(t) == destroying[t] = None
IoFree == io = "idle" /\ Free("io")
WorkerFree == worker = "idle" /\ Free("worker")

-----------------------------------------------------------------------------
(* The life of a SessionMetrics object *)

CreateSession ==
    /\ IoFree
    /\ created < MaxSessions
    /\ sessions_mutex = "free"
    /\ created' = created + 1
    /\ sessions' = sessions \cup {created + 1}
    /\ holders' = [holders EXCEPT ![created + 1] = {"session"}]
    /\ UNCHANGED <<destroying, sessions_mutex, closed, closed_count, closed_next, overwritten,
                   retired, counterVars, reportVars>>

\* Mutant of Drop: the object was never marked as tracked_.
DropUntracked(t, holder, s) ==
    /\ holders' = [holders EXCEPT ![s] = @ \ {holder}]
    /\ UNCHANGED destroying

\* Thread t lets go of a reference; the last one makes it run the destructor.
Drop(t, holder, s) ==
    /\ holders' = [holders EXCEPT ![s] = @ \ {holder}]
    /\ destroying' = IF holders[s] = {holder} THEN [destroying EXCEPT ![t] = s] ELSE destroying

\* The session's coroutine, writer and handlers are gone.
SessionEnds(s) ==
    /\ IoFree
    /\ "session" \in holders[s]
    /\ Drop("io", "session", s)
    /\ UNCHANGED <<sessions_mutex, ringVars, counterVars, reportVars, created>>

RetireSession(t) ==
    /\ ~Free(t)
    /\ sessions_mutex = "free"
    /\ sessions' = sessions \ {destroying[t]}
    /\ closed' = [closed EXCEPT ![closed_next] = destroying[t]]
    /\ closed_next' = (closed_next + 1) % Capacity
    /\ IF closed_count < Capacity
       THEN closed_count' = closed_count + 1 /\ UNCHANGED overwritten
       ELSE overwritten' = overwritten + 1 /\ UNCHANGED closed_count
    /\ retired' = Append(retired, destroying[t])
    /\ destroying' = [destroying EXCEPT ![t] = None]
    /\ UNCHANGED <<holders, sessions_mutex, counterVars, reportVars, created>>

-----------------------------------------------------------------------------
(* The Room worker *)

\* publish locks the endpoint of a session that is still registered ...
TakeRecipient(s) ==
    /\ WorkerFree
    /\ "session" \in holders[s]
    /\ "worker" \notin holders[s]
    /\ holders' = [holders EXCEPT ![s] = @ \cup {"worker"}]
    /\ UNCHANGED <<destroying, sessions_mutex, ringVars, counterVars, reportVars, created>>

\* ... and lets go of it when it returns.
DropRecipient(s) ==
    /\ WorkerFree
    /\ "worker" \in holders[s]
    /\ Drop("worker", "worker", s)
    /\ UNCHANGED <<sessions_mutex, ringVars, counterVars, reportVars, created>>

\* command_processed: the total first, a rejection with a second increment.
CommandProcessed ==
    /\ WorkerFree
    /\ processed < MaxCommands
    /\ processed' = processed + 1
    /\ worker' \in {"idle", "rejecting"}
    /\ UNCHANGED <<rejected, holders, destroying, sessions_mutex, ringVars, reportVars, created>>

CommandRejected ==
    /\ worker = "rejecting"
    /\ rejected' = rejected + 1
    /\ worker' = "idle"
    /\ UNCHANGED <<processed, holders, destroying, sessions_mutex, ringVars, reportVars, created>>

-----------------------------------------------------------------------------
(* snapshot() *)

\* The counters are loaded one after the other.
ReportLoadsProcessed ==
    /\ IoFree
    /\ reports < MaxReports
    /\ io' = "loading"
    /\ report' = [NoReport EXCEPT !.processed = processed]
    /\ UNCHANGED <<holders, destroying, sessions_mutex, ringVars, counterVars, todo, reports, created>>

ReportLoadsRejected ==
    /\ io = "loading"
    /\ io' = "locking"
    /\ report' = [report EXCEPT !.rejected = rejected]
    /\ UNCHANGED <<holders, destroying, sessions_mutex, ringVars, counterVars, todo, reports, created>>

ReportLocks ==
    /\ io = "locking"
    /\ sessions_mutex = "free"
    /\ sessions_mutex' = "io"
    /\ io' = "collecting"
    /\ todo' = sessions
    /\ UNCHANGED <<holders, destroying, ringVars, counterVars, report, reports, created>>

\* Mutant of ReportCollects: the session is noted without a strong reference.
ReportCollectsWeakly(s) ==
    /\ io = "collecting"
    /\ s \in todo
    /\ todo' = todo \ {s}
    /\ report' = IF holders[s] = {} THEN report ELSE [report EXCEPT !.live = @ \cup {s}]
    /\ UNCHANGED <<holders, io, destroying, sessions_mutex, ringVars, counterVars, reports, created>>

\* weak.lock() succeeds as long as somebody holds the session.
ReportCollects(s) ==
    /\ io = "collecting"
    /\ s \in todo
    /\ todo' = todo \ {s}
    /\ IF holders[s] = {}
       THEN UNCHANGED <<holders, report>>
       ELSE /\ holders' = [holders EXCEPT ![s] = @ \cup {"report"}]
            /\ report' = [report EXCEPT !.live = @ \cup {s}]
    /\ UNCHANGED <<io, destroying, sessions_mutex, ringVars, counterVars, reports, created>>

\* Mutant of RingFirst: the ring is taken for full.
RingFirstOfFull == closed_next

\* The index of the oldest entry.
RingFirst == (closed_next + Capacity - closed_count) % Capacity

Ring == [i \in 1..closed_count |-> closed[(RingFirst + i - 1) % Capacity]]

ReportUnlocks ==
    /\ io = "collecting"
    /\ todo = {}
    /\ report' = [report EXCEPT !.closed = Ring]
    /\ sessions_mutex' = "free"
    /\ io' = "reading"
    /\ UNCHANGED <<holders, destroying, ringVars, counterVars, todo, reports, created>>

\* The gauges of the collected sessions are loaded.
ReportReads ==
    /\ io = "reading"
    /\ io' = "releasing"
    /\ UNCHANGED <<holders, destroying, sessions_mutex, ringVars, counterVars, todo, report, reports, created>>

\* Mutant of MayRelease: the references go out of scope within the locked block.
MayReleaseLocked == io \in {"collecting", "releasing"} /\ Free("io")

\* The references are released at the end, outside the lock.
MayRelease == io = "releasing" /\ Free("io")

ReportReleases(s) ==
    /\ MayRelease
    /\ "report" \in holders[s]
    /\ Drop("io", "report", s)
    /\ UNCHANGED <<sessions_mutex, ringVars, counterVars, reportVars, created>>

ReportReturns ==
    /\ io = "releasing"
    /\ Free("io")
    /\ \A s \in Ids : "report" \notin holders[s]
    /\ io' = "idle"
    /\ reports' = reports + 1
    /\ report' = NoReport
    /\ UNCHANGED <<holders, destroying, sessions_mutex, ringVars, counterVars, todo, created>>

ReportStep ==
    \/ ReportLoadsProcessed \/ ReportLoadsRejected \/ ReportLocks \/ ReportUnlocks
    \/ ReportReads \/ ReportReturns
    \/ \E s \in Ids : ReportCollects(s) \/ ReportReleases(s)

-----------------------------------------------------------------------------

Finished ==
    /\ created = MaxSessions /\ processed = MaxCommands /\ reports = MaxReports
    /\ \A s \in Ids : holders[s] = {}
    /\ IoFree /\ WorkerFree
    /\ UNCHANGED vars

Next ==
    \/ CreateSession \/ CommandProcessed \/ CommandRejected \/ ReportStep
    \/ \E s \in Ids : SessionEnds(s) \/ TakeRecipient(s) \/ DropRecipient(s)
    \/ \E t \in Threads : RetireSession(t)
    \/ Finished

Spec == Init /\ [][Next]_vars

\* Both threads run: publish returns, a started report goes on, a mutex that is free
\* is acquired.
Fairness ==
    /\ \A s \in Ids : WF_vars(DropRecipient(s))
    /\ \A t \in Threads : WF_vars(RetireSession(t))
    /\ WF_vars(CommandRejected)
    /\ WF_vars(ReportStep)

FairSpec == Spec /\ Fairness

-----------------------------------------------------------------------------
(* Properties *)

\* No thread comes to a destructor that locks sessions_mutex_ while it holds it.
NoSelfDeadlock == \A t \in Threads : sessions_mutex = t => Free(t)

\* The ring, read from its oldest entry, is the sessions retired last, in order, and
\* overwritten counts those that fell out, before and after it wraps.
RingIsRecent ==
    /\ Ring = SubSeq(retired, Len(retired) - closed_count + 1, Len(retired))
    /\ overwritten + closed_count = Len(retired)
    /\ closed_count < Capacity => overwritten = 0

\* While snapshot() reads gauges, the sessions it reads are exactly those that exist:
\* none is destroyed under it, none is left out, and none is reported closed as well.
ReportIsPartition ==
    io = "reading" =>
       /\ report.live = {s \in Ids : holders[s] # {}}
       /\ report.live \cap Range(report.closed) = {}

\* A session that nobody but a publisher or a report refers to is retired, whichever
\* thread drops it last.
EndedIsRetired ==
    \A s \in Ids : (s \in sessions /\ "session" \notin holders[s]) ~> s \in Range(retired)
=============================================================================
