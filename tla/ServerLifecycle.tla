--------------------------- MODULE ServerLifecycle ---------------------------
(***************************************************************************)
(* main (src/src/main.cpp) around the io_context: the accept loop          *)
(* run_server, the metrics reporter with its steady_timer, the sessions as *)
(* coroutines that suspend and end, and the completion handler that        *)
(* cancels the timer when the accept loop is over.  The io_context serves  *)
(* its ready handlers in FIFO order, which decides whether the cancel finds*)
(* the timer still waiting; so the queue is part of the state.             *)
(***************************************************************************)
EXTENDS Naturals, Sequences, Functions

CONSTANT MaxSessions    \* bound: connections accepted in one run

ASSUME LifecycleAssumption == MaxSessions \in Nat

Sessions == 1..MaxSessions
Session(s) == <<"session", s>>
Handlers == {<<"reporter">>, <<"server">>, <<"accept">>, <<"timer">>}
               \cup {Session(s) : s \in Nat}

VARIABLES
    ready,              \* handlers the io_context has still to run, oldest first
    timer,              \* metrics_timer: idle, waiting, or its wait's result is queued
    reporter,           \* report_metrics; "absent" when metrics are disabled
    server,             \* run_server; "unwinding": failed before its first suspension
    accept_error,       \* result of the accept whose handler is queued
    live,               \* sessions whose coroutine has not ended
    next_session_id,
    server_failed,
    exit_code,          \* of main, once it has returned
    listening,          \* history: the acceptor was opened
    cancelled           \* history: "missed" if cancel() met an expired timer

sessionVars == <<live, next_session_id>>
mainVars == <<server_failed, exit_code>>
vars == <<ready, timer, reporter, server, accept_error, sessionVars, mainVars,
          listening, cancelled>>

Running == exit_code = "running"

\* main spawns the reporter, if there are metrics, before the accept loop.
Init ==
    /\ \/ ready = <<<<"reporter">>, <<"server">>>> /\ reporter = "spawned"
       \/ ready = <<<<"server">>>> /\ reporter = "absent"
    /\ timer = "idle"
    /\ server = "spawned"
    /\ accept_error = "none"
    /\ live = {}
    /\ next_session_id = 1
    /\ server_failed = FALSE
    /\ exit_code = "running"
    /\ listening = FALSE
    /\ cancelled = "no"

Queued(h) == h \in Range(ready)
Runs(h) == Running /\ ready # <<>> /\ Head(ready) = h

-----------------------------------------------------------------------------
(* report_metrics *)

ReporterStarts ==
    /\ Runs(<<"reporter">>)
    /\ ready' = Tail(ready)
    /\ timer' = "waiting"
    /\ reporter' = "waiting"
    /\ UNCHANGED <<server, accept_error, sessionVars, mainVars, listening, cancelled>>

\* The clock reaches the expiry; from here cancel() cannot take it back.
TimerExpires ==
    /\ Running
    /\ timer = "waiting"
    /\ timer' = "expired"
    /\ ready' = Append(ready, <<"timer">>)
    /\ UNCHANGED <<reporter, server, accept_error, sessionVars, mainVars, listening, cancelled>>

\* Mutant of ReporterResumes: the aborted wait is taken for an expired one.
ReporterIgnoresAbort ==
    /\ Runs(<<"timer">>)
    /\ ready' = Tail(ready)
    /\ timer' = "waiting"
    /\ UNCHANGED <<reporter, server, accept_error, sessionVars, mainVars, listening, cancelled>>

\* Mutant of ReporterResumes: the timer is armed once, before the loop.
ReporterDoesNotRearm ==
    /\ Runs(<<"timer">>)
    /\ ready' = Tail(ready)
    /\ timer' = "idle"
    /\ reporter' = IF timer = "aborted" THEN "done" ELSE reporter
    /\ UNCHANGED <<server, accept_error, sessionVars, mainVars, listening, cancelled>>

\* After an expired wait a snapshot is written and the timer armed again; an
\* aborted wait ends the coroutine.
ReporterResumes ==
    /\ Runs(<<"timer">>)
    /\ ready' = Tail(ready)
    /\ IF timer = "aborted"
       THEN timer' = "idle" /\ reporter' = "done"
       ELSE timer' = "waiting" /\ UNCHANGED reporter
    /\ UNCHANGED <<server, accept_error, sessionVars, mainVars, listening, cancelled>>

\* The wait, the snapshot or the output fails: the reporter ends by an exception
\* that its completion handler only reports.
ReporterThrows ==
    /\ Runs(<<"timer">>)
    /\ timer = "expired"
    /\ ready' = Tail(ready)
    /\ timer' = "idle"
    /\ reporter' = "done"
    /\ UNCHANGED <<server, accept_error, sessionVars, mainVars, listening, cancelled>>

-----------------------------------------------------------------------------
(* run_server and its completion handler *)

\* cancel() queues the aborted wait, if the timer is still waiting.
ServerCompletes(failed) ==
    /\ server' = "done"
    /\ server_failed' = failed
    /\ IF timer = "waiting"
       THEN timer' = "aborted" /\ ready' = Append(Tail(ready), <<"timer">>)
       ELSE ready' = Tail(ready) /\ UNCHANGED timer
    /\ cancelled' = IF timer = "expired" THEN "missed" ELSE "hit"

\* The acceptor is bound, or the port is taken and its constructor throws.  A
\* coroutine that has not suspended yet is completed through the queue.
ServerStarts ==
    /\ Runs(<<"server">>)
    /\ server = "spawned"
    /\ \/ /\ server' = "accepting"
          /\ listening' = TRUE
          /\ ready' = Tail(ready)
       \/ /\ server' = "unwinding"
          /\ ready' = Append(Tail(ready), <<"server">>)
          /\ UNCHANGED listening
    /\ UNCHANGED <<timer, reporter, accept_error, sessionVars, mainVars, cancelled>>

ServerFailsToStart ==
    /\ Runs(<<"server">>)
    /\ server = "unwinding"
    /\ ServerCompletes(TRUE)
    /\ UNCHANGED <<reporter, accept_error, sessionVars, exit_code, listening>>

\* A connection, an aborted or a failed accept.
AcceptCompletes ==
    /\ Running
    /\ server = "accepting"
    /\ ~Queued(<<"accept">>)
    /\ accept_error' \in {"none", "aborted", "failed"}
    /\ accept_error' = "none" => next_session_id <= MaxSessions
    /\ ready' = Append(ready, <<"accept">>)
    /\ UNCHANGED <<timer, reporter, server, sessionVars, mainVars, listening, cancelled>>

ServerAccepts ==
    /\ Runs(<<"accept">>)
    /\ accept_error = "none"
    /\ ready' = Append(Tail(ready), Session(next_session_id))
    /\ live' = live \cup {next_session_id}
    /\ next_session_id' = next_session_id + 1
    /\ UNCHANGED <<timer, reporter, server, accept_error, mainVars, listening, cancelled>>

\* The coroutine was suspended before, so its completion handler runs at once.
ServerStops ==
    /\ Runs(<<"accept">>)
    /\ accept_error # "none"
    /\ ServerCompletes(accept_error = "failed")
    /\ UNCHANGED <<reporter, accept_error, sessionVars, exit_code, listening>>

-----------------------------------------------------------------------------
(* The sessions and the end of main *)

\* Something a suspended session waits for has happened.
SessionIsReady(s) ==
    /\ Running
    /\ s \in live
    /\ ~Queued(Session(s))
    /\ ready' = Append(ready, Session(s))
    /\ UNCHANGED <<timer, reporter, server, accept_error, sessionVars, mainVars,
                   listening, cancelled>>

\* A session runs until it suspends again or ends, with or without an exception;
\* report_session_completion touches nothing else.
SessionRuns(s) ==
    /\ Runs(Session(s))
    /\ ready' = Tail(ready)
    /\ live' \in {live, live \ {s}}
    /\ UNCHANGED <<timer, reporter, server, accept_error, next_session_id, mainVars,
                   listening, cancelled>>

\* Mutant of ContextIdle: a waiting timer is not counted as work.
IdleWithTimer == ready = <<>> /\ server = "done" /\ live = {}

\* run() returns when no handler is queued and no operation is outstanding.
ContextIdle == ready = <<>> /\ server = "done" /\ live = {} /\ timer # "waiting"

MainReturns ==
    /\ Running
    /\ ContextIdle
    /\ exit_code' = IF server_failed THEN "failure" ELSE "success"
    /\ UNCHANGED <<ready, timer, reporter, server, accept_error, sessionVars, server_failed,
                   listening, cancelled>>

RunHandler ==
    \/ ReporterStarts
    \/ ReporterResumes
    \/ ReporterThrows
    \/ ServerStarts
    \/ ServerFailsToStart
    \/ ServerAccepts
    \/ ServerStops
    \/ \E s \in Sessions : SessionRuns(s)

Next ==
    \/ RunHandler
    \/ TimerExpires
    \/ AcceptCompletes
    \/ \E s \in Sessions : SessionIsReady(s)
    \/ MainReturns

Spec == Init /\ [][Next]_vars

\* The event loop runs and the clock goes on; clients, the port and the acceptor
\* promise nothing.
Fairness == WF_vars(RunHandler) /\ WF_vars(TimerExpires) /\ WF_vars(MainReturns)

FairSpec == Spec /\ Fairness

-----------------------------------------------------------------------------
(* Properties *)

\* When main returns, no coroutine is left half-way in the destroyed io_context: the
\* reporter has ended too, and the exit code reports a server that failed.
NothingCutOff ==
    ~Running => /\ reporter \in {"absent", "done"}
                /\ live = {}
                /\ (exit_code = "failure") = (server_failed \/ ~listening)

\* If the completion handler of run_server finds the timer waiting (or there is no
\* reporter), nothing but sessions keeps the process: without any, main returns.
ProcessEndsAfterCancel ==
    (server = "done" /\ cancelled = "hit" /\ live = {}) ~> ~Running

\* While the server accepts, reports go on until the reporter itself fails: sessions
\* and accepts cannot starve it, and no interleaving leaves it without a timer.
ReportsGoOn ==
    (reporter = "waiting" /\ server # "done")
       ~> (Runs(<<"timer">>) \/ server = "done")

\* docs/server-metrics.md: when the server fails to start because its port is in use,
\* the reporter ends as well.
StartFailureEndsReporter ==
    (server = "done" /\ ~listening) ~> reporter \in {"absent", "done"}
=============================================================================
