----------------------- MODULE ServerLifecycleProofs -----------------------
(***************************************************************************)
(* main does not return before the reporter and the sessions have ended,   *)
(* for any number of connections.                                          *)
(***************************************************************************)
EXTENDS ServerLifecycle, SequenceTheorems, TLAPS

\* The inductive invariant.  A reporter that has not ended is in the queue, or its timer
\* is, or the timer waits and keeps run() from returning; an accept needs a listening
\* socket, and only a failed server ends without one.
LifecycleInv ==
    /\ ready \in Seq(Handlers)
    /\ next_session_id \in Nat
    /\ server_failed \in BOOLEAN
    /\ reporter \in {"absent", "spawned", "waiting", "done"}
    /\ reporter = "spawned" => Queued(<<"reporter">>)
    /\ reporter = "waiting" => timer = "waiting" \/ Queued(<<"timer">>)
    /\ server = "accepting" \/ Queued(<<"accept">>) => listening
    /\ server = "done" => server_failed \/ listening
    /\ NothingCutOff

-----------------------------------------------------------------------------
(* The queue of ready handlers *)

\* A handler that is queued stays queued when another one is run or added.
LEMMA QueueKeeps ==
    ASSUME NEW q \in Seq(Handlers), NEW h \in Handlers
    PROVE  /\ Append(q, h) \in Seq(Handlers)
           /\ \A g : g \in Range(Append(q, h)) <=> g \in Range(q) \/ g = h
           /\ q # <<>> => /\ Tail(q) \in Seq(Handlers)
                          /\ \A g : g \in Range(q) <=> g \in Range(Tail(q)) \/ g = Head(q)
<1>1. \A f, g : g \in Range(f) <=> \E i \in DOMAIN f : g = f[i]
  BY Zenon DEF Range
<1>2. /\ Append(q, h) \in Seq(Handlers)
      /\ \A g : g \in Range(Append(q, h)) <=> g \in Range(q) \/ g = h
  <2>1. /\ Append(q, h) \in Seq(Handlers) /\ Len(q) \in Nat
        /\ DOMAIN Append(q, h) = 1..(Len(q) + 1) /\ DOMAIN q = 1..Len(q)
        /\ \A i \in 1..Len(q) : Append(q, h)[i] = q[i]
        /\ Append(q, h)[Len(q) + 1] = h
    OBVIOUS
  <2>2. /\ \A i \in 1..(Len(q) + 1) : i \in 1..Len(q) \/ i = Len(q) + 1
        /\ \A i \in 1..Len(q) : i \in 1..(Len(q) + 1)
        /\ Len(q) + 1 \in 1..(Len(q) + 1)
    BY <2>1
  <2>3. ASSUME NEW g, g \in Range(Append(q, h)) PROVE g \in Range(q) \/ g = h
    <3>1. PICK i \in 1..(Len(q) + 1) : g = Append(q, h)[i]
      BY <2>1, <2>3 DEF Range
    <3> QED
      BY <1>1, <2>1, <2>2, <3>1, Zenon
  <2>4. ASSUME NEW g, g \in Range(q) PROVE g \in Range(Append(q, h))
    <3>1. PICK i \in 1..Len(q) : g = q[i]
      BY <2>1, <2>4 DEF Range
    <3>2. i \in DOMAIN Append(q, h) /\ g = Append(q, h)[i]
      BY <2>1, <2>2, <3>1, Zenon
    <3> QED
      BY <1>1, <3>2, Zenon
  <2>5. h \in Range(Append(q, h))
    BY <1>1, <2>1, <2>2, Zenon
  <2> QED
    BY <2>1, <2>3, <2>4, <2>5, Zenon
<1>3. ASSUME q # <<>>
      PROVE  /\ Tail(q) \in Seq(Handlers)
             /\ \A g : g \in Range(q) <=> g \in Range(Tail(q)) \/ g = Head(q)
  <2>1. /\ Tail(q) \in Seq(Handlers) /\ Len(q) \in Nat \ {0} /\ Head(q) = q[1]
        /\ DOMAIN Tail(q) = 1..(Len(q) - 1) /\ DOMAIN q = 1..Len(q)
        /\ \A i \in 1..(Len(q) - 1) : Tail(q)[i] = q[i + 1]
    BY <1>3
  <2>2. /\ \A i \in 1..(Len(q) - 1) : i + 1 \in 1..Len(q)
        /\ \A i \in 1..Len(q) : i = 1 \/ (i - 1 \in 1..(Len(q) - 1) /\ (i - 1) + 1 = i)
        /\ 1 \in 1..Len(q)
    BY <2>1
  <2>3. ASSUME NEW g, g \in Range(q) PROVE g \in Range(Tail(q)) \/ g = Head(q)
    <3>1. PICK i \in 1..Len(q) : g = q[i]
      BY <2>1, <2>3 DEF Range
    <3>2. CASE i # 1
      <4>1. i - 1 \in DOMAIN Tail(q) /\ g = Tail(q)[i - 1]
        <5>1. i - 1 \in 1..(Len(q) - 1) /\ (i - 1) + 1 = i
          BY <2>2, <3>1, <3>2, Zenon
        <5>2. Tail(q)[i - 1] = q[(i - 1) + 1]
          BY <2>1, <5>1, Zenon
        <5> QED
          BY <2>1, <3>1, <5>1, <5>2, Zenon
      <4> QED
        BY <1>1, <4>1, Zenon
    <3> QED
      BY <2>1, <3>1, <3>2, Zenon
  <2>4. ASSUME NEW g, g \in Range(Tail(q)) PROVE g \in Range(q)
    <3>1. PICK i \in 1..(Len(q) - 1) : g = Tail(q)[i]
      BY <2>1, <2>4 DEF Range
    <3>2. i + 1 \in DOMAIN q /\ g = q[i + 1]
      BY <2>1, <2>2, <3>1, Zenon
    <3> QED
      BY <1>1, <3>2, Zenon
  <2>5. Head(q) \in Range(q)
    BY <1>1, <2>1, <2>2, Zenon
  <2> QED
    BY <2>1, <2>3, <2>4, <2>5, Zenon
<1> QED
  BY <1>2, <1>3, Zenon

\* Handlers of different coroutines are different.
LEMMA HandlersDiffer ==
    /\ <<"reporter">> \in Handlers /\ <<"server">> \in Handlers
    /\ <<"accept">> \in Handlers /\ <<"timer">> \in Handlers
    /\ \A s \in Nat : Session(s) \in Handlers
    /\ <<"reporter">> # <<"server">> /\ <<"reporter">> # <<"accept">> /\ <<"reporter">> # <<"timer">>
    /\ <<"server">> # <<"accept">> /\ <<"server">> # <<"timer">> /\ <<"accept">> # <<"timer">>
    /\ \A s : /\ Session(s) # <<"reporter">> /\ Session(s) # <<"accept">>
              /\ Session(s) # <<"timer">>
  BY DEF Handlers, Session

\* What a step does to the queue: it may take the first handler off, and may add one.
LEMMA QueueStep ==
    ASSUME ready \in Seq(Handlers), NEW h \in Handlers,
           \/ ready' = Append(ready, h)
           \/ ready # <<>> /\ ready' \in {Tail(ready), Append(Tail(ready), h)}
    PROVE  /\ ready' \in Seq(Handlers)
           /\ \A g : Queued(g)' => Queued(g) \/ g = h
           /\ \A g : Queued(g) => Queued(g)' \/ (ready # <<>> /\ g = Head(ready))
<1>1. CASE ready' = Append(ready, h)
  BY <1>1, QueueKeeps, Zenon DEF Queued
<1>2. CASE ready # <<>> /\ ready' = Tail(ready)
  BY <1>2, QueueKeeps, Zenon DEF Queued
<1>3. CASE ready # <<>> /\ ready' = Append(Tail(ready), h)
  <2>1. /\ Tail(ready) \in Seq(Handlers)
        /\ \A g : g \in Range(ready) <=> g \in Range(Tail(ready)) \/ g = Head(ready)
    BY <1>3, QueueKeeps, Zenon
  <2>2. /\ Append(Tail(ready), h) \in Seq(Handlers)
        /\ \A g : g \in Range(Append(Tail(ready), h)) <=> g \in Range(Tail(ready)) \/ g = h
    BY <2>1, QueueKeeps, Zenon
  <2> QED
    BY <1>3, <2>1, <2>2, Zenon DEF Queued
<1> QED
  BY <1>1, <1>2, <1>3

-----------------------------------------------------------------------------
(* The steps *)

\* main has spawned its coroutines.
LEMMA LifecycleInitial == Init => LifecycleInv
<1> SUFFICES ASSUME Init PROVE LifecycleInv
  OBVIOUS
<1>1. /\ next_session_id \in Nat /\ server_failed \in BOOLEAN /\ server = "spawned" /\ Running
      /\ reporter \in {"absent", "spawned"}
  BY Zenon DEF Init, Running
<1>2. ready \in Seq(Handlers) /\ ~Queued(<<"accept">>)
      /\ (reporter = "spawned" => Queued(<<"reporter">>))
  <2>1. CASE ready = <<<<"reporter">>, <<"server">>>>
    <3>1. DOMAIN ready = {1, 2} /\ ready[1] = <<"reporter">> /\ ready[2] = <<"server">>
      BY <2>1
    <3>2. ready \in Seq(Handlers)
      BY <2>1, HandlersDiffer
    <3> QED
      BY <3>1, <3>2, HandlersDiffer, Zenon DEF Queued, Range
  <2>2. CASE ready = <<<<"server">>>> /\ reporter = "absent"
    <3>1. DOMAIN ready = {1} /\ ready[1] = <<"server">>
      BY <2>2
    <3>2. ready \in Seq(Handlers)
      BY <2>2, HandlersDiffer
    <3> QED
      BY <2>2, <3>1, <3>2, HandlersDiffer, Zenon DEF Queued, Range
  <2> QED
    BY <2>1, <2>2, Zenon DEF Init
<1> QED
  BY <1>1, <1>2 DEF LifecycleInv, NothingCutOff

\* The reporter's handlers arm its timer or end it; those of others leave them queued.
LEMMA ReporterKeeps ==
    ASSUME LifecycleInv,
           ReporterStarts \/ ReporterResumes \/ ReporterThrows \/ TimerExpires
    PROVE  LifecycleInv'
<1>1. Running /\ ready \in Seq(Handlers)
  BY DEF LifecycleInv, ReporterStarts, ReporterResumes, ReporterThrows, TimerExpires, Runs
<1>2. UNCHANGED <<server, next_session_id, live, server_failed, exit_code, listening>>
  BY DEF ReporterStarts, ReporterResumes, ReporterThrows, TimerExpires, sessionVars, mainVars
<1>3. /\ ready' \in Seq(Handlers)
      /\ \A g : Queued(g)' => Queued(g) \/ g = <<"timer">>
      /\ \A g : Queued(g) => Queued(g)' \/ (ready # <<>> /\ g = Head(ready))
  <2>1. \/ ready' = Append(ready, <<"timer">>)
        \/ ready # <<>> /\ ready' \in {Tail(ready), Append(Tail(ready), <<"timer">>)}
    BY DEF ReporterStarts, ReporterResumes, ReporterThrows, TimerExpires, Runs
  <2> QED
    BY <1>1, <2>1, HandlersDiffer, QueueStep, Zenon
<1>4. /\ reporter' \in {"absent", "spawned", "waiting", "done"}
      /\ reporter' = "spawned" => Queued(<<"reporter">>)'
      /\ reporter' = "waiting" => timer' = "waiting" \/ Queued(<<"timer">>)'
  <2>1. CASE ReporterStarts
    BY <2>1 DEF ReporterStarts
  <2>2. CASE ReporterThrows
    BY <2>2 DEF ReporterThrows
  <2>3. CASE ReporterResumes
    <3>1. Head(ready) = <<"timer">> /\ (reporter' = "done" \/ (reporter' = reporter /\ timer' = "waiting"))
      BY <2>3 DEF ReporterResumes, Runs
    <3>2. Queued(<<"reporter">>) => Queued(<<"reporter">>)'
      BY <1>3, <3>1, HandlersDiffer, Zenon
    <3> QED
      BY <3>1, <3>2 DEF LifecycleInv
  <2>4. CASE TimerExpires
    <3>1. reporter' = reporter /\ ready' = Append(ready, <<"timer">>)
      BY <2>4 DEF TimerExpires
    <3>2. Queued(<<"timer">>)' /\ (Queued(<<"reporter">>) => Queued(<<"reporter">>)')
      BY <1>1, <3>1, QueueKeeps, HandlersDiffer, Zenon DEF Queued
    <3> QED
      BY <3>1, <3>2, Zenon DEF LifecycleInv
  <2> QED
    BY <2>1, <2>2, <2>3, <2>4
<1>5. Queued(<<"accept">>)' => Queued(<<"accept">>)
  BY <1>3, HandlersDiffer, Zenon
<1> QED
  BY <1>1, <1>2, <1>3, <1>4, <1>5, Zenon DEF LifecycleInv, NothingCutOff, Running

\* A step of the accept loop or of a session leaves the reporter's handlers queued; it
\* may add a handler h, and cancel() queues the wait that it aborts.
LEMMA OthersKeep ==
    ASSUME LifecycleInv, Running, UNCHANGED <<reporter, exit_code>>, NEW h \in Handlers,
           \/ ready' = Append(ready, h)
           \/ /\ ready # <<>> /\ ready' \in {Tail(ready), Append(Tail(ready), h)}
              /\ Head(ready) # <<"reporter">> /\ Head(ready) # <<"timer">>,
           timer' = timer \/ (ready # <<>> /\ ready' = Append(Tail(ready), <<"timer">>)),
           next_session_id' \in Nat, server_failed' \in BOOLEAN,
           listening => listening', server' = "accepting" \/ h = <<"accept">> => listening',
           server' = "done" => server_failed' \/ listening'
    PROVE  LifecycleInv'
<1>1. ready \in Seq(Handlers)
  BY DEF LifecycleInv
<1>2. /\ ready' \in Seq(Handlers)
      /\ \A g : Queued(g)' => Queued(g) \/ g = h
      /\ \A g : Queued(g) => Queued(g)' \/ (ready # <<>> /\ g = Head(ready))
  BY <1>1, QueueStep, Zenon
<1>3. Queued(<<"reporter">>) => Queued(<<"reporter">>)'
  <2>1. CASE ready' = Append(ready, h)
    BY <1>1, <2>1, QueueKeeps, Zenon DEF Queued
  <2> QED
    BY <1>2, <2>1, Zenon
<1>4. timer = "waiting" \/ Queued(<<"timer">>) => timer' = "waiting" \/ Queued(<<"timer">>)'
  <2>1. CASE ready # <<>> /\ ready' = Append(Tail(ready), <<"timer">>)
    <3>1. Tail(ready) \in Seq(Handlers)
      BY <1>1, <2>1
    <3> QED
      BY <2>1, <3>1, QueueKeeps, HandlersDiffer, Zenon DEF Queued
  <2>2. CASE timer' = timer
    <3>1. CASE ready' = Append(ready, h)
      BY <1>1, <2>2, <3>1, QueueKeeps, Zenon DEF Queued
    <3> QED
      BY <1>2, <2>2, <3>1, Zenon
  <2> QED
    BY <2>1, <2>2
<1>5. server' = "accepting" \/ Queued(<<"accept">>)' => listening'
  BY <1>2, Zenon DEF LifecycleInv
<1> QED
  BY <1>2, <1>3, <1>4, <1>5, Zenon DEF LifecycleInv, NothingCutOff, Running

\* Every step of the io_context and of main keeps the invariant.
LEMMA LifecycleInductive == LifecycleInv /\ [Next]_vars => LifecycleInv'
<1> SUFFICES ASSUME LifecycleInv, [Next]_vars PROVE LifecycleInv'
  OBVIOUS
<1>1. /\ next_session_id \in Nat /\ server_failed \in BOOLEAN
      /\ server = "accepting" \/ Queued(<<"accept">>) => listening
      /\ server = "done" => server_failed \/ listening
  BY Zenon DEF LifecycleInv
<1>2. /\ <<"server">> \in Handlers /\ <<"timer">> \in Handlers /\ <<"accept">> \in Handlers
      /\ \A s \in Nat : Session(s) \in Handlers
      /\ <<"server">> # <<"reporter">> /\ <<"server">> # <<"timer">> /\ <<"server">> # <<"accept">>
      /\ <<"accept">> # <<"reporter">> /\ <<"accept">> # <<"timer">>
      /\ \A s : /\ Session(s) # <<"reporter">> /\ Session(s) # <<"timer">>
                /\ Session(s) # <<"accept">>
  BY HandlersDiffer, Zenon
<1>3. CASE ReporterStarts \/ ReporterResumes \/ ReporterThrows \/ TimerExpires
  BY <1>3, ReporterKeeps
<1>4. CASE ServerStarts
  <2>1. /\ Running /\ ready # <<>> /\ Head(ready) = <<"server">>
        /\ ready' \in {Tail(ready), Append(Tail(ready), <<"server">>)}
        /\ (server' = "accepting" /\ listening' = TRUE) \/ (server' = "unwinding" /\ listening' = listening)
        /\ UNCHANGED <<timer, reporter, next_session_id, server_failed, exit_code>>
    BY <1>4 DEF ServerStarts, Runs, sessionVars, mainVars
  <2>2. server' # "done" /\ (listening => listening') /\ (server' = "accepting" => listening')
    BY <2>1
  <2> QED
    BY <1>1, <1>2, <2>1, <2>2, OthersKeep, Zenon
<1>5. CASE ServerFailsToStart \/ ServerStops
  <2>1. /\ Running /\ ready # <<>> /\ Head(ready) \in {<<"server">>, <<"accept">>}
        /\ ready' \in {Tail(ready), Append(Tail(ready), <<"timer">>)}
        /\ timer' = timer \/ ready' = Append(Tail(ready), <<"timer">>)
        /\ server' = "done" /\ server_failed' \in BOOLEAN
        /\ UNCHANGED <<reporter, next_session_id, exit_code, listening>>
    BY <1>5, Zenon DEF ServerFailsToStart, ServerStops, ServerCompletes, Runs, sessionVars
  <2>2. server_failed' \/ listening'
    <3>1. CASE ServerFailsToStart
      BY <3>1 DEF ServerFailsToStart, ServerCompletes
    <3>2. CASE ServerStops
      <4>1. Head(ready) = <<"accept">> /\ ready \in Seq(Handlers)
        BY <3>2 DEF ServerStops, Runs, LifecycleInv
      <4>2. Queued(<<"accept">>)
        BY <1>2, <2>1, <4>1, QueueKeeps, Zenon DEF Queued
      <4> QED
        BY <1>1, <2>1, <4>2, Zenon
    <3> QED
      BY <1>5, <3>1, <3>2
  <2>3. server' # "accepting"
    BY <2>1
  <2>4. Head(ready) # <<"reporter">> /\ Head(ready) # <<"timer">>
    BY <1>2, <2>1, Zenon
  <2> QED
    BY <1>1, <1>2, <2>1, <2>2, <2>3, <2>4, OthersKeep, Zenon
<1>6. CASE AcceptCompletes
  <2>1. /\ Running /\ server = "accepting" /\ ready' = Append(ready, <<"accept">>)
        /\ UNCHANGED <<timer, reporter, server, next_session_id, server_failed, exit_code, listening>>
    BY <1>6 DEF AcceptCompletes, sessionVars, mainVars
  <2> QED
    BY <1>1, <1>2, <2>1, OthersKeep, Zenon
<1>7. CASE ServerAccepts
  <2>1. /\ Running /\ ready # <<>> /\ Head(ready) = <<"accept">>
        /\ ready' = Append(Tail(ready), Session(next_session_id))
        /\ next_session_id' \in Nat
        /\ UNCHANGED <<timer, reporter, server, server_failed, exit_code, listening>>
    BY <1>1, <1>7 DEF ServerAccepts, Runs, mainVars
  <2>2. ready' \in {Tail(ready), Append(Tail(ready), Session(next_session_id))}
    BY <2>1
  <2> QED
    BY <1>1, <1>2, <2>1, <2>2, OthersKeep, Zenon
<1>8. ASSUME NEW s \in Sessions, SessionIsReady(s) \/ SessionRuns(s) PROVE LifecycleInv'
  <2>1. s \in Nat
    BY DEF Sessions
  <2>2. /\ Running
        /\ \/ ready' = Append(ready, Session(s))
           \/ ready # <<>> /\ Head(ready) = Session(s) /\ ready' = Tail(ready)
        /\ UNCHANGED <<timer, reporter, server, next_session_id, server_failed, exit_code, listening>>
    BY <1>8, Zenon DEF SessionIsReady, SessionRuns, Runs, sessionVars, mainVars
  <2>3. \/ ready' = Append(ready, Session(s))
        \/ /\ ready # <<>> /\ ready' \in {Tail(ready), Append(Tail(ready), Session(s))}
           /\ Head(ready) # <<"reporter">> /\ Head(ready) # <<"timer">>
    BY <1>2, <2>2, Zenon
  <2> QED
    BY <1>1, <1>2, <2>1, <2>2, <2>3, OthersKeep, Zenon
<1>9. CASE MainReturns
  <2>1. /\ Running /\ ready = <<>> /\ server = "done" /\ live = {} /\ timer # "waiting"
        /\ exit_code' = IF server_failed THEN "failure" ELSE "success"
        /\ UNCHANGED <<ready, timer, reporter, server, next_session_id, live, server_failed, listening>>
    BY <1>9 DEF MainReturns, ContextIdle, sessionVars
  <2>2. \A g : ~Queued(g)
    BY <2>1 DEF Queued, Range
  <2>3. reporter \in {"absent", "done"}
    BY <2>1, <2>2 DEF LifecycleInv
  <2>4. (exit_code' = "failure") = (server_failed \/ ~listening)
    BY <1>1, <2>1
  <2>5. NothingCutOff'
    BY <2>1, <2>3, <2>4 DEF NothingCutOff
  <2> QED
    BY <2>1, <2>5, Zenon DEF LifecycleInv, Queued
<1>10. CASE UNCHANGED vars
  BY <1>10, Zenon DEF vars, sessionVars, mainVars, LifecycleInv, NothingCutOff, Queued, Running
<1> QED
  BY <1>3, <1>4, <1>5, <1>6, <1>7, <1>8, <1>9, <1>10, Zenon DEF Next, RunHandler

\* When io_context::run() returns to main, the reporter and all sessions have ended, and
\* the exit code says whether the server failed, for any number of connections.
THEOREM MainEndsLast == Spec => []NothingCutOff
<1>1. LifecycleInv => NothingCutOff
  BY DEF LifecycleInv
<1> QED
  BY <1>1, LifecycleInitial, LifecycleInductive, PTL DEF Spec
=============================================================================
