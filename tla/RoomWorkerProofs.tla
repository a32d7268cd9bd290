-------------------------- MODULE RoomWorkerProofs --------------------------
(***************************************************************************)
(* Machine-checked proofs about RoomWorker, for any number of submitting   *)
(* threads, sessions, positions and commands: no wakeup is lost, the Room  *)
(* is the replay of the accepted commands, the summary is final, and every *)
(* step is a step of RoomService.                                          *)
(***************************************************************************)
EXTENDS RoomWorker, FiniteSetTheorems, SequenceTheorems, WellFoundedInduction, TLAPS

(***************************************************************************)
(* Induction over the naturals, in the form of a set that contains 0 and   *)
(* is closed under successor                                               *)
(***************************************************************************)

\* Every non-empty set of naturals has a least element.
LEMMA LeastNumber ==
    ASSUME NEW T, T \subseteq Nat, T # {}
    PROVE  \E x \in T : \A y \in T : x <= y
<1>1. PICK x \in T : \A y \in T : ~ (<<y, x>> \in OpToRel(<, Nat))
  BY NatLessThanWellFounded, WFMin, Zenon
<1>2. \A y \in T : <<y, x>> \in Nat \X Nat /\ <<y, x>>[1] = y /\ <<y, x>>[2] = x
  OBVIOUS
<1>3. \A y \in T : ~ (y < x)
  BY <1>1, <1>2, Zenon DEF OpToRel
<1> QED
  BY <1>3

\* A set with 0 and the successor of each of its naturals holds all naturals.
LEMMA AllNaturals ==
    ASSUME NEW S, 0 \in S, \A n \in Nat : n \in S => n + 1 \in S
    PROVE  Nat \subseteq S
<1> SUFFICES ASSUME Nat \ S # {} PROVE FALSE
  OBVIOUS
<1>1. PICK x \in Nat \ S : \A y \in Nat \ S : x <= y
  BY LeastNumber, Zenon
<1>2. x # 0 /\ x - 1 \in Nat /\ (x - 1) + 1 = x /\ ~(x <= x - 1)
  BY <1>1
<1>3. x - 1 \in S
  BY <1>1, <1>2
<1> QED
  BY <1>1, <1>2, <1>3

(***************************************************************************)
(* The replay of a sequence of commands                                    *)
(***************************************************************************)

\* The equation that defines the Room after each prefix of the commands.
LEMMA RoomsAfterDef ==
    ASSUME NEW commands \in Seq(RoomCommands)
    PROVE  RoomsAfter(commands) =
               [i \in 0..Len(commands) |->
                    IF i = 0 THEN EmptyRoom
                    ELSE Apply(RoomsAfter(commands)[i - 1], commands[i])]
<1> DEFINE IsRun(n, f) == f = [i \in 0..n |-> IF i = 0 THEN EmptyRoom
                                              ELSE Apply(f[i - 1], commands[i])]
           S == {n \in Nat : \E f : IsRun(n, f)}
<1>1. 0 \in S
  <2>1. IsRun(0, [i \in 0..0 |-> EmptyRoom])
    OBVIOUS
  <2> QED
    BY <2>1, Zenon
<1>2. ASSUME NEW n \in Nat, n \in S PROVE n + 1 \in S
  <2>1. PICK f : IsRun(n, f)
    BY <1>2
  <2> HIDE DEF IsRun
  <2> DEFINE g == [i \in 0..(n + 1) |-> IF i = n + 1 THEN Apply(f[n], commands[n + 1])
                                        ELSE f[i]]
  <2>2. \A i \in 0..n : f[i] = IF i = 0 THEN EmptyRoom ELSE Apply(f[i - 1], commands[i])
    BY <2>1, Zenon DEF IsRun
  <2>3. ASSUME NEW i \in 0..(n + 1)
        PROVE  g[i] = IF i = 0 THEN EmptyRoom ELSE Apply(g[i - 1], commands[i])
    <3>1. CASE i = 0
      BY <3>1, <2>2
    <3>2. CASE i # 0
      <4>1. i - 1 \in 0..n /\ g[i - 1] = f[i - 1]
        BY <3>2
      <4>2. CASE i = n + 1
        BY <4>1, <4>2, <3>2
      <4>3. CASE i # n + 1
        BY <4>1, <4>3, <3>2, <2>2
      <4> QED
        BY <4>2, <4>3
    <3> QED
      BY <3>1, <3>2
  <2>4. IsRun(n + 1, g)
    BY <2>3 DEF IsRun
  <2> QED
    BY <2>4
<1>3. \E f : IsRun(Len(commands), f)
  <2>1. Nat \subseteq S
    <3> HIDE DEF S
    <3> QED
      BY <1>1, <1>2, AllNaturals
  <2>2. Len(commands) \in Nat
    OBVIOUS
  <2> QED
    BY <2>1, <2>2
<1>4. RoomsAfter(commands) = CHOOSE f : IsRun(Len(commands), f)
  BY DEF RoomsAfter
<1>5. IsRun(Len(commands), RoomsAfter(commands))
  <2> HIDE DEF IsRun
  <2> QED
    BY <1>3, <1>4
<1> QED
  BY <1>5

\* Accepting another command leaves the Room after each earlier prefix as it was.
LEMMA RoomsAfterAppend ==
    ASSUME NEW commands \in Seq(RoomCommands), NEW command \in RoomCommands
    PROVE  \A i \in 0..Len(commands) :
               RoomsAfter(Append(commands, command))[i] = RoomsAfter(commands)[i]
<1> DEFINE more == Append(commands, command)
           S == {n \in Nat : n <= Len(commands) => RoomsAfter(more)[n] = RoomsAfter(commands)[n]}
<1>1. /\ more \in Seq(RoomCommands)
      /\ Len(commands) \in Nat
      /\ Len(more) = Len(commands) + 1
      /\ \A i \in 1..Len(commands) : more[i] = commands[i]
  OBVIOUS
<1> HIDE DEF more
<1>2. \A i \in 0..Len(commands) :
          /\ RoomsAfter(commands)[i] = IF i = 0 THEN EmptyRoom
                                       ELSE Apply(RoomsAfter(commands)[i - 1], commands[i])
          /\ RoomsAfter(more)[i] = IF i = 0 THEN EmptyRoom
                                   ELSE Apply(RoomsAfter(more)[i - 1], more[i])
  <2>1. \A i \in 0..Len(commands) : i \in 0..Len(more)
    BY <1>1
  <2>2. /\ RoomsAfter(commands) = [i \in 0..Len(commands) |-> IF i = 0 THEN EmptyRoom
                                       ELSE Apply(RoomsAfter(commands)[i - 1], commands[i])]
        /\ RoomsAfter(more) = [i \in 0..Len(more) |-> IF i = 0 THEN EmptyRoom
                                   ELSE Apply(RoomsAfter(more)[i - 1], more[i])]
    BY <1>1, RoomsAfterDef, Zenon
  <2> QED
    BY <2>1, <2>2, Zenon
<1>3. 0 \in S
  BY <1>1, <1>2
<1>4. ASSUME NEW n \in Nat, n \in S PROVE n + 1 \in S
  <2>1. CASE n + 1 <= Len(commands)
    <3>1. n + 1 \in 0..Len(commands) /\ n + 1 \in 1..Len(commands) /\ n + 1 # 0
          /\ (n + 1) - 1 = n /\ n <= Len(commands)
      BY <2>1, <1>1
    <3> QED
      BY <3>1, <1>1, <1>2, <1>4
  <2> QED
    BY <2>1, <1>1
<1>5. Nat \subseteq S
  <2> HIDE DEF S
  <2> QED
    BY <1>3, <1>4, AllNaturals
<1> QED
  BY <1>5, <1>1 DEF more

(***************************************************************************)
(* The inductive invariant                                                 *)
(***************************************************************************)

TypeOK ==
    /\ values \in Seq(RoomCommands) /\ accepted \in Seq(RoomCommands)
    /\ closed \in BOOLEAN /\ stop_requested \in BOOLEAN
    /\ submitter \in [Submitters -> {"outside", "notify_one"}]
    /\ owner \in {"running", "notify_all", "request_stop", "join", "stopped"}
    /\ worker \in {"wait_pop", "waiting", "handle_event", "exited"}
    /\ players \in Rooms
    /\ processed \in Nat /\ rejected \in Nat /\ failures \in Nat

\* stop() has closed the queue and requested the stop by the time its steps say
\* so; a worker that has left run() found the closed queue empty, and only then
\* does stop() take the summary.
StopInv ==
    /\ closed <=> owner # "running"
    /\ stop_requested => closed
    /\ worker = "exited" => closed /\ values = <<>>
    /\ owner = "stopped" => worker = "exited" /\ summary = Summary
    /\ owner # "stopped" => summary = NoSummary

\* The queue holds what was accepted and not yet popped, in order.
QueueInv ==
    /\ Len(accepted) = processed + Len(values)
    /\ \A i \in 1..Len(values) : values[i] = accepted[processed + i]

\* The commands among the first n that the Room rejected.
RejectedBefore(n) == {i \in 1..n : ~Accepts(RoomsAfter(accepted)[i - 1], accepted[i])}

ReplayInv ==
    /\ players = RoomsAfter(accepted)[processed]
    /\ rejected = Cardinality(RejectedBefore(processed))

IInv == TypeOK /\ StopInv /\ QueueInv /\ ReplayInv /\ NoLostWakeup

-----------------------------------------------------------------------------

\* Room::apply keeps players_ a map from session ids to positions.
LEMMA ApplyType ==
    ASSUME NEW room \in Rooms, NEW command \in RoomCommands
    PROVE  Apply(room, command) \in Rooms
<1>1. /\ command.session_id \in SessionIds
      /\ command.type \in {"join", "move", "leave"}
      /\ command.type = "move" => command.destination \in Positions
  BY DEF RoomCommands
<1>2. PositionAfter(command) \in Positions \cup {Absent}
  BY <1>1, RoomAssumption DEF PositionAfter
<1> QED
  BY <1>1, <1>2 DEF Apply, Rooms

\* The first commands that were rejected are finitely many, and are counted one
\* at a time.
LEMMA RejectedCount ==
    ASSUME NEW n \in Nat
    PROVE  /\ IsFiniteSet(RejectedBefore(n))
           /\ Cardinality(RejectedBefore(n)) \in Nat
           /\ Cardinality(RejectedBefore(n + 1)) =
                 IF Accepts(RoomsAfter(accepted)[n], accepted[n + 1])
                 THEN Cardinality(RejectedBefore(n))
                 ELSE Cardinality(RejectedBefore(n)) + 1
<1>1. RejectedBefore(n) \in SUBSET (1..n)
  BY DEF RejectedBefore
<1>2. IsFiniteSet(RejectedBefore(n)) /\ Cardinality(RejectedBefore(n)) \in Nat
  BY <1>1, FS_Interval, FS_Subset, FS_CardinalityType, 1 \in Int, n \in Int, Zenon
<1>3. RejectedBefore(n + 1) = RejectedBefore(n) \cup
          (IF Accepts(RoomsAfter(accepted)[n], accepted[n + 1]) THEN {} ELSE {n + 1})
  BY (n + 1) - 1 = n, 1..(n + 1) = (1..n) \cup {n + 1} DEF RejectedBefore
<1>4. n + 1 \notin RejectedBefore(n)
  BY <1>1
<1> QED
  BY <1>2, <1>3, <1>4, FS_AddElement, Zenon

LEMMA InitInv == Init => IInv
<1> SUFFICES ASSUME Init PROVE IInv
  OBVIOUS
<1>1. TypeOK
  <2>1. EmptyRoom \in Rooms /\ <<>> \in Seq(RoomCommands) /\ 0 \in Nat
    BY DEF EmptyRoom, Rooms
  <2> QED
    BY <2>1, Zenon DEF Init, TypeOK
<1>2. StopInv /\ QueueInv /\ NoLostWakeup
  BY DEF Init, StopInv, QueueInv, NoLostWakeup
<1>3. ReplayInv
  <2>1. RoomsAfter(<<>>)[0] = EmptyRoom
    <3>1. <<>> \in Seq(RoomCommands) /\ Len(<<>>) = 0 /\ 0 \in 0..0
      OBVIOUS
    <3> QED
      BY <3>1, RoomsAfterDef, Zenon
  <2>2. RejectedBefore(0) = {}
    BY 1..0 = {} DEF RejectedBefore
  <2> QED
    BY <2>1, <2>2, FS_EmptySet, Zenon DEF Init, ReplayInv
<1> QED
  BY <1>1, <1>2, <1>3 DEF IInv

(***************************************************************************)
(* Each step keeps the invariant                                           *)
(***************************************************************************)

\* submit: the queue and the history grow by the same command.
LEMMA SubmitKeepsInv ==
    ASSUME IInv, NEW t \in Submitters, Submit(t)
    PROVE  IInv'
<1> USE DEF IInv
<1>1. CASE closed
  <2>1. UNCHANGED vars
    BY <1>1 DEF Submit, vars, queueVars
  <2> QED
    BY <2>1 DEF vars, queueVars, roomVars, TypeOK, StopInv, QueueInv, ReplayInv, RejectedBefore,
                NoLostWakeup, Summary
<1>2. CASE ~closed
  <2>1. PICK command \in RoomCommands :
            values' = Append(values, command) /\ accepted' = Append(accepted, command)
    BY <1>2, Zenon DEF Submit
  <2>2. /\ submitter' = [submitter EXCEPT ![t] = "notify_one"]
        /\ UNCHANGED <<closed, stop_requested, owner, worker, players, processed, rejected,
                       failures, summary>>
    BY <1>2 DEF Submit, roomVars
  <2>3. /\ values \in Seq(RoomCommands) /\ accepted \in Seq(RoomCommands)
        /\ processed \in Nat /\ Len(accepted) \in Nat /\ Len(values) \in Nat
        /\ Len(values') = Len(values) + 1 /\ Len(accepted') = Len(accepted) + 1
        /\ values' \in Seq(RoomCommands) /\ accepted' \in Seq(RoomCommands)
        /\ \A i \in 1..Len(values) : values'[i] = values[i]
        /\ \A i \in 1..Len(accepted) : accepted'[i] = accepted[i]
        /\ values'[Len(values) + 1] = command
        /\ accepted'[Len(accepted) + 1] = command
    BY <2>1 DEF TypeOK
  <2>4. TypeOK'
    BY <2>2, <2>3, Zenon DEF TypeOK
  <2>5. StopInv'
    BY <1>2, <2>2, Zenon DEF StopInv, Summary
  <2>6. QueueInv'
    <3>1. Len(accepted') = processed' + Len(values')
      BY <2>2, <2>3 DEF QueueInv
    <3>2. ASSUME NEW i \in 1..Len(values') PROVE values'[i] = accepted'[processed' + i]
      <4>1. CASE i \in 1..Len(values)
        <5>1. processed + i \in 1..Len(accepted)
          BY <4>1, <2>3, SMTT(30) DEF QueueInv
        <5> QED
          BY <4>1, <5>1, <2>2, <2>3 DEF QueueInv
      <4>2. CASE i \notin 1..Len(values)
        <5>1. i = Len(values) + 1 /\ processed + i = Len(accepted) + 1
          BY <4>2, <2>3 DEF QueueInv
        <5> QED
          BY <5>1, <2>2, <2>3, Zenon
      <4> QED
        BY <4>1, <4>2
    <3> QED
      BY <3>1, <3>2 DEF QueueInv
  <2>7. ReplayInv'
    <3>1. \A i \in 0..Len(accepted) : RoomsAfter(accepted')[i] = RoomsAfter(accepted)[i]
      BY <2>1, <2>3, RoomsAfterAppend
    <3>2. processed \in 0..Len(accepted)
      BY <2>3 DEF QueueInv
    <3>3. \A i \in 1..processed : i \in 1..Len(accepted) /\ i - 1 \in 0..Len(accepted)
      BY <2>3 DEF QueueInv
    <3>4. RejectedBefore(processed)' = RejectedBefore(processed)
      BY <3>1, <3>3, <2>2, <2>3, Zenon DEF RejectedBefore
    <3> QED
      BY <3>1, <3>2, <3>4, <2>2 DEF ReplayInv
  <2>8. NoLostWakeup'
    BY <1>2, <2>2 DEF TypeOK, NoLostWakeup
  <2> QED
    BY <2>4, <2>5, <2>6, <2>7, <2>8
<1> QED
  BY <1>1, <1>2

\* wait_pop and apply: the first queued command is the next one of the replay.
LEMMA ApplyKeepsInv ==
    ASSUME IInv, WorkerApplies
    PROVE  IInv'
<1> USE DEF IInv
<1> DEFINE c == Head(values)
<1>1. /\ values \in Seq(RoomCommands) /\ values # <<>> /\ accepted \in Seq(RoomCommands)
      /\ processed \in Nat /\ rejected \in Nat /\ Len(values) \in Nat /\ Len(values) >= 1
      /\ c = values[1] /\ c \in RoomCommands
      /\ values' = Tail(values) /\ values' \in Seq(RoomCommands)
      /\ Len(values') = Len(values) - 1
      /\ \A i \in 1..Len(values') : values'[i] = values[i + 1] /\ i + 1 \in 1..Len(values)
  BY DEF TypeOK, WorkerApplies
<1>2. /\ players' = Apply(players, c) /\ processed' = processed + 1
      /\ rejected' = IF Accepts(players, c) THEN rejected ELSE rejected + 1
      /\ worker = "wait_pop" /\ worker' \in {"wait_pop", "handle_event"}
      /\ UNCHANGED <<closed, accepted, stop_requested, submitter, owner, failures, summary>>
  BY Zenon DEF WorkerApplies
<1>3. c = accepted[processed + 1] /\ processed + 1 \in 1..Len(accepted)
  BY <1>1 DEF QueueInv
<1>4. TypeOK'
  <2>1. players' \in Rooms /\ processed' \in Nat /\ rejected' \in Nat
    BY <1>1, <1>2, ApplyType DEF TypeOK
  <2> QED
    BY <2>1, <1>1, <1>2 DEF TypeOK
<1>5. StopInv'
  <2>1. owner # "stopped"
    BY <1>2 DEF StopInv
  <2> QED
    BY <2>1, <1>2 DEF StopInv
<1>6. QueueInv'
  <2>1. Len(accepted) = processed' + Len(values')
    BY <1>1, <1>2 DEF QueueInv
  <2>2. ASSUME NEW i \in 1..Len(values') PROVE values'[i] = accepted[processed' + i]
    <3>1. processed' + i = processed + (i + 1)
      BY <1>1, <1>2
    <3> QED
      BY <3>1, <1>1 DEF QueueInv
  <2> QED
    BY <2>1, <2>2, <1>2 DEF QueueInv
<1>7. ReplayInv'
  <2>1. RoomsAfter(accepted)[processed + 1] = Apply(RoomsAfter(accepted)[processed], c)
    <3>1. /\ processed + 1 \in 0..Len(accepted)
          /\ processed + 1 # 0 /\ (processed + 1) - 1 = processed
      BY <1>1, <1>3
    <3> QED
      BY <3>1, <1>1, <1>3, RoomsAfterDef
  <2>2. players' = RoomsAfter(accepted)[processed + 1]
    BY <2>1, <1>2 DEF ReplayInv
  <2>3. rejected' = Cardinality(RejectedBefore(processed + 1))
    BY <1>1, <1>2, <1>3, RejectedCount, Zenon DEF ReplayInv
  <2>4. RejectedBefore(processed)' = RejectedBefore(processed + 1)
    BY <1>2 DEF RejectedBefore
  <2> QED
    BY <2>2, <2>3, <2>4, <1>2, Zenon DEF ReplayInv
<1>8. NoLostWakeup'
  BY <1>2 DEF NoLostWakeup
<1> QED
  BY <1>4, <1>5, <1>6, <1>7, <1>8

\* A step that neither accepts nor applies a command keeps queue and replay.
LEMMA ReplayUnchanged ==
    ASSUME QueueInv, ReplayInv, UNCHANGED <<values, accepted, players, processed, rejected>>
    PROVE  QueueInv' /\ ReplayInv'
BY DEF QueueInv, ReplayInv, RejectedBefore

\* The worker blocks, wakes up, handles an event or leaves run().
LEMMA WorkerKeepsInv ==
    ASSUME IInv,
           WorkerBlocks \/ SpuriousWakeup \/ WorkerHandlesEvent \/ WorkerExits
    PROVE  IInv'
<1> USE DEF IInv
<1>1. /\ UNCHANGED <<values, accepted, closed, stop_requested, submitter, owner, players,
                     processed, rejected, summary>>
      /\ worker # "exited"
      /\ worker' \in {"waiting", "wait_pop", "exited"}
      /\ worker' = "waiting" => values = <<>> /\ ~closed
      /\ worker' = "exited" => values = <<>> /\ (closed \/ stop_requested)
  BY DEF WorkerBlocks, SpuriousWakeup, WorkerHandlesEvent, WorkerExits, Awaited, queueVars,
         roomVars
<1>2. failures' \in Nat
  BY DEF TypeOK, WorkerBlocks, SpuriousWakeup, WorkerHandlesEvent, WorkerExits, roomVars
<1>3. TypeOK'
  BY <1>1, <1>2 DEF TypeOK
<1>4. QueueInv' /\ ReplayInv'
  BY <1>1, ReplayUnchanged
<1>5. StopInv'
  BY <1>1 DEF StopInv
<1>6. NoLostWakeup'
  BY <1>1 DEF NoLostWakeup
<1> QED
  BY <1>3, <1>4, <1>5, <1>6

\* A notification leaves no worker waiting.
LEMMA NotifyKeepsInv ==
    ASSUME IInv, NEW t \in Submitters, NotifyOne(t)
    PROVE  IInv'
<1> USE DEF IInv
<1>1. /\ UNCHANGED <<values, accepted, closed, stop_requested, owner, players, processed,
                     rejected, failures, summary>>
      /\ submitter' \in [Submitters -> {"outside", "notify_one"}]
      /\ worker' = IF worker = "waiting" THEN "wait_pop" ELSE worker
  BY DEF NotifyOne, Wake, queueVars, roomVars, TypeOK
<1>2. TypeOK' /\ StopInv' /\ NoLostWakeup'
  BY <1>1 DEF TypeOK, StopInv, NoLostWakeup, Summary
<1>3. QueueInv' /\ ReplayInv'
  BY <1>1, ReplayUnchanged
<1> QED
  BY <1>2, <1>3

\* The steps of stop().
LEMMA OwnerKeepsInv ==
    ASSUME IInv, OwnerStep
    PROVE  IInv'
<1> USE DEF IInv
<1>1. UNCHANGED <<values, accepted, submitter, players, processed, rejected, failures>>
  BY DEF OwnerStep, StopCloses, CloseNotifies, StopRequests, StopJoins, queueVars, roomVars
<1>2. QueueInv' /\ ReplayInv'
  BY <1>1, ReplayUnchanged
<1>3. CASE StopCloses
  BY <1>1, <1>2, <1>3 DEF StopCloses, TypeOK, StopInv, NoLostWakeup
<1>4. CASE CloseNotifies
  BY <1>1, <1>2, <1>4 DEF CloseNotifies, Wake, queueVars, TypeOK, StopInv, NoLostWakeup
<1>5. CASE StopRequests
  BY <1>1, <1>2, <1>5 DEF StopRequests, Wake, queueVars, TypeOK, StopInv, NoLostWakeup
<1>6. CASE StopJoins
  <2>1. summary' = Summary'
    BY <1>1, <1>6 DEF StopJoins, Summary
  <2> QED
    BY <2>1, <1>1, <1>2, <1>6 DEF StopJoins, queueVars, TypeOK, StopInv, NoLostWakeup
<1> QED
  BY <1>3, <1>4, <1>5, <1>6 DEF OwnerStep

LEMMA StutterKeepsInv ==
    ASSUME IInv, UNCHANGED vars
    PROVE  IInv'
<1>1. UNCHANGED <<values, accepted, closed, stop_requested, submitter, owner, worker, players,
                  processed, rejected, failures, summary>>
  BY DEF vars, queueVars, roomVars
<1> QED
  BY <1>1, ReplayUnchanged DEF IInv, TypeOK, StopInv, NoLostWakeup, Summary

LEMMA NextKeepsInv == IInv /\ [Next]_vars => IInv'
<1> SUFFICES ASSUME IInv, [Next]_vars PROVE IInv'
  OBVIOUS
<1>1. CASE WorkerApplies
  BY <1>1, ApplyKeepsInv
<1>2. CASE WorkerBlocks \/ SpuriousWakeup \/ WorkerHandlesEvent \/ WorkerExits
  BY <1>2, WorkerKeepsInv
<1>3. CASE OwnerStep
  BY <1>3, OwnerKeepsInv
<1>4. ASSUME NEW t \in Submitters, Submit(t) PROVE IInv'
  BY <1>4, SubmitKeepsInv
<1>5. ASSUME NEW t \in Submitters, NotifyOne(t) PROVE IInv'
  BY <1>5, NotifyKeepsInv
<1>6. CASE StopAgain \/ UNCHANGED vars
  BY <1>6, StutterKeepsInv DEF StopAgain
<1> QED
  BY <1>1, <1>2, <1>3, <1>4, <1>5, <1>6, Zenon DEF Next, WorkerStep

\* The inductive invariant of the worker and its queue holds of every run.
THEOREM WorkerInvariance == Spec => []IInv
BY InitInv, NextKeepsInv, PTL DEF Spec

(***************************************************************************)
(* What follows from it                                                    *)
(***************************************************************************)

\* No wakeup of wait_pop is lost, for any number of submitting threads.
THEOREM WakeupsReachWorker == Spec => []NoLostWakeup
<1>1. IInv => NoLostWakeup
  BY DEF IInv
<1> QED
  BY <1>1, WorkerInvariance, PTL

\* The Room is the replay of the accepted commands in their order, with the
\* rejected ones counted, whatever the submitters, the worker and stop() do.
THEOREM RoomReplaysCommands == Spec => []RoomIsReplay
<1>1. IInv => RoomIsReplay
  <2> SUFFICES ASSUME IInv PROVE RoomIsReplay
    OBVIOUS
  <2>1. /\ values \in Seq(RoomCommands) /\ accepted \in Seq(RoomCommands)
        /\ processed \in Nat /\ processed <= Len(accepted)
        /\ Len(accepted) = processed + Len(values)
        /\ \A i \in 1..Len(values) : values[i] = accepted[processed + i]
    BY DEF IInv, TypeOK, QueueInv
  <2> DEFINE front == SubSeq(accepted, 1, processed)
  <2>2. /\ front \in Seq(RoomCommands) /\ Len(front) = processed
        /\ \A i \in 1..processed : front[i] = accepted[i]
    BY <2>1
  <2> HIDE DEF front
  <2>3. /\ front \o values \in Seq(RoomCommands)
        /\ Len(front \o values) = Len(front) + Len(values)
        /\ \A i \in 1..(Len(front) + Len(values)) :
               (front \o values)[i] = IF i <= Len(front) THEN front[i] ELSE values[i - Len(front)]
    BY <2>1, <2>2, ConcatProperties
  <2>4. ASSUME NEW i \in 1..Len(accepted) PROVE accepted[i] = (front \o values)[i]
    <3>1. CASE i <= processed
      BY <3>1, <2>1, <2>2, <2>3
    <3>2. CASE ~(i <= processed)
      <4>1. i - processed \in 1..Len(values) /\ processed + (i - processed) = i
        BY <3>2, <2>1
      <4> QED
        BY <4>1, <3>2, <2>1, <2>2, <2>3
    <3> QED
      BY <3>1, <3>2, Zenon
  <2>5. accepted = front \o values
    BY <2>1, <2>2, <2>3, <2>4, SeqEqual, Zenon
  <2> QED
    BY <2>5, Zenon DEF IInv, RoomIsReplay, ReplayInv, RejectedBefore, front
<1> QED
  BY <1>1, WorkerInvariance, PTL

\* The summary stop() returns is final, and accounts for every accepted command.
THEOREM SummaryStays == Spec => []SummaryIsFinal
<1>1. IInv => SummaryIsFinal
  <2> SUFFICES ASSUME IInv, summary.engaged PROVE SummaryIsFinal
    BY DEF SummaryIsFinal
  <2>1. owner = "stopped"
    BY DEF IInv, StopInv, NoSummary
  <2>2. summary = Summary /\ values = <<>>
    BY <2>1 DEF IInv, StopInv
  <2>3. processed = Len(accepted)
    BY <2>2 DEF IInv, TypeOK, QueueInv
  <2> QED
    BY <2>2, <2>3 DEF SummaryIsFinal
<1> QED
  BY <1>1, WorkerInvariance, PTL

\* RoomWorker implements RoomService as far as safety goes: commands are accepted
\* until the close, applied one at a time in order, and stop() returns only when
\* every accepted command has been applied.
THEOREM WorkerImplementsService == Spec => Service!SafeSpec
<1>1. Init => Service!Init
  BY DEF Init, Service!Init
<1>2. IInv /\ [Next]_vars => [Service!Next]_Service!serviceVars
  <2> SUFFICES ASSUME IInv, [Next]_vars PROVE [Service!Next]_Service!serviceVars
    OBVIOUS
  <2> USE DEF Service!serviceVars, Service!Next
  <2>1. CASE WorkerApplies
    <3>1. processed < Len(accepted)
      BY <2>1 DEF WorkerApplies, IInv, TypeOK, QueueInv
    <3> QED
      BY <3>1, <2>1 DEF WorkerApplies, Service!ApplyNext
  <2>2. CASE WorkerBlocks \/ SpuriousWakeup \/ WorkerHandlesEvent \/ WorkerExits
    BY <2>2 DEF WorkerBlocks, SpuriousWakeup, WorkerHandlesEvent, WorkerExits, queueVars, roomVars
  <2>3. CASE StopCloses
    BY <2>3 DEF StopCloses, roomVars, Service!CloseService
  <2>4. CASE CloseNotifies \/ StopRequests
    BY <2>4 DEF CloseNotifies, StopRequests, queueVars, roomVars
  <2>5. CASE StopJoins
    <3>1. closed /\ processed = Len(accepted)
      BY <2>5 DEF StopJoins, IInv, TypeOK, StopInv, QueueInv
    <3> QED
      BY <3>1, <2>5 DEF StopJoins, queueVars, roomVars, Service!StopReturns
  <2>6. ASSUME NEW t \in Submitters, Submit(t) PROVE [Service!Next]_Service!serviceVars
    BY <2>6 DEF Submit, queueVars, roomVars, Service!AcceptCommand
  <2>7. ASSUME NEW t \in Submitters, NotifyOne(t) PROVE [Service!Next]_Service!serviceVars
    BY <2>7 DEF NotifyOne, queueVars, roomVars
  <2>8. CASE StopAgain \/ UNCHANGED vars
    BY <2>8 DEF StopAgain, vars, queueVars, roomVars
  <2> HIDE DEF Service!serviceVars, Service!Next
  <2> QED
    BY <2>1, <2>2, <2>3, <2>4, <2>5, <2>6, <2>7, <2>8, ZenonT(30) DEF Next, WorkerStep, OwnerStep
<1> QED
  BY <1>1, <1>2, WorkerInvariance, PTL DEF Spec, Service!SafeSpec
=============================================================================
