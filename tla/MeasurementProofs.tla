------------------------- MODULE MeasurementProofs --------------------------
(***************************************************************************)
(* Proofs about what is measured and reported: the server's metrics, for   *)
(* every capacity of the ring and any number of sessions, commands and     *)
(* reports, and the ranks of the latency summary, for any number of        *)
(* samples.                                                                *)
(***************************************************************************)
EXTENDS ServerMetrics, LatencySummary, SequenceTheorems, TLAPS

(***************************************************************************)
(* The inductive invariant of the server's metrics                         *)
(***************************************************************************)

References == {"session", "worker", "report"}
ReportPlaces == {"idle", "loading", "locking", "collecting", "reading", "releasing"}
Gone(s) == holders[s] = {}
Retirements == Len(retired)

TypeOK ==
    /\ holders \in [Ids -> SUBSET References]
    /\ destroying \in [Threads -> 0..MaxSessions]
    /\ sessions_mutex \in {"free", "io"}
    /\ sessions \subseteq Ids
    /\ io \in ReportPlaces
    /\ created \in 0..MaxSessions
    /\ retired \in Seq(Ids)
    /\ report \in [processed : Nat, rejected : Nat, live : SUBSET Ids, closed : Seq(Nat)]
    /\ processed \in Nat /\ rejected \in Nat

\* The reporter holds the mutex exactly while it collects, and runs no destructor
\* between the start of a report and the release of what it has collected.
MutexInv ==
    /\ sessions_mutex = "io" <=> io = "collecting"
    /\ io \notin {"idle", "releasing"} => Free("io")

\* Where the ring keeps which of the sessions retired: until it is full, from its
\* start; then the latest ones end before closed_next, and the rest follow from there.
RingInv ==
    /\ closed_count \in 0..Capacity /\ closed_next \in 0..(Capacity - 1) /\ overwritten \in Nat
    /\ DOMAIN closed = 0..(Capacity - 1)
    /\ overwritten + closed_count = Retirements
    /\ closed_count < Capacity =>
          /\ overwritten = 0
          /\ closed_next = Retirements
          /\ \A i \in 0..(Retirements - 1) : closed[i] = retired[i + 1]
    /\ closed_count = Capacity =>
          /\ \A i \in 0..(closed_next - 1) : closed[i] = retired[Retirements - closed_next + i + 1]
          /\ \A i \in closed_next..(Capacity - 1) :
                closed[i] = retired[Retirements - Capacity - closed_next + i + 1]

\* Nobody holds a session that was not created yet, is being destroyed or is retired;
\* whoever is held is in the map.
HolderInv ==
    /\ \A s \in Ids : Gone(s) \/ (s <= created /\ s \in sessions)
    /\ \A k \in DOMAIN retired : Gone(retired[k]) /\ retired[k] <= created
    /\ \A t \in Threads : Free(t) \/ (Gone(destroying[t]) /\ destroying[t] <= created)

\* The report holds what it lists; while it collects, every session in use is listed or
\* still to be visited, and while it reads, all of them are listed.
ReportInv ==
    /\ io \in {"idle", "loading", "locking"} => \A s \in Ids : "report" \notin holders[s]
    /\ io \in {"loading", "locking"} => report.live = {}
    /\ io \in {"collecting", "reading"} => report.live = {s \in Ids : "report" \in holders[s]}
    /\ io = "collecting" => \A s \in Ids : Gone(s) \/ s \in todo \/ "report" \in holders[s]
    /\ io = "reading" => /\ \A s \in Ids : Gone(s) \/ "report" \in holders[s]
                         /\ Range(report.closed) \subseteq Range(retired)

MetricsInv == TypeOK /\ MutexInv /\ RingInv /\ HolderInv /\ ReportInv

-----------------------------------------------------------------------------
(* The ring *)

\* The indices of the ring, wrapped once at most.
LEMMA RingIndex ==
    ASSUME NEW x \in Nat
    PROVE  /\ x < Capacity => x % Capacity = x
           /\ Capacity <= x /\ x < Capacity + Capacity => x % Capacity = x - Capacity
<1>1. Capacity \in Nat /\ Capacity > 0
  BY MetricsAssumption
<1>2. CASE x < Capacity
  BY <1>1, <1>2
<1>3. CASE Capacity <= x /\ x < Capacity + Capacity
  BY <1>1, <1>3
<1> QED
  BY <1>1, <1>2, <1>3

\* What retire_session does to the ring.
EntersRing(s) ==
    /\ closed' = [closed EXCEPT ![closed_next] = s]
    /\ closed_next' = (closed_next + 1) % Capacity
    /\ IF closed_count < Capacity
       THEN closed_count' = closed_count + 1 /\ UNCHANGED overwritten
       ELSE overwritten' = overwritten + 1 /\ UNCHANGED closed_count
    /\ retired' = Append(retired, s)

\* retire_session keeps the ring: the latest session takes the place of the oldest.
LEMMA RetireKeepsRing ==
    ASSUME RingInv, retired \in Seq(Ids), NEW s \in Ids, EntersRing(s)
    PROVE  RingInv'
<1>1. /\ Capacity \in Nat /\ Capacity > 0
      /\ closed_count \in 0..Capacity /\ closed_next \in 0..(Capacity - 1) /\ overwritten \in Nat
      /\ DOMAIN closed = 0..(Capacity - 1)
      /\ overwritten + closed_count = Retirements
  <2>1. Capacity \in Nat /\ Capacity > 0
    BY MetricsAssumption
  <2> QED
    BY <2>1, Zenon DEF RingInv
<1>2. /\ Retirements \in Nat /\ Retirements' = Retirements + 1
      /\ \A i \in 1..Retirements : retired'[i] = retired[i]
      /\ retired'[Retirements + 1] = s
  BY DEF Retirements, EntersRing
<1>3. /\ DOMAIN closed' = 0..(Capacity - 1)
      /\ closed'[closed_next] = s
      /\ \A i \in 0..(Capacity - 1) : i # closed_next => closed'[i] = closed[i]
  BY <1>1 DEF EntersRing
<1>4. /\ closed_next + 1 < Capacity => closed_next' = closed_next + 1
      /\ closed_next + 1 = Capacity => closed_next' = 0
      /\ closed_next + 1 < Capacity \/ closed_next + 1 = Capacity
  BY <1>1, RingIndex, closed_next + 1 \in Nat DEF EntersRing
<1>5. closed_next' \in 0..(Capacity - 1)
  BY <1>1, <1>4
<1>6. CASE closed_count < Capacity
  <2>1. /\ overwritten = 0 /\ closed_next = Retirements /\ closed_count = Retirements
        /\ \A i \in 0..(Retirements - 1) : closed[i] = retired[i + 1]
    BY <1>6, <1>1 DEF RingInv
  <2>2. closed_count' = Retirements + 1 /\ overwritten' = 0
    BY <1>6, <2>1 DEF EntersRing
  <2>3. \A i \in 0..Retirements : closed'[i] = retired'[i + 1]
    <3> SUFFICES ASSUME NEW i \in 0..Retirements PROVE closed'[i] = retired'[i + 1]
      OBVIOUS
    <3>1. CASE i = Retirements
      BY <3>1, <1>2, <1>3, <2>1
    <3>2. CASE i # Retirements
      <4>1. i \in 0..(Retirements - 1) /\ i + 1 \in 1..Retirements
            /\ i \in 0..(Capacity - 1) /\ i # closed_next
        BY <3>2, <1>1, <1>2, <1>6, <2>1
      <4> QED
        BY <4>1, <1>2, <1>3, <2>1, Zenon
    <3> QED
      BY <3>1, <3>2
  <2>4. CASE closed_next + 1 < Capacity
    <3>1. closed_next' = Retirements' /\ closed_count' = Retirements'
      BY <2>4, <1>2, <1>4, <2>1, <2>2, Zenon
    <3>2. Retirements' \in Nat /\ Retirements' < Capacity /\ Retirements' - 1 = Retirements
      BY <2>4, <1>1, <1>2, <2>1
    <3>3. /\ closed_count' < Capacity /\ closed_count' \in 0..Capacity /\ closed_count' # Capacity
          /\ overwritten' + closed_count' = Retirements'
      BY <3>1, <3>2, <1>1, <2>2
    <3> QED
      BY <3>1, <3>2, <3>3, <1>3, <1>5, <2>2, <2>3, 0 \in Nat, Zenon DEF RingInv
  <2>5. CASE closed_next + 1 = Capacity
    <3>0. closed_next' = 0 /\ Retirements' = Capacity /\ closed_count' = Capacity
      BY <2>5, <1>2, <1>4, <2>1, <2>2, Zenon
    <3>1. /\ closed_next' = 0 /\ closed_count' = Capacity /\ closed_count' \in 0..Capacity
          /\ overwritten' + closed_count' = Retirements' /\ ~(closed_count' < Capacity)
          /\ Retirements' = Capacity /\ Retirements = Capacity - 1
      BY <3>0, <2>5, <1>1, <1>2, <2>1, <2>2
    <3>2. \A i \in 0..(closed_next' - 1) : FALSE
      BY <3>1
    <3>3. \A i \in closed_next'..(Capacity - 1) :
              closed'[i] = retired'[Retirements' - Capacity - closed_next' + i + 1]
      <4> SUFFICES ASSUME NEW i \in closed_next'..(Capacity - 1)
                   PROVE  closed'[i] = retired'[Retirements' - Capacity - closed_next' + i + 1]
        OBVIOUS
      <4>1. i \in 0..Retirements /\ Retirements' - Capacity - closed_next' + i + 1 = i + 1
        BY <3>1, <1>1
      <4> QED
        BY <4>1, <2>3, Zenon
    <3> QED
      BY <3>1, <3>2, <3>3, <1>3, <1>5, <2>2, 0 \in Nat, Zenon DEF RingInv
  <2> QED
    BY <2>4, <2>5, <1>4
<1>7. CASE ~(closed_count < Capacity)
  <2>1. /\ closed_count = Capacity
        /\ \A i \in 0..(closed_next - 1) : closed[i] = retired[Retirements - closed_next + i + 1]
        /\ \A i \in closed_next..(Capacity - 1) :
              closed[i] = retired[Retirements - Capacity - closed_next + i + 1]
    BY <1>7, <1>1 DEF RingInv
  <2>2. /\ closed_count' = Capacity /\ overwritten' = overwritten + 1 /\ overwritten' \in Nat
        /\ overwritten' + closed_count' = Retirements' /\ ~(closed_count' < Capacity)
        /\ closed_count' \in 0..Capacity /\ Capacity <= Retirements
    <3>1. closed_count' = Capacity /\ overwritten' = overwritten + 1
      BY <1>7, <2>1, Zenon DEF EntersRing
    <3>2. Retirements' = Retirements + 1 /\ Retirements \in Nat
      BY <1>2
    <3> QED
      BY <3>1, <3>2, <1>1, <2>1
  <2>3. \A i \in 0..closed_next : closed'[i] = retired'[Retirements - closed_next + i + 1]
    <3> SUFFICES ASSUME NEW i \in 0..closed_next
                 PROVE  closed'[i] = retired'[Retirements - closed_next + i + 1]
      OBVIOUS
    <3>1. CASE i = closed_next
      <4>1. Retirements - closed_next + i + 1 = Retirements + 1
        BY <3>1, <1>1, <1>2
      <4> QED
        BY <4>1, <3>1, <1>2, <1>3, Zenon
    <3>2. CASE i # closed_next
      <4>1. i \in 0..(closed_next - 1) /\ i \in 0..(Capacity - 1)
            /\ Retirements - closed_next + i + 1 \in 1..Retirements
        BY <3>2, <1>1, <1>2, <2>2
      <4> QED
        BY <4>1, <3>2, <1>2, <1>3, <2>1, Zenon
    <3> QED
      BY <3>1, <3>2
  <2>4. \A i \in (closed_next + 1)..(Capacity - 1) :
            closed'[i] = retired'[Retirements - Capacity - closed_next + i + 1]
    <3> SUFFICES ASSUME NEW i \in (closed_next + 1)..(Capacity - 1)
                 PROVE  closed'[i] = retired'[Retirements - Capacity - closed_next + i + 1]
      OBVIOUS
    <3>1. i \in closed_next..(Capacity - 1) /\ i \in 0..(Capacity - 1) /\ i # closed_next
          /\ Retirements - Capacity - closed_next + i + 1 \in 1..Retirements
      BY <1>1, <1>2, <2>2
    <3> QED
      BY <3>1, <1>2, <1>3, <2>1, Zenon
  <2>5. \A i \in 0..(closed_next' - 1) : closed'[i] = retired'[Retirements' - closed_next' + i + 1]
    <3> SUFFICES ASSUME NEW i \in 0..(closed_next' - 1)
                 PROVE  closed'[i] = retired'[Retirements' - closed_next' + i + 1]
      OBVIOUS
    <3>1. closed_next' = closed_next + 1
      <4>1. closed_next' # 0
        OBVIOUS
      <4> QED
        BY <4>1, <1>4, Zenon
    <3>2. i \in 0..closed_next
          /\ Retirements' - closed_next' + i + 1 = Retirements - closed_next + i + 1
      BY <3>1, <1>1, <1>2
    <3> QED
      BY <3>2, <2>3, Zenon
  <2>6. \A i \in closed_next'..(Capacity - 1) :
            closed'[i] = retired'[Retirements' - Capacity - closed_next' + i + 1]
    <3> SUFFICES ASSUME NEW i \in closed_next'..(Capacity - 1)
                 PROVE  closed'[i] = retired'[Retirements' - Capacity - closed_next' + i + 1]
      OBVIOUS
    <3>1. CASE closed_next + 1 < Capacity
      <4>1. i \in (closed_next + 1)..(Capacity - 1)
            /\ Retirements' - Capacity - closed_next' + i + 1
                 = Retirements - Capacity - closed_next + i + 1
        BY <3>1, <1>1, <1>2, <1>4
      <4> QED
        BY <4>1, <2>4, Zenon
    <3>2. CASE closed_next + 1 = Capacity
      <4>1. i \in 0..closed_next
            /\ Retirements' - Capacity - closed_next' + i + 1 = Retirements - closed_next + i + 1
        BY <3>2, <1>1, <1>2, <1>4
      <4> QED
        BY <4>1, <2>3, Zenon
    <3> QED
      BY <3>1, <3>2, <1>4
  <2> QED
    BY <1>3, <1>5, <2>2, <2>5, <2>6, Zenon DEF RingInv
<1> QED
  BY <1>6, <1>7

\* Reading the ring from RingFirst gives the latest retired sessions, in order.
LEMMA RingReads ==
    ASSUME RingInv, retired \in Seq(Ids)
    PROVE  RingIsRecent /\ Range(Ring) \subseteq Range(retired) /\ Ring \in Seq(Nat)
<1> DEFINE first == Retirements - closed_count
<1>1. /\ Capacity \in Nat /\ Capacity > 0
      /\ closed_count \in 0..Capacity /\ closed_next \in 0..(Capacity - 1) /\ overwritten \in Nat
      /\ overwritten + closed_count = Retirements
  <2>1. Capacity \in Nat /\ Capacity > 0
    BY MetricsAssumption
  <2> QED
    BY <2>1, Zenon DEF RingInv
<1>2. Retirements \in Nat /\ first \in Nat /\ first + closed_count = Retirements
  BY <1>1 DEF Retirements
<1>3. DOMAIN retired = 1..Retirements /\ \A i \in 1..Retirements : retired[i] \in Nat
  <2>1. Ids \subseteq Nat
    BY MetricsAssumption DEF Ids
  <2>2. DOMAIN retired = 1..Retirements /\ \A i \in 1..Retirements : retired[i] \in Ids
    BY DEF Retirements
  <2> QED
    BY <2>1, <2>2, Zenon
<1>4. ASSUME NEW i \in 1..closed_count
      PROVE  closed[(RingFirst + i - 1) % Capacity] = retired[first + i]
  <2>1. CASE closed_count < Capacity
    <3>1. /\ overwritten = 0 /\ closed_next = Retirements /\ closed_count = Retirements /\ first = 0
          /\ \A j \in 0..(Retirements - 1) : closed[j] = retired[j + 1]
      BY <2>1, <1>1 DEF RingInv
    <3>2. closed_next + Capacity - closed_count = Capacity /\ Capacity <= Capacity
          /\ Capacity < Capacity + Capacity /\ Capacity - Capacity = 0
      BY <3>1, <1>1, <1>2
    <3>3. RingFirst = 0
      BY <3>2, <1>1, RingIndex, Zenon DEF RingFirst
    <3>4. 0 + i - 1 = i - 1 /\ i - 1 \in Nat /\ i - 1 < Capacity /\ i - 1 \in 0..(Retirements - 1)
          /\ (i - 1) + 1 = first + i
      BY <3>1, <1>1, <1>2
    <3>5. (RingFirst + i - 1) % Capacity = i - 1
      BY <3>3, <3>4, RingIndex, Zenon
    <3> QED
      BY <3>1, <3>4, <3>5, Zenon
  <2>2. CASE closed_count = Capacity
    <3>1. /\ \A j \in 0..(closed_next - 1) : closed[j] = retired[Retirements - closed_next + j + 1]
          /\ \A j \in closed_next..(Capacity - 1) :
                closed[j] = retired[Retirements - Capacity - closed_next + j + 1]
      BY <2>2, Zenon DEF RingInv
    <3>2. closed_next + Capacity - closed_count = closed_next /\ closed_next < Capacity
          /\ closed_next \in Nat
      BY <2>2, <1>1
    <3>3. RingFirst = closed_next
      BY <3>2, RingIndex, Zenon DEF RingFirst
    <3>4. closed_next + i - 1 \in Nat /\ closed_next + i - 1 < Capacity + Capacity
      BY <1>1
    <3>5. CASE closed_next + i - 1 < Capacity
      <4>1. (RingFirst + i - 1) % Capacity = closed_next + i - 1
        BY <3>3, <3>4, <3>5, RingIndex, Zenon
      <4>2. closed_next + i - 1 \in closed_next..(Capacity - 1)
            /\ Retirements - Capacity - closed_next + (closed_next + i - 1) + 1 = first + i
        BY <2>2, <3>5, <1>1, <1>2
      <4> QED
        BY <4>1, <4>2, <3>1, Zenon
    <3>6. CASE Capacity <= closed_next + i - 1
      <4>1. (RingFirst + i - 1) % Capacity = closed_next + i - 1 - Capacity
        <5> DEFINE x == closed_next + i - 1
        <5>1. x \in Nat /\ Capacity <= x /\ x < Capacity + Capacity
          BY <3>4, <3>6
        <5> HIDE DEF x
        <5>2. x % Capacity = x - Capacity
          BY <5>1, RingIndex
        <5>3. RingFirst + i - 1 = x
          BY <3>3, Zenon DEF x
        <5>4. x - Capacity = closed_next + i - 1 - Capacity
          BY <1>1, <5>1 DEF x
        <5> QED
          BY <5>2, <5>3, <5>4, Zenon
      <4>2. closed_next + i - 1 - Capacity \in 0..(closed_next - 1)
            /\ Retirements - closed_next + (closed_next + i - 1 - Capacity) + 1 = first + i
        BY <2>2, <3>6, <1>1, <1>2
      <4> QED
        BY <4>1, <4>2, <3>1, Zenon
    <3> QED
      BY <3>4, <3>5, <3>6, <1>1
  <2> QED
    BY <2>1, <2>2, <1>1
<1>5. Ring = [i \in 1..closed_count |-> retired[first + i]]
  BY <1>4, Zenon DEF Ring
<1>6. \A i \in 1..closed_count : first + i \in 1..Retirements
  BY <1>1, <1>2
<1>7. Ring \in Seq(Nat)
  <2>1. \A i \in 1..closed_count : retired[first + i] \in Nat
    BY <1>3, <1>6, Zenon
  <2>2. closed_count \in Nat
    BY <1>1
  <2> HIDE DEF first
  <2> QED
    BY <1>5, <2>1, <2>2
<1>8. Range(Ring) \subseteq Range(retired)
  BY <1>3, <1>5, <1>6, Zenon DEF Range
<1>9. Ring = SubSeq(retired, Retirements - closed_count + 1, Retirements)
  <2>1. SubSeq(retired, first + 1, Retirements)
          = [i \in 1..(Retirements - (first + 1) + 1) |-> retired[first + 1 + i - 1]]
    BY <1>1, <1>2, <1>3
  <2>2. Retirements - (first + 1) + 1 = closed_count
        /\ \A i \in 1..closed_count : first + 1 + i - 1 = first + i
    BY <1>1, <1>2
  <2> QED
    BY <1>5, <2>1, <2>2, Zenon
<1> QED
  BY <1>7, <1>8, <1>9, Zenon DEF RingIsRecent, RingInv, Retirements

LEMMA SameRing ==
    ASSUME RingInv, UNCHANGED <<closed, closed_count, closed_next, overwritten, retired>>
    PROVE  RingInv'
BY Zenon DEF RingInv, Retirements

-----------------------------------------------------------------------------
(* Each step keeps the invariant *)

LEMMA MetricsInitially == Init => MetricsInv
<1> SUFFICES ASSUME Init PROVE MetricsInv
  OBVIOUS
<1>1. Capacity \in Nat /\ Capacity > 0 /\ MaxSessions \in Nat
  BY MetricsAssumption
<1>2. TypeOK
  <2>1. retired \in Seq(Ids) /\ created \in 0..MaxSessions /\ processed \in Nat /\ rejected \in Nat
    BY <1>1 DEF Init
  <2>2. NoReport \in [processed : Nat, rejected : Nat, live : SUBSET Ids, closed : Seq(Nat)]
    BY DEF NoReport
  <2>3. destroying \in [Threads -> 0..MaxSessions]
    <3>1. None \in 0..MaxSessions
      BY <1>1 DEF None
    <3> QED
      BY <3>1, Zenon DEF Init
  <2>4. holders \in [Ids -> SUBSET References] /\ sessions \subseteq Ids
    BY Zenon DEF Init
  <2>5. io \in ReportPlaces
    BY DEF Init, ReportPlaces
  <2> QED
    BY <2>1, <2>2, <2>3, <2>4, <2>5, Zenon DEF Init, TypeOK
<1>3. MutexInv
  BY DEF Init, MutexInv
<1>4. RingInv
  BY <1>1 DEF Init, RingInv, Retirements
<1>5. HolderInv
  <2>1. \A k \in DOMAIN retired : FALSE
    BY DEF Init
  <2>2. /\ \A s \in Ids : Gone(s)
        /\ \A t \in Threads : Free(t)
    BY Zenon DEF Init, Gone, Free
  <2> QED
    BY <2>1, <2>2, Zenon DEF HolderInv
<1>6. ReportInv
  BY DEF Init, ReportInv
<1> QED
  BY <1>2, <1>3, <1>4, <1>5, <1>6, Zenon DEF MetricsInv

\* Whoever lets go of a reference, the one who drops the last runs the destructor of
\* a session that nobody holds any more.
LEMMA DropKeepsHolders ==
    ASSUME TypeOK, HolderInv, NEW t \in Threads, Free(t), NEW holder \in References, NEW s \in Ids,
           holder \in holders[s], Drop(t, holder, s), UNCHANGED <<sessions, created, retired>>
    PROVE  /\ holders' \in [Ids -> SUBSET References]
           /\ destroying' \in [Threads -> 0..MaxSessions]
           /\ HolderInv'
           /\ holders'[s] = holders[s] \ {holder}
           /\ \A r \in Ids : r # s => holders'[r] = holders[r]
           /\ \A u \in Threads : u # t => destroying'[u] = destroying[u]
<1>1. /\ holders \in [Ids -> SUBSET References] /\ destroying \in [Threads -> 0..MaxSessions]
      /\ retired \in Seq(Ids)
  BY DEF TypeOK
<1>2. /\ holders' \in [Ids -> SUBSET References]
      /\ holders'[s] = holders[s] \ {holder}
      /\ \A r \in Ids : r # s => holders'[r] = holders[r]
  BY <1>1 DEF Drop
<1>3. s \in 0..MaxSessions
  BY MetricsAssumption DEF Ids
<1>4. /\ destroying' \in [Threads -> 0..MaxSessions]
      /\ \A u \in Threads : u # t => destroying'[u] = destroying[u]
      /\ destroying'[t] = destroying[t] \/ (destroying'[t] = s /\ holders[s] = {holder})
  BY <1>1, <1>3 DEF Drop
<1>5. \A r \in Ids : Gone(r) => Gone(r)'
  BY <1>2 DEF Gone
<1>6. ~Gone(s) /\ s <= created
  BY Zenon DEF HolderInv, Gone
<1>7. \A r \in Ids : ~Gone(r)' => ~Gone(r)
  BY <1>5, Zenon
<1>8. \A k \in DOMAIN retired : retired[k] \in Ids
  BY <1>1
<1>9. HolderInv'
  <2>1. \A r \in Ids : Gone(r)' \/ (r <= created' /\ r \in sessions')
    BY <1>7, Zenon DEF HolderInv
  <2>2. \A k \in DOMAIN retired' : Gone(retired[k])' /\ retired'[k] <= created'
    <3> SUFFICES ASSUME NEW k \in DOMAIN retired
                 PROVE  holders'[retired[k]] = {} /\ retired[k] <= created
      BY Zenon DEF Gone
    <3>1. holders[retired[k]] = {} /\ retired[k] <= created /\ retired[k] \in Ids
      BY <1>8, Zenon DEF HolderInv, Gone
    <3> QED
      BY <3>1, <1>2
  <2>3. ASSUME NEW u \in Threads
        PROVE  Free(u)' \/ (holders'[destroying'[u]] = {} /\ destroying'[u] <= created)
    <3>1. CASE destroying'[u] = destroying[u]
      <4>1. Free(u) \/ (holders[destroying[u]] = {} /\ destroying[u] <= created)
        BY Zenon DEF HolderInv, Gone
      <4>2. CASE Free(u)
        BY <4>2, <3>1, Zenon DEF Free
      <4>3. CASE ~Free(u) /\ holders[destroying[u]] = {} /\ destroying[u] <= created
        <5>1. destroying[u] \in Ids
          BY <4>3, <1>1 DEF Free, None, Ids
        <5> QED
          BY <5>1, <4>3, <3>1, <1>2
      <4> QED
        BY <4>1, <4>2, <4>3, Zenon
    <3>2. CASE u = t /\ destroying'[t] = s /\ holders[s] = {holder}
      BY <3>2, <1>2, <1>6
    <3> QED
      BY <3>1, <3>2, <1>4, Zenon
  <2> QED
    BY <2>1, <2>2, <2>3, Zenon DEF HolderInv, Gone
<1> QED
  BY <1>2, <1>4, <1>9

LEMMA CreateKeepsMetrics ==
    ASSUME MetricsInv, CreateSession
    PROVE  MetricsInv'
<1> DEFINE s == created + 1
<1>1. TypeOK /\ MutexInv /\ RingInv /\ HolderInv /\ ReportInv
  BY DEF MetricsInv
<1>2. /\ io = "idle" /\ sessions' = sessions \cup {s} /\ created' = s
      /\ holders' = [holders EXCEPT ![s] = {"session"}]
      /\ UNCHANGED <<destroying, sessions_mutex, closed, closed_count, closed_next, overwritten,
                     retired, processed, rejected, io, report>>
  BY DEF CreateSession, IoFree, counterVars, reportVars
<1>3. created \in Nat /\ MaxSessions \in Nat /\ s \in Ids /\ s \in 0..MaxSessions
  BY <1>1, MetricsAssumption DEF CreateSession, TypeOK, Ids
<1>4. /\ holders' \in [Ids -> SUBSET References]
      /\ holders'[s] = {"session"}
      /\ \A r \in Ids : r # s => holders'[r] = holders[r]
  BY <1>1, <1>2, <1>3 DEF TypeOK, References
<1>5. TypeOK'
  BY <1>1, <1>2, <1>3, <1>4, Zenon DEF TypeOK
<1>6. MutexInv' /\ RingInv'
  BY <1>1, <1>2, SameRing, Zenon DEF MutexInv, Free
<1>7. HolderInv'
  <2>1. ASSUME NEW r \in Ids PROVE Gone(r)' \/ (r <= created' /\ r \in sessions')
    <3>1. CASE r = s
      BY <3>1, <1>2, <1>3
    <3>2. CASE r # s
      <4>1. Gone(r) \/ (r <= created /\ r \in sessions)
        BY <1>1, Zenon DEF HolderInv
      <4>2. r \in Nat
        BY <1>3 DEF Ids
      <4> QED
        BY <3>2, <4>1, <4>2, <1>2, <1>3, <1>4 DEF Gone
    <3> QED
      BY <3>1, <3>2
  <2>2. ASSUME NEW r \in Ids, Gone(r), r <= created
        PROVE  holders'[r] = {} /\ r <= created'
    <3>1. r \in Nat /\ r # s /\ r <= s
      BY <2>2, <1>3 DEF Ids
    <3> QED
      BY <3>1, <2>2, <1>2, <1>4, Zenon DEF Gone
  <2>3. \A k \in DOMAIN retired : retired[k] \in Ids
    BY <1>1 DEF TypeOK
  <2>4. \A t \in Threads : ~Free(t) => destroying[t] \in Ids
    BY <1>1, <1>3 DEF TypeOK, Free, None, Ids
  <2> QED
    BY <1>1, <1>2, <2>1, <2>2, <2>3, <2>4, Zenon DEF HolderInv, Gone, Free
<1>8. ReportInv'
  <2>1. io' = "idle" /\ \A r \in Ids : "report" \notin holders'[r]
    BY <1>1, <1>2, <1>4 DEF ReportInv
  <2> QED
    BY <2>1 DEF ReportInv
<1> QED
  BY <1>5, <1>6, <1>7, <1>8, Zenon DEF MetricsInv

\* A session's end, a publisher's return and the end of a report each drop a reference.
LEMMA DropsKeepMetrics ==
    ASSUME MetricsInv, NEW s \in Ids, SessionEnds(s) \/ DropRecipient(s) \/ ReportReleases(s)
    PROVE  MetricsInv'
<1>1. TypeOK /\ MutexInv /\ RingInv /\ HolderInv /\ ReportInv
  BY DEF MetricsInv
<1>2. PICK t \in Threads, holder \in References :
          /\ Free(t) /\ holder \in holders[s] /\ Drop(t, holder, s)
          /\ \/ t = "worker" /\ holder # "report"
             \/ io = "idle" /\ holder # "report"
             \/ io = "releasing"
  BY DEF SessionEnds, DropRecipient, ReportReleases, IoFree, WorkerFree, MayRelease, Threads, References
<1>3. UNCHANGED <<sessions_mutex, sessions, closed, closed_count, closed_next, overwritten, retired,
                  processed, rejected, io, todo, report, created>>
  BY DEF SessionEnds, DropRecipient, ReportReleases, ringVars, counterVars, reportVars
<1>4. /\ holders' \in [Ids -> SUBSET References]
      /\ destroying' \in [Threads -> 0..MaxSessions]
      /\ HolderInv'
      /\ holders'[s] = holders[s] \ {holder}
      /\ \A r \in Ids : r # s => holders'[r] = holders[r]
      /\ \A u \in Threads : u # t => destroying'[u] = destroying[u]
  BY <1>1, <1>2, <1>3, DropKeepsHolders, Zenon
<1>5. TypeOK' /\ RingInv'
  BY <1>1, <1>3, <1>4, SameRing, Zenon DEF TypeOK
<1>6. MutexInv'
  <2>1. "io" \in Threads /\ "io" # "worker"
    BY DEF Threads
  <2> QED
    BY <2>1, <1>1, <1>2, <1>3, <1>4, Zenon DEF MutexInv, Free
<1>7. ReportInv'
  <2>1. CASE io = "releasing"
    BY <2>1, <1>3 DEF ReportInv
  <2>2. CASE holder # "report"
    <3>1. \A r \in Ids : /\ "report" \in holders'[r] <=> "report" \in holders[r]
                         /\ Gone(r) => holders'[r] = {}
      BY <2>2, <1>4 DEF Gone
    <3> QED
      BY <3>1, <1>1, <1>3, Zenon DEF ReportInv, Gone
  <2> QED
    BY <2>1, <2>2, <1>2, Zenon
<1> QED
  BY <1>4, <1>5, <1>6, <1>7, Zenon DEF MetricsInv

\* The destructor retires a session that nobody holds, when no report is collecting.
LEMMA RetireKeepsMetrics ==
    ASSUME MetricsInv, NEW t \in Threads, RetireSession(t)
    PROVE  MetricsInv'
<1> DEFINE s == destroying[t]
<1>1. TypeOK /\ MutexInv /\ RingInv /\ HolderInv /\ ReportInv
  BY DEF MetricsInv
<1>2. /\ ~Free(t) /\ sessions_mutex = "free" /\ sessions' = sessions \ {s}
      /\ retired' = Append(retired, s) /\ destroying' = [destroying EXCEPT ![t] = None]
      /\ UNCHANGED <<holders, sessions_mutex, processed, rejected, io, report, created>>
  BY DEF RetireSession, counterVars, reportVars
<1>3. s \in Ids /\ holders[s] = {} /\ s <= created /\ None \in 0..MaxSessions
  <2>1. holders[s] = {} /\ s <= created
    BY <1>1, <1>2, Zenon DEF HolderInv, Gone
  <2> QED
    BY <1>1, <1>2, <2>1, MetricsAssumption DEF TypeOK, Free, None, Ids
<1>4. retired \in Seq(Ids) /\ destroying \in [Threads -> 0..MaxSessions]
  BY <1>1 DEF TypeOK
<1> HIDE DEF s
<1>5. RingInv'
  <2>1. EntersRing(s)
    BY Zenon DEF RetireSession, EntersRing, s
  <2> QED
    BY <2>1, <1>1, <1>3, <1>4, RetireKeepsRing
<1>6. /\ retired' \in Seq(Ids)
      /\ DOMAIN retired' = DOMAIN retired \cup {Len(retired) + 1}
      /\ \A k \in DOMAIN retired : retired'[k] = retired[k]
      /\ retired'[Len(retired) + 1] = s
  BY <1>2, <1>3, <1>4
<1>7. /\ destroying' \in [Threads -> 0..MaxSessions]
      /\ destroying'[t] = None
      /\ \A u \in Threads : u # t => destroying'[u] = destroying[u]
  BY <1>2, <1>3, <1>4, Zenon
<1>8. TypeOK' /\ MutexInv'
  <2>1. "io" \in Threads
    BY DEF Threads
  <2> QED
    BY <2>1, <1>1, <1>2, <1>6, <1>7, Zenon DEF TypeOK, MutexInv, Free
<1>9. HolderInv'
  <2>1. \A r \in Ids : Gone(r)' \/ (r <= created' /\ r \in sessions')
    BY <1>1, <1>2, <1>3 DEF HolderInv, Gone
  <2>2. \A k \in DOMAIN retired' : holders'[retired'[k]] = {} /\ retired'[k] <= created'
    BY <1>1, <1>2, <1>3, <1>6, Zenon DEF HolderInv, Gone
  <2>3. \A u \in Threads : destroying'[u] = None
                           \/ (holders'[destroying'[u]] = {} /\ destroying'[u] <= created')
    BY <1>1, <1>2, <1>7, Zenon DEF HolderInv, Gone, Free
  <2> QED
    BY <2>1, <2>2, <2>3, Zenon DEF HolderInv, Gone, Free
<1>10. ReportInv'
  <2>1. Range(retired) \subseteq Range(retired')
    BY <1>6, Zenon DEF Range
  <2>2. io # "collecting"
    BY <1>1, <1>2 DEF MutexInv
  <2> QED
    BY <2>1, <2>2, <1>1, <1>2, Zenon DEF ReportInv, Gone
<1> QED
  BY <1>5, <1>8, <1>9, <1>10, Zenon DEF MetricsInv

\* A publisher takes a reference to a session that somebody holds already.
LEMMA TakeKeepsMetrics ==
    ASSUME MetricsInv, NEW s \in Ids, TakeRecipient(s)
    PROVE  MetricsInv'
<1>1. TypeOK /\ MutexInv /\ RingInv /\ HolderInv /\ ReportInv
  BY DEF MetricsInv
<1>2. /\ "session" \in holders[s] /\ holders' = [holders EXCEPT ![s] = @ \cup {"worker"}]
      /\ UNCHANGED <<destroying, sessions_mutex, sessions, closed, closed_count, closed_next,
                     overwritten, retired, processed, rejected, io, todo, report, created>>
  BY DEF TakeRecipient, ringVars, counterVars, reportVars
<1>3. holders' \in [Ids -> SUBSET References]
  BY <1>1, <1>2 DEF TypeOK, References
<1>4. \A r \in Ids : /\ "report" \in holders'[r] <=> "report" \in holders[r]
                     /\ holders'[r] = {} <=> holders[r] = {}
  BY <1>1, <1>2 DEF TypeOK
<1>5. TypeOK' /\ MutexInv' /\ RingInv'
  BY <1>1, <1>2, <1>3, SameRing, Zenon DEF TypeOK, MutexInv, Free
<1>6. HolderInv'
  <2>1. \A k \in DOMAIN retired : retired[k] \in Ids
    BY <1>1 DEF TypeOK
  <2>2. \A t \in Threads : ~Free(t) => destroying[t] \in Ids
    BY <1>1, MetricsAssumption DEF TypeOK, Free, None, Ids
  <2> QED
    BY <2>1, <2>2, <1>1, <1>2, <1>4, Zenon DEF HolderInv, Gone, Free
<1>7. ReportInv'
  BY <1>1, <1>2, <1>4, Zenon DEF ReportInv, Gone
<1> QED
  BY <1>5, <1>6, <1>7, Zenon DEF MetricsInv

\* The reporter visits a session: it takes a reference, or finds nobody holding it.
LEMMA CollectKeepsMetrics ==
    ASSUME MetricsInv, NEW s \in Ids, ReportCollects(s)
    PROVE  MetricsInv'
<1>1. TypeOK /\ MutexInv /\ RingInv /\ HolderInv /\ ReportInv
  BY DEF MetricsInv
<1>2. /\ io = "collecting" /\ todo' = todo \ {s}
      /\ UNCHANGED <<destroying, sessions_mutex, sessions, closed, closed_count, closed_next,
                     overwritten, retired, processed, rejected, io, created>>
  BY DEF ReportCollects, ringVars, counterVars
<1>3. CASE holders[s] = {}
  <2>1. UNCHANGED <<holders, report>>
    BY <1>3, Zenon DEF ReportCollects
  <2>2. TypeOK' /\ MutexInv' /\ RingInv' /\ HolderInv'
    BY <2>1, <1>1, <1>2, SameRing, Zenon DEF TypeOK, MutexInv, HolderInv, Gone, Free
  <2>3. ReportInv'
    BY <2>1, <1>1, <1>2, <1>3 DEF ReportInv, Gone
  <2> QED
    BY <2>2, <2>3, Zenon DEF MetricsInv
<1>4. CASE holders[s] # {}
  <2>1. /\ holders' = [holders EXCEPT ![s] = @ \cup {"report"}]
        /\ report' = [report EXCEPT !.live = @ \cup {s}]
    BY <1>4, Zenon DEF ReportCollects
  <2>2. /\ holders' \in [Ids -> SUBSET References]
        /\ report' \in [processed : Nat, rejected : Nat, live : SUBSET Ids, closed : Seq(Nat)]
        /\ report'.live = report.live \cup {s}
    BY <2>1, <1>1, Zenon DEF TypeOK, References
  <2>3. \A r \in Ids : /\ "report" \in holders'[r] <=> ("report" \in holders[r] \/ r = s)
                       /\ holders'[r] = {} <=> holders[r] = {}
    BY <2>1, <1>1, <1>4 DEF TypeOK
  <2>4. TypeOK' /\ MutexInv' /\ RingInv'
    BY <2>2, <1>1, <1>2, SameRing, Zenon DEF TypeOK, MutexInv, Free
  <2>5. HolderInv'
    <3>1. \A k \in DOMAIN retired : retired[k] \in Ids
      BY <1>1 DEF TypeOK
    <3>2. \A t \in Threads : ~Free(t) => destroying[t] \in Ids
      BY <1>1, MetricsAssumption DEF TypeOK, Free, None, Ids
    <3> QED
      BY <3>1, <3>2, <2>3, <1>1, <1>2, Zenon DEF HolderInv, Gone, Free
  <2>6. ReportInv'
    <3>1. report'.live = {r \in Ids : "report" \in holders'[r]}
      BY <2>2, <2>3, <1>1, <1>2 DEF ReportInv
    <3>2. \A r \in Ids : holders'[r] = {} \/ r \in todo' \/ "report" \in holders'[r]
      BY <2>3, <1>1, <1>2 DEF ReportInv, Gone
    <3> QED
      BY <3>1, <3>2, <1>2 DEF ReportInv, Gone
  <2> QED
    BY <2>4, <2>5, <2>6, Zenon DEF MetricsInv
<1> QED
  BY <1>3, <1>4, Zenon

\* The other steps of snapshot() leave the sessions and the ring alone.
LEMMA ReportKeepsMetrics ==
    ASSUME MetricsInv,
           \/ ReportLoadsProcessed \/ ReportLoadsRejected \/ ReportLocks \/ ReportUnlocks
           \/ ReportReads \/ ReportReturns
    PROVE  MetricsInv'
<1>1. TypeOK /\ MutexInv /\ RingInv /\ HolderInv /\ ReportInv
  BY DEF MetricsInv
<1>2. UNCHANGED <<holders, destroying, sessions, closed, closed_count, closed_next, overwritten,
                  retired, processed, rejected, created>>
  BY DEF ReportLoadsProcessed, ReportLoadsRejected, ReportLocks, ReportUnlocks, ReportReads,
         ReportReturns, ringVars, counterVars
<1>3. RingInv' /\ HolderInv'
  BY <1>1, <1>2, SameRing, Zenon DEF HolderInv, Gone, Free
<1>4. /\ NoReport \in [processed : Nat, rejected : Nat, live : SUBSET Ids, closed : Seq(Nat)]
      /\ NoReport.live = {}
  BY DEF NoReport
<1>5. Ring \in Seq(Nat) /\ Range(Ring) \subseteq Range(retired)
  BY <1>1, RingReads, Zenon DEF TypeOK
<1>6. TypeOK'
  <2>1. report' \in [processed : Nat, rejected : Nat, live : SUBSET Ids, closed : Seq(Nat)]
    BY <1>1, <1>4, <1>5, Zenon DEF TypeOK, ReportLoadsProcessed, ReportLoadsRejected, ReportLocks,
                            ReportUnlocks, ReportReads, ReportReturns
  <2>2. io' \in ReportPlaces /\ sessions_mutex' \in {"free", "io"}
    BY <1>1 DEF TypeOK, ReportPlaces, ReportLoadsProcessed, ReportLoadsRejected, ReportLocks,
                ReportUnlocks, ReportReads, ReportReturns
  <2> QED
    BY <2>1, <2>2, <1>1, <1>2, Zenon DEF TypeOK
<1>7. MutexInv'
  BY <1>1, <1>2 DEF MutexInv, Free, IoFree, ReportLoadsProcessed, ReportLoadsRejected, ReportLocks,
                    ReportUnlocks, ReportReads, ReportReturns
<1>8. ReportInv'
  <2>1. CASE ReportLoadsProcessed
    <3>1. io = "idle" /\ io' = "loading" /\ report'.live = {}
      BY <2>1, <1>4 DEF ReportLoadsProcessed, IoFree, NoReport
    <3> QED
      BY <3>1, <1>1, <1>2 DEF ReportInv
  <2>2. CASE ReportLoadsRejected
    <3>1. io = "loading" /\ io' = "locking" /\ report'.live = report.live
      BY <2>2, <1>1 DEF ReportLoadsRejected, TypeOK
    <3> QED
      BY <3>1, <1>1, <1>2 DEF ReportInv
  <2>3. CASE ReportLocks
    <3>1. io = "locking" /\ io' = "collecting" /\ report' = report /\ todo' = sessions
      BY <2>3 DEF ReportLocks
    <3>2. \A s \in Ids : holders[s] = {} \/ s \in sessions
      BY <1>1, Zenon DEF HolderInv, Gone
    <3> QED
      BY <3>1, <3>2, <1>1, <1>2 DEF ReportInv, Gone
  <2>4. CASE ReportUnlocks
    <3>1. io = "collecting" /\ io' = "reading" /\ todo = {}
          /\ report'.live = report.live /\ report'.closed = Ring
      BY <2>4, <1>1 DEF ReportUnlocks, TypeOK
    <3> QED
      BY <3>1, <1>1, <1>2, <1>5 DEF ReportInv, Gone
  <2>5. CASE ReportReads
    BY <2>5 DEF ReportReads, ReportInv
  <2>6. CASE ReportReturns
    <3>1. io' = "idle" /\ \A s \in Ids : "report" \notin holders'[s]
      BY <2>6, <1>2 DEF ReportReturns
    <3> QED
      BY <3>1 DEF ReportInv
  <2> QED
    BY <2>1, <2>2, <2>3, <2>4, <2>5, <2>6, Zenon
<1> QED
  BY <1>3, <1>6, <1>7, <1>8, Zenon DEF MetricsInv

\* Every step of the I/O thread and of the Room worker keeps the invariant.
LEMMA MetricsInductive == MetricsInv /\ [Next]_vars => MetricsInv'
<1> SUFFICES ASSUME MetricsInv, [Next]_vars PROVE MetricsInv'
  OBVIOUS
<1>1. TypeOK /\ MutexInv /\ RingInv /\ HolderInv /\ ReportInv
  BY DEF MetricsInv
<1>2. CASE CommandProcessed \/ CommandRejected \/ Finished \/ UNCHANGED vars
  <2>1. UNCHANGED <<holders, destroying, sessions_mutex, sessions, closed, closed_count, closed_next,
                    overwritten, retired, io, todo, report, created>>
    BY <1>2, Zenon DEF CommandProcessed, CommandRejected, Finished, vars, ringVars, reportVars
  <2>2. processed' \in Nat /\ rejected' \in Nat
    BY <1>1, <1>2, SMTT(30) DEF TypeOK, CommandProcessed, CommandRejected, Finished, vars, counterVars
  <2>3. TypeOK' /\ MutexInv' /\ RingInv' /\ HolderInv' /\ ReportInv'
    BY <2>1, <2>2, <1>1, SameRing, Zenon DEF TypeOK, MutexInv, HolderInv, ReportInv, Gone, Free
  <2> QED
    BY <2>3, Zenon DEF MetricsInv
<1>3. CASE CreateSession
  BY <1>3, CreateKeepsMetrics
<1>4. CASE ReportStep
  <2>1. ASSUME NEW s \in Ids, ReportCollects(s) \/ ReportReleases(s) PROVE MetricsInv'
    BY <2>1, CollectKeepsMetrics, DropsKeepMetrics, Zenon
  <2> QED
    BY <1>4, <2>1, ReportKeepsMetrics, Zenon DEF ReportStep
<1>5. ASSUME NEW s \in Ids, SessionEnds(s) \/ TakeRecipient(s) \/ DropRecipient(s) PROVE MetricsInv'
  BY <1>5, DropsKeepMetrics, TakeKeepsMetrics, Zenon
<1>6. ASSUME NEW t \in Threads, RetireSession(t) PROVE MetricsInv'
  BY <1>6, RetireKeepsMetrics
<1> QED
  BY <1>2, <1>3, <1>4, <1>5, <1>6, Zenon DEF Next

-----------------------------------------------------------------------------
(* What the metrics promise *)

\* The server's metrics keep their invariant, whatever the capacity of the ring and
\* however many sessions, commands and reports there are.
THEOREM MetricsInvariance == Spec => []MetricsInv
<1>1. Init => MetricsInv
  BY MetricsInitially
<1> QED
  BY <1>1, MetricsInductive, PTL DEF Spec

\* snapshot() releases its references outside sessions_mutex_, and so no thread comes to
\* retire_session while it holds the mutex.
THEOREM NeverSelfDeadlocked == Spec => []NoSelfDeadlock
<1>1. MetricsInv => NoSelfDeadlock
  BY DEF MetricsInv, TypeOK, MutexInv, NoSelfDeadlock, Threads
<1> QED
  BY <1>1, MetricsInvariance, PTL

\* The ring that retire_session writes, read as snapshot() reads it, is the latest
\* sessions retired in their order, before and after it wraps.
THEOREM RingStaysRecent == Spec => []RingIsRecent
<1>1. MetricsInv => RingIsRecent
  BY RingReads, Zenon DEF MetricsInv, TypeOK
<1> QED
  BY <1>1, MetricsInvariance, PTL

\* While snapshot() reads the gauges, what it has collected is every session in
\* existence, and none of those that it lists as closed.
THEOREM ReportsPartition == Spec => []ReportIsPartition
<1>1. ASSUME MetricsInv, io = "reading"
      PROVE  /\ report.live = {s \in Ids : holders[s] # {}}
             /\ report.live \cap Range(report.closed) = {}
  <2>1. /\ report.live = {s \in Ids : "report" \in holders[s]}
        /\ \A s \in Ids : Gone(s) \/ "report" \in holders[s]
        /\ Range(report.closed) \subseteq Range(retired)
    BY <1>1, Zenon DEF MetricsInv, ReportInv
  <2>2. \A s \in Range(retired) : Gone(s)
    BY <1>1, Zenon DEF MetricsInv, HolderInv, Range
  <2> QED
    BY <2>1, <2>2 DEF Gone
<1>2. MetricsInv => ReportIsPartition
  BY <1>1, Zenon DEF ReportIsPartition
<1> QED
  BY <1>2, MetricsInvariance, PTL

(***************************************************************************)
(* The ranks of the latency summary                                        *)
(***************************************************************************)

\* Unsigned arithmetic leaves a number that fits its width alone.
LEMMA WrapFits ==
    ASSUME NEW n \in Nat, n < SizeModulus
    PROVE  Wrap(n) = n
  BY SizeAssumption DEF Wrap

\* The quotient and the remainder by 100 that nearest_rank_percentile starts from.
LEMMA Hundreds ==
    ASSUME NEW n \in Nat
    PROVE  /\ n \div 100 \in Nat
           /\ n % 100 \in 0 .. 99
           /\ n = 100 * (n \div 100) + (n % 100)
  OBVIOUS

\* The share of a remainder r that nearest_rank_percentile adds to the hundreds'.
Share(r, p) == Wrap(Wrap(r * p) + 99) \div 100

\* It is rounded up, with a numerator that never wraps.
LEMMA RemainderShare ==
    ASSUME NEW r \in 0 .. 99, NEW p \in Percentiles
    PROVE  /\ Share(r, p) \in 0 .. r
           /\ 100 * Share(r, p) >= r * p
           /\ 100 * Share(r, p) < r * p + 100
  <1>1. r * p \in Nat /\ r * p <= 100 * r /\ r * p + 99 <= 9900
    BY DEF Percentiles
  <1>2. Wrap(r * p) = r * p /\ Wrap(r * p + 99) = r * p + 99
    BY <1>1, WrapFits, SizeAssumption
  <1> DEFINE x == r * p
  <1> HIDE DEF x
  <1>3. x \in Nat /\ x <= 100 * r
    BY <1>1 DEF x
  <1>4. /\ (x + 99) \div 100 \in 0 .. r
        /\ 100 * ((x + 99) \div 100) >= x
        /\ 100 * ((x + 99) \div 100) < x + 100
    BY <1>3
  <1> QED
    BY <1>2, <1>4 DEF x, Share

\* nearest_rank_percentile's rank is in range and nearest, for every number of
\* samples a size_t can hold.
LEMMA RankNearest ==
    ASSUME NEW n \in Nat, 0 < n, n < SizeModulus, NEW p \in Percentiles
    PROVE  /\ Rank(n, p) \in 1 .. n
           /\ 100 * Rank(n, p) >= n * p
           /\ 100 * (Rank(n, p) - 1) < n * p
  <1> DEFINE h == n \div 100
             r == n % 100
             q == Share(r, p)
  <1>1. h \in Nat /\ r \in 0 .. 99 /\ n = 100 * h + r
    BY Hundreds
  <1>2. Rank(n, p) = Wrap(Wrap(h * p) + q)
    BY DEF Rank, Share
  <1> HIDE DEF h, r
  <1>3. q \in 0 .. r /\ 100 * q >= r * p /\ 100 * q < r * p + 100
    BY <1>1, RemainderShare, ZenonT(30)
  <1> HIDE DEF q
  <1>4. h * p \in Nat /\ h * p <= 100 * h
    BY <1>1 DEF Percentiles
  <1>5. h * p < SizeModulus /\ h * p + q <= n /\ h * p + q < SizeModulus
    BY <1>1, <1>3, <1>4, SizeAssumption
  <1>6. Rank(n, p) = h * p + q
    BY <1>2, <1>3, <1>4, <1>5, WrapFits
  <1>7. CASE p = 50
    BY <1>1, <1>3, <1>5, <1>6, <1>7
  <1>8. CASE p = 95
    BY <1>1, <1>3, <1>5, <1>6, <1>8
  <1>9. CASE p = 99
    BY <1>1, <1>3, <1>5, <1>6, <1>9
  <1> QED
    BY <1>7, <1>8, <1>9 DEF Percentiles

\* Whatever number of samples run_load_test recorded, up to what a size_t holds,
\* the percentiles index an existing sample, and the nearest one.
THEOREM RankCorrect == \A n \in 1 .. MaxSamples : RanksAreNearest(n)
  <1> SUFFICES ASSUME NEW n \in 1 .. MaxSamples, NEW p \in Percentiles
               PROVE  /\ Rank(n, p) \in 1 .. n
                      /\ 100 * Rank(n, p) >= n * p
                      /\ 100 * (Rank(n, p) - 1) < n * p
    BY DEF RanksAreNearest
  <1>1. n \in Nat /\ 0 < n /\ n < SizeModulus
    BY SizeAssumption
  <1> QED
    BY <1>1, RankNearest
=============================================================================
