----------------------------- MODULE SyncProofs -----------------------------
(***************************************************************************)
(* The timer set's references are exact, for any entries, threads and clock *)
(* bound; the event's counters are exact and no wake-up is lost, for any    *)
(* finite number of waiting threads; the barrier keeps any finite number of *)
(* threads in lockstep, for any width of the generation counter.            *)
(***************************************************************************)
EXTENDS TimerSet, Event, Barrier, FiniteSetTheorems, TLAPS

(* The timer set. *)

(* schedule, cancel and poll keep every entry and callback well formed. *)
THEOREM TypeCorrect == ASSUME FiniteTimers PROVE Spec => []TypeOK
<1>1. Init => TypeOK
  BY DEF Init, TypeOK, Times, FiniteTimers
<1>2. TypeOK /\ [Next]_vars => TypeOK'
  <2> SUFFICES ASSUME TypeOK, [Next]_vars PROVE TypeOK'
    OBVIOUS
  <2>1. CASE Tick
    BY <2>1 DEF TypeOK, Tick, Times, FiniteTimers
  <2>2. ASSUME NEW e \in Entries, NEW time \in Times, NEW grp \in BOOLEAN,
               Schedule(e, time, grp)
        PROVE  TypeOK'
    BY <2>2 DEF TypeOK, Schedule, Timer
  <2>3. ASSUME NEW e \in Entries, Cancel(e) PROVE TypeOK'
    BY <2>3 DEF TypeOK, Cancel
  <2>4. ASSUME NEW e \in Entries, NEW t \in Threads, Fire(t, e) PROVE TypeOK'
    <3>1. running[e] \in Timer
      BY <2>4 DEF TypeOK, Fire
    <3>2. [entry |-> e, grp |-> running[e].grp] \in [entry : Entries, grp : BOOLEAN]
      BY <3>1 DEF Timer
    <3>3. QED
      BY <2>4, <3>2 DEF TypeOK, Fire
  <2>5. ASSUME NEW t \in Threads, Finish(t) PROVE TypeOK'
    BY <2>5 DEF TypeOK, Finish
  <2>6. CASE UNCHANGED vars
    BY <2>6 DEF TypeOK, vars
  <2>7. QED
    BY <2>1, <2>2, <2>3, <2>4, <2>5, <2>6 DEF Next
<1>3. QED
  BY <1>1, <1>2, PTL DEF Spec

(* The two sets that are counted are finite. *)
LEMMA CountsAreNaturals ==
  ASSUME FiniteTimers
  PROVE  /\ IsFiniteSet(Holding) /\ Cardinality(Holding) \in Nat
         /\ IsFiniteSet(FiringWithRef) /\ Cardinality(FiringWithRef) \in Nat
<1>1. Holding \in SUBSET Entries /\ FiringWithRef \in SUBSET Threads
  BY DEF Holding, FiringWithRef
<1>2. IsFiniteSet(Holding) /\ IsFiniteSet(FiringWithRef)
  BY <1>1, FS_Subset DEF FiniteTimers
<1>3. QED
  BY <1>2, FS_CardinalityType

(* One reference of the group lock per running timer and per callback in   *)
(* progress: schedule takes it, and cancel or the poll that fired the timer *)
(* gives it back, exactly once, whichever thread comes first.               *)
THEOREM ReferencesExact == ASSUME FiniteTimers PROVE Spec => []RefPerTimer
<1>1. Init => RefPerTimer
  <2> SUFFICES ASSUME Init PROVE RefPerTimer
    OBVIOUS
  <2>1. Holding = {} /\ FiringWithRef = {}
    BY DEF Init, Holding, FiringWithRef
  <2>2. QED
    BY <2>1, FS_EmptySet DEF Init, RefPerTimer
<1>2. TypeOK /\ RefPerTimer /\ [Next]_vars => RefPerTimer'
  <2> SUFFICES ASSUME TypeOK, RefPerTimer, [Next]_vars PROVE RefPerTimer'
    OBVIOUS
  <2> USE CountsAreNaturals
  <2>1. CASE Tick
    BY <2>1 DEF RefPerTimer, Tick, Holding, FiringWithRef
  <2>2. ASSUME NEW e \in Entries, NEW time \in Times, NEW grp \in BOOLEAN,
               Schedule(e, time, grp)
        PROVE  RefPerTimer'
    <3>1. /\ running' = [running EXCEPT ![e] = [time |-> time, grp |-> grp]]
          /\ running[e] = Nil /\ e \notin Holding
          /\ FiringWithRef' = FiringWithRef
      BY <2>2 DEF Schedule, FiringWithRef, Holding
    <3>2. [time |-> time, grp |-> grp] # Nil
      BY DEF Timer, FiniteTimers
    <3>3. Holding' = IF grp THEN Holding \cup {e} ELSE Holding
      BY <3>1, <3>2 DEF Holding, TypeOK
    <3>4. Cardinality(Holding') = Cardinality(Holding) + (IF grp THEN 1 ELSE 0)
      <4>1. CASE grp
        BY <4>1, <3>1, <3>3, FS_AddElement
      <4>2. CASE ~grp
        BY <4>2, <3>3
      <4>3. QED
        BY <4>1, <4>2
    <3>5. QED
      BY <2>2, <3>1, <3>4 DEF RefPerTimer, Schedule
  <2>3. ASSUME NEW e \in Entries, Cancel(e) PROVE RefPerTimer'
    <3>1. FiringWithRef' = FiringWithRef /\ Holding' = Holding \ {e}
      BY <2>3 DEF Cancel, FiringWithRef, Holding, TypeOK
    <3>2. e \in Holding <=> running[e].grp
      BY <2>3 DEF Cancel, Holding
    <3>3. Cardinality(Holding') = IF running[e].grp THEN Cardinality(Holding) - 1
                                                    ELSE Cardinality(Holding)
      BY <3>1, <3>2, FS_RemoveElement
    <3>4. QED
      BY <2>3, <3>1, <3>3 DEF RefPerTimer, Cancel
  <2>4. ASSUME NEW e \in Entries, NEW t \in Threads, Fire(t, e) PROVE RefPerTimer'
    <3>1. Holding' = Holding \ {e} /\ (e \in Holding <=> running[e].grp)
      BY <2>4 DEF Fire, Holding, TypeOK
    <3>2. [entry |-> e, grp |-> running[e].grp] # Nil
      BY <2>4 DEF Fire, TypeOK, Timer, FiniteTimers
    <3>3. t \notin FiringWithRef
      BY <2>4 DEF Fire, FiringWithRef
    <3>4. FiringWithRef' = IF running[e].grp THEN FiringWithRef \cup {t} ELSE FiringWithRef
      BY <2>4, <3>2 DEF Fire, FiringWithRef, TypeOK
    <3>5. Cardinality(Holding') = IF running[e].grp THEN Cardinality(Holding) - 1
                                                    ELSE Cardinality(Holding)
      BY <3>1, FS_RemoveElement
    <3>6. Cardinality(FiringWithRef') = IF running[e].grp THEN Cardinality(FiringWithRef) + 1
                                                          ELSE Cardinality(FiringWithRef)
      BY <3>3, <3>4, FS_AddElement
    <3>7. QED
      BY <2>4, <3>5, <3>6 DEF RefPerTimer, Fire
  <2>5. ASSUME NEW t \in Threads, Finish(t) PROVE RefPerTimer'
    <3>1. Holding' = Holding /\ FiringWithRef' = FiringWithRef \ {t}
      BY <2>5 DEF Finish, FiringWithRef, Holding, TypeOK
    <3>2. t \in FiringWithRef <=> firing[t].grp
      BY <2>5 DEF Finish, FiringWithRef
    <3>3. Cardinality(FiringWithRef') = IF firing[t].grp THEN Cardinality(FiringWithRef) - 1
                                                         ELSE Cardinality(FiringWithRef)
      BY <3>1, <3>2, FS_RemoveElement
    <3>4. QED
      BY <2>5, <3>1, <3>3 DEF RefPerTimer, Finish
  <2>6. CASE UNCHANGED vars
    BY <2>6 DEF RefPerTimer, vars, Holding, FiringWithRef
  <2>7. QED
    BY <2>1, <2>2, <2>3, <2>4, <2>5, <2>6 DEF Next
<1>3. QED
  BY <1>1, <1>2, TypeCorrect, PTL DEF Spec
-----------------------------------------------------------------------------
(* The event. *)

EventTypes == /\ auto_reset \in BOOLEAN
              /\ state \in {"EV_STATE_SET", "EV_STATE_PULSED", "EV_STATE_OFF"}
              /\ threads_waiting \in Nat
              /\ waiter \in [EventThreads -> {"out", "asleep", "awake"}]

(* The two properties need each other: a pulse may count on                 *)
(* threads_waiting only because it is exact, and each release uses up one   *)
(* thread that is awake.                                                    *)
EventInv == EventTypes /\ EventCountersExact /\ NoReleaseStranded

Inside == EventThreads \ Are("out")
-----------------------------------------------------------------------------
LEMMA PlacesFinite ==
  /\ \A S \in SUBSET EventThreads : IsFiniteSet(S) /\ Cardinality(S) \in Nat
                                    /\ Cardinality(S) <= Cardinality(EventThreads)
  /\ Cardinality(EventThreads) \in Nat \ {0}
<1>1. IsFiniteSet(EventThreads)
  BY EventAssumption
<1>2. \A S \in SUBSET EventThreads : IsFiniteSet(S) /\ Cardinality(S) <= Cardinality(EventThreads)
  BY <1>1, FS_Subset
<1>3. \A S \in SUBSET EventThreads : Cardinality(S) \in Nat
  BY <1>2, FS_CardinalityType
<1>4. Cardinality(EventThreads) \in Nat \ {0}
  BY <1>1, EventAssumption, FS_CardinalityType, FS_EmptySet
<1> QED BY <1>2, <1>3, <1>4

(* One thread enters or leaves a set of threads. *)
LEMMA OneMore ==
  ASSUME NEW S \in SUBSET EventThreads, NEW t \in EventThreads \ S
  PROVE  Cardinality(S \cup {t}) = Cardinality(S) + 1
BY PlacesFinite, FS_AddElement

LEMMA OneLess ==
  ASSUME NEW S \in SUBSET EventThreads, NEW t \in S
  PROVE  Cardinality(S \ {t}) = Cardinality(S) - 1
BY PlacesFinite, FS_RemoveElement

LEMMA NonEmpty ==
  ASSUME NEW S \in SUBSET EventThreads, NEW t \in S
  PROVE  Cardinality(S) >= 1
BY PlacesFinite, FS_EmptySet

(* pthread_cond_signal leaves somebody awake, or nobody asleep. *)
LEMMA SignalWakes ==
  ASSUME EventTypes, Signal
  PROVE  /\ waiter' \in [EventThreads -> {"out", "asleep", "awake"}]
         /\ Are("out")' = Are("out")
         /\ Are("asleep")' # {} => Cardinality(Are("awake")') >= 1
<1>1. CASE Are("asleep") = {} /\ UNCHANGED waiter
  BY <1>1 DEF EventTypes, Are
<1>2. ASSUME NEW t \in Are("asleep"), waiter' = [waiter EXCEPT ![t] = "awake"]
      PROVE  /\ waiter' \in [EventThreads -> {"out", "asleep", "awake"}]
             /\ Are("out")' = Are("out")
             /\ Cardinality(Are("awake")') >= 1
  <2>1. t \in Are("awake")' /\ Are("awake")' \in SUBSET EventThreads
    BY <1>2 DEF EventTypes, Are
  <2>2. Cardinality(Are("awake")') >= 1
    BY <2>1, NonEmpty
  <2> QED BY <1>2, <2>2 DEF EventTypes, Are
<1> QED BY <1>1, <1>2 DEF Signal

LEMMA BroadcastWakes ==
  ASSUME EventTypes, Broadcast
  PROVE  /\ waiter' \in [EventThreads -> {"out", "asleep", "awake"}]
         /\ Are("out")' = Are("out")
         /\ Are("asleep")' = {}
BY DEF EventTypes, Broadcast, Are
-----------------------------------------------------------------------------
(* One release: an automatic event goes off, a manual one that is set stays *)
(* so, and a manual pulse has one release less.                             *)
LEMMA ReleaseEffect ==
  ASSUME EventInv, state # "EV_STATE_OFF", event_on_one_release, UNCHANGED auto_reset
  PROVE  /\ state' \in {"EV_STATE_SET", "EV_STATE_PULSED", "EV_STATE_OFF"}
         /\ threads_to_release' \in 0 .. Cardinality(EventThreads)
         /\ state' = "EV_STATE_OFF" <=> threads_to_release' = 0
         /\ state' = "EV_STATE_PULSED" =>
              state = "EV_STATE_PULSED" /\ threads_to_release' = threads_to_release - 1
         /\ state' = "EV_STATE_SET" => Are("asleep") = {}
<1> USE PlacesFinite DEF EventInv, EventTypes, EventCountersExact, NoReleaseStranded
<1>1. CASE auto_reset /\ threads_to_release' = 0 /\ state' = "EV_STATE_OFF"
  BY <1>1
<1>2. CASE ~auto_reset /\ state = "EV_STATE_SET" /\ UNCHANGED <<state, threads_to_release>>
  BY <1>2
<1>3. CASE /\ ~auto_reset /\ state = "EV_STATE_PULSED"
           /\ threads_to_release' = threads_to_release - 1
           /\ state' = IF threads_to_release = 1 THEN "EV_STATE_OFF" ELSE state
  BY <1>3
<1> QED BY <1>1, <1>2, <1>3 DEF event_on_one_release

(* A release by a thread that does not sleep: of pj_event_trywait, or of a  *)
(* pj_event_wait that finds the event on.                                   *)
LEMMA ReleaseKeeps ==
  ASSUME EventInv, state # "EV_STATE_OFF", event_on_one_release,
         UNCHANGED <<auto_reset, threads_waiting, waiter>>
  PROVE  EventInv'
<1>1. UNCHANGED auto_reset /\ UNCHANGED threads_waiting /\ UNCHANGED waiter
  OBVIOUS
<1>2. Are("asleep")' = Are("asleep") /\ Are("awake")' = Are("awake") /\ Are("out")' = Are("out")
  BY <1>1 DEF Are
<1>3. /\ Cardinality(Are("awake")) \in Nat
      /\ threads_to_release \in Nat
  BY PlacesFinite DEF Are, EventInv, EventCountersExact
<1>4. EventTypes'
  BY <1>1, ReleaseEffect DEF EventInv, EventTypes
<1>5. EventCountersExact'
  BY <1>1, <1>2, <1>3, ReleaseEffect DEF EventInv, EventTypes, EventCountersExact
<1>6. NoReleaseStranded'
  BY <1>1, <1>2, <1>3, ReleaseEffect DEF EventInv, EventTypes, NoReleaseStranded
<1> QED BY <1>4, <1>5, <1>6 DEF EventInv

LEMMA WaitBeginsKeeps ==
  ASSUME EventInv, NEW t \in EventThreads, WaitBegins(t)
  PROVE  EventInv'
<1>1. CASE state = "EV_STATE_OFF"
  <2>1. EventTypes'
    BY <1>1 DEF EventInv, EventTypes, WaitBegins
  <2>2. Inside' = Inside \cup {t} /\ t \notin Inside
    BY <1>1 DEF EventInv, EventTypes, WaitBegins, Inside, Are
  <2>3. Cardinality(Inside') = Cardinality(Inside) + 1
    BY <2>2, OneMore DEF Inside
  <2>4. EventCountersExact'
    BY <1>1, <2>3 DEF EventInv, EventTypes, EventCountersExact, WaitBegins, Inside
  <2>5. NoReleaseStranded'
    BY <1>1 DEF EventInv, NoReleaseStranded, WaitBegins
  <2> QED BY <2>1, <2>4, <2>5 DEF EventInv
<1>2. CASE state # "EV_STATE_OFF"
  <2>1. event_on_one_release /\ UNCHANGED <<auto_reset, threads_waiting, waiter>>
    BY <1>2 DEF WaitBegins
  <2> QED BY <1>2, <2>1, ReleaseKeeps
<1> QED BY <1>1, <1>2

LEMMA SpuriousWakeupKeeps ==
  ASSUME EventInv, NEW t \in EventThreads, SpuriousWakeup(t)
  PROVE  EventInv'
<1>1. EventTypes'
  BY DEF EventInv, EventTypes, SpuriousWakeup
<1>2. /\ Are("out")' = Are("out")
      /\ Are("asleep")' = Are("asleep") \ {t}
      /\ Are("awake")' = Are("awake") \cup {t} /\ t \in EventThreads \ Are("awake")
      /\ Are("awake") \in SUBSET EventThreads /\ t \in Are("asleep")
  BY DEF EventInv, EventTypes, SpuriousWakeup, Are
<1>3. Cardinality(Are("awake")') = Cardinality(Are("awake")) + 1
  BY <1>2, OneMore
<1>4. EventCountersExact'
  BY <1>2 DEF EventInv, EventCountersExact, SpuriousWakeup
<1>5. NoReleaseStranded'
  BY <1>2, <1>3, PlacesFinite DEF EventInv, EventCountersExact, NoReleaseStranded, SpuriousWakeup
<1> QED BY <1>1, <1>4, <1>5 DEF EventInv

LEMMA WaitTestsKeeps ==
  ASSUME EventInv, NEW t \in EventThreads, WaitTests(t)
  PROVE  EventInv'
<1>1. CASE state = "EV_STATE_OFF"
  <2>1. EventTypes'
    BY <1>1 DEF EventInv, EventTypes, WaitTests
  <2>2. Are("out")' = Are("out")
    BY <1>1 DEF EventInv, EventTypes, WaitTests, Are
  <2>3. EventCountersExact'
    BY <1>1, <2>2 DEF EventInv, EventCountersExact, WaitTests
  <2>4. NoReleaseStranded'
    BY <1>1 DEF EventInv, NoReleaseStranded, WaitTests
  <2> QED BY <2>1, <2>3, <2>4 DEF EventInv
<1>2. CASE state # "EV_STATE_OFF"
  <2>1. /\ threads_waiting' = threads_waiting - 1
        /\ waiter' = [waiter EXCEPT ![t] = "out"]
        /\ event_on_one_release
        /\ UNCHANGED auto_reset
        /\ waiter[t] = "awake"
    BY <1>2 DEF WaitTests
  <2>2. /\ Inside' = Inside \ {t} /\ t \in Inside /\ Inside \in SUBSET EventThreads
        /\ Are("awake")' = Are("awake") \ {t} /\ t \in Are("awake")
        /\ Are("awake") \in SUBSET EventThreads
        /\ Are("asleep")' = Are("asleep")
    BY <2>1 DEF EventInv, EventTypes, Inside, Are
  <2>3. /\ Cardinality(Inside') = Cardinality(Inside) - 1
        /\ Cardinality(Are("awake")') = Cardinality(Are("awake")) - 1
        /\ Cardinality(Inside) >= 1
    BY <2>2, OneLess, NonEmpty
  <2>4. /\ Cardinality(Are("awake")) \in Nat /\ Cardinality(Inside) \in Nat
        /\ threads_to_release \in Nat
    BY <2>2, PlacesFinite DEF EventInv, EventCountersExact
  <2>5. threads_waiting = Cardinality(Inside)
    BY DEF EventInv, EventCountersExact, Inside
  <2>6. EventTypes'
    BY <1>2, <2>1, <2>3, <2>4, <2>5, ReleaseEffect DEF EventInv, EventTypes
  <2>7. EventCountersExact'
    <3>1. threads_waiting' = Cardinality(EventThreads \ Are("out")')
      BY <2>1, <2>3, <2>5 DEF Inside
    <3> QED BY <1>2, <2>1, <2>4, <2>5, <3>1, ReleaseEffect DEF EventInv, EventCountersExact
  <2>8. NoReleaseStranded'
    BY <1>2, <2>1, <2>2, <2>3, <2>4, ReleaseEffect DEF EventInv, NoReleaseStranded, EventTypes
  <2> QED BY <2>6, <2>7, <2>8 DEF EventInv
<1> QED BY <1>1, <1>2

LEMMA SetKeeps ==
  ASSUME EventInv, pj_event_set
  PROVE  EventInv'
<1>1. /\ threads_to_release' = 1 /\ state' = "EV_STATE_SET"
      /\ UNCHANGED auto_reset /\ UNCHANGED threads_waiting
  BY DEF pj_event_set
<1>2. /\ waiter' \in [EventThreads -> {"out", "asleep", "awake"}]
      /\ Are("out")' = Are("out")
      /\ Are("asleep")' # {} => auto_reset /\ Cardinality(Are("awake")') >= 1
  BY SignalWakes, BroadcastWakes DEF pj_event_set, EventInv
<1>3. EventTypes'
  BY <1>1, <1>2 DEF EventInv, EventTypes
<1>4. EventCountersExact'
  BY <1>1, <1>2, PlacesFinite DEF EventInv, EventCountersExact
<1>5. NoReleaseStranded'
  BY <1>1, <1>2 DEF NoReleaseStranded
<1> QED BY <1>3, <1>4, <1>5 DEF EventInv

LEMMA PulseKeeps ==
  ASSUME EventInv, pj_event_pulse
  PROVE  EventInv'
<1>1. /\ threads_waiting > 0 /\ state' = "EV_STATE_PULSED"
      /\ UNCHANGED auto_reset /\ UNCHANGED threads_waiting
      /\ threads_to_release' = 1 \/ threads_to_release' = threads_waiting
  BY DEF pj_event_pulse
<1>2. /\ waiter' \in [EventThreads -> {"out", "asleep", "awake"}]
      /\ Are("out")' = Are("out")
      /\ Are("asleep")' # {} =>
           threads_to_release' = 1 /\ Cardinality(Are("awake")') >= 1
  BY SignalWakes, BroadcastWakes DEF pj_event_pulse, EventInv
<1>3. EventTypes'
  BY <1>1, <1>2 DEF EventInv, EventTypes
<1>4. threads_waiting \in Nat /\ threads_waiting <= Cardinality(EventThreads)
  BY PlacesFinite DEF EventInv, EventTypes, EventCountersExact
<1>5. EventCountersExact'
  BY <1>1, <1>2, <1>4, PlacesFinite DEF EventInv, EventCountersExact
<1>6. NoReleaseStranded'
  BY <1>1, <1>2 DEF NoReleaseStranded
<1> QED BY <1>3, <1>5, <1>6 DEF EventInv

LEMMA ResetKeeps ==
  ASSUME EventInv, pj_event_reset
  PROVE  EventInv'
<1>1. Are("out")' = Are("out")
  BY DEF pj_event_reset, Are
<1> QED BY <1>1, PlacesFinite
        DEF pj_event_reset, EventInv, EventTypes, EventCountersExact, NoReleaseStranded
-----------------------------------------------------------------------------
LEMMA EventInitially == EventInit => EventInv
<1> SUFFICES ASSUME EventInit PROVE EventInv
  OBVIOUS
<1>1. EventTypes
  BY DEF EventInit, EventTypes
<1>2. EventThreads \ Are("out") = {} /\ Are("asleep") = {}
  BY DEF EventInit, Are
<1>3. EventCountersExact
  BY <1>2, PlacesFinite, FS_EmptySet DEF EventInit, EventCountersExact
<1>4. NoReleaseStranded
  BY <1>2 DEF NoReleaseStranded
<1> QED BY <1>1, <1>3, <1>4 DEF EventInv

LEMMA EventStep == EventInv /\ [EventNext]_eventvars => EventInv'
<1> SUFFICES ASSUME EventInv, [EventNext]_eventvars PROVE EventInv'
  OBVIOUS
<1>1. ASSUME NEW t \in EventThreads, WaitBegins(t) PROVE EventInv'
  BY <1>1, WaitBeginsKeeps
<1>2. ASSUME NEW t \in EventThreads, SpuriousWakeup(t) PROVE EventInv'
  BY <1>2, SpuriousWakeupKeeps
<1>3. ASSUME NEW t \in EventThreads, WaitTests(t) PROVE EventInv'
  BY <1>3, WaitTestsKeeps
<1>4. CASE pj_event_trywait
  BY <1>4, ReleaseKeeps DEF pj_event_trywait
<1>5. CASE pj_event_set
  BY <1>5, SetKeeps
<1>6. CASE pj_event_pulse
  BY <1>6, PulseKeeps
<1>7. CASE pj_event_reset
  BY <1>7, ResetKeeps
<1>8. CASE UNCHANGED eventvars
  BY <1>8 DEF eventvars, EventInv, EventTypes, EventCountersExact, NoReleaseStranded, Are
<1> QED BY <1>1, <1>2, <1>3, <1>4, <1>5, <1>6, <1>7, <1>8 DEF EventNext

(* No release of pj_event_set or pj_event_pulse is left while all waiters   *)
(* sleep, however many threads wait and however their calls interleave.     *)
THEOREM ReleasesNotStranded == EventSpec => []NoReleaseStranded
<1>1. EventInv => NoReleaseStranded
  BY DEF EventInv
<1> QED BY <1>1, EventInitially, EventStep, PTL DEF EventSpec

(* The counters of the event are exact for any number of threads: a pulse   *)
(* never has more releases to give than there are threads in pj_event_wait. *)
THEOREM CountersExact == EventSpec => []EventCountersExact
<1>1. EventInv => EventCountersExact
  BY DEF EventInv
<1> QED BY <1>1, EventInitially, EventStep, PTL DEF EventSpec
-----------------------------------------------------------------------------
(* The barrier. *)

(* The threads that made the call of the round in progress. *)
InRound == {t \in BarrierThreads : arrived[t] = last + 1}

BarrierTypes == /\ count \in Nat
                /\ last \in Nat
                /\ DOMAIN caller = BarrierThreads
                /\ DOMAIN gen = BarrierThreads
                /\ arrived \in [BarrierThreads -> Nat]
                /\ left \in [BarrierThreads -> Nat]

(* last is the number of rounds completed.  A thread has made the call of   *)
(* the last completed round or also the one of the round in progress, in    *)
(* which case it is still inside, with the present generation; count counts *)
(* those, and never reaches the number of threads.                          *)
RoundOf(t) ==
  /\ arrived[t] \in {last, last + 1}
  /\ left[t] <= last
  /\ arrived[t] = last + 1 => caller[t] # "out" /\ gen[t] = barrier_generation
  /\ caller[t] = "out" => left[t] = arrived[t]
  /\ caller[t] # "out" => left[t] + 1 = arrived[t]

RoundInv == /\ BarrierTypes
            /\ count = Cardinality(InRound)
            /\ \A t \in BarrierThreads : RoundOf(t)
-----------------------------------------------------------------------------
LEMMA RoundFinite == IsFiniteSet(BarrierThreads) => IsFiniteSet(InRound)
BY FS_Subset DEF InRound

(* The caller that trips the barrier is the only one not yet in the round. *)
LEMMA OthersArrived ==
  ASSUME RoundInv, NEW t \in BarrierThreads, caller[t] = "out",
         count + 1 >= trip_count
  PROVE  /\ arrived[t] = last
         /\ \A u \in BarrierThreads \ {t} : arrived[u] = last + 1
<1>1. arrived[t] = last /\ t \notin InRound
  BY DEF RoundInv, RoundOf, BarrierTypes, InRound
<1>2. InRound \subseteq BarrierThreads \ {t}
  BY <1>1 DEF InRound
<1>3. IsFiniteSet(BarrierThreads) /\ IsFiniteSet(BarrierThreads \ {t})
  BY BarrierAssumption, FS_RemoveElement
<1>4. /\ Cardinality(BarrierThreads \ {t}) = Cardinality(BarrierThreads) - 1
      /\ Cardinality(BarrierThreads) \in Nat
  BY <1>3, FS_RemoveElement, FS_CardinalityType
<1>5. Cardinality(InRound) >= Cardinality(BarrierThreads \ {t})
  BY <1>4 DEF RoundInv, BarrierTypes, trip_count
<1>6. Cardinality(InRound) <= Cardinality(BarrierThreads \ {t})
  BY <1>2, <1>3, FS_Subset
<1>7. Cardinality(InRound) = Cardinality(BarrierThreads \ {t})
  <2>1. Cardinality(InRound) \in Nat /\ Cardinality(BarrierThreads \ {t}) \in Nat
    BY <1>3, RoundFinite, FS_CardinalityType
  <2> QED BY <1>5, <1>6, <2>1
<1>8. InRound = BarrierThreads \ {t}
  BY <1>2, <1>3, <1>7, FS_Subset
<1> QED BY <1>1, <1>8 DEF InRound

LEMMA SleepsKeepsRound ==
  ASSUME RoundInv, NEW t \in BarrierThreads, BarrierSleeps(t)
  PROVE  RoundInv'
<1>1. arrived[t] = last /\ t \notin InRound
  BY DEF RoundInv, RoundOf, BarrierTypes, BarrierSleeps, InRound
<1>2. BarrierTypes'
  BY DEF RoundInv, BarrierTypes, BarrierSleeps
<1>3. InRound' = InRound \cup {t}
  BY <1>1 DEF RoundInv, RoundOf, BarrierTypes, BarrierSleeps, InRound
<1>4. Cardinality(InRound') = Cardinality(InRound) + 1
  BY <1>1, <1>3, BarrierAssumption, RoundFinite, FS_AddElement
<1>5. (count = Cardinality(InRound))'
  BY <1>4 DEF RoundInv, BarrierSleeps
<1>6. ASSUME NEW u \in BarrierThreads
      PROVE  RoundOf(u)'
  <2>1. CASE u = t
    BY <2>1, <1>1 DEF RoundInv, RoundOf, BarrierTypes, BarrierSleeps
  <2>2. CASE u # t
    BY <2>2 DEF RoundInv, RoundOf, BarrierTypes, BarrierSleeps
  <2> QED BY <2>1, <2>2
<1> QED BY <1>2, <1>5, <1>6 DEF RoundInv

LEMMA TripsKeepsRound ==
  ASSUME RoundInv, NEW t \in BarrierThreads, BarrierTrips(t)
  PROVE  RoundInv'
<1>1. /\ arrived[t] = last
      /\ \A u \in BarrierThreads \ {t} : arrived[u] = last + 1
  BY OthersArrived DEF BarrierTrips
<1>2. BarrierTypes'
  BY DEF RoundInv, BarrierTypes, BarrierTrips
<1>3. \A u \in BarrierThreads : arrived'[u] = last'
  BY <1>1 DEF RoundInv, BarrierTypes, BarrierTrips
<1>4. InRound' = {}
  BY <1>2, <1>3 DEF InRound, BarrierTypes
<1>5. (count = Cardinality(InRound))'
  BY <1>4, FS_EmptySet DEF BarrierTrips
<1>6. ASSUME NEW u \in BarrierThreads
      PROVE  RoundOf(u)'
  <2>1. CASE u = t
    BY <2>1, <1>1, <1>2, <1>3 DEF RoundInv, RoundOf, BarrierTypes, BarrierTrips
  <2>2. CASE u # t
    <3>1. caller[u] # "out" /\ left[u] = last
      BY <2>2, <1>1 DEF RoundInv, RoundOf, BarrierTypes
    <3>2. caller'[u] # "out"
      BY <3>1 DEF BarrierTrips
    <3> QED BY <2>2, <3>1, <3>2, <1>2, <1>3 DEF RoundInv, RoundOf, BarrierTypes, BarrierTrips
  <2> QED BY <2>1, <2>2
<1> QED BY <1>2, <1>5, <1>6 DEF RoundInv

(* A thread that leaves has a generation that is over, so its call belongs  *)
(* to a completed round.                                                    *)
LEMMA TestsKeepsRound ==
  ASSUME RoundInv, NEW t \in BarrierThreads, BarrierTests(t) \/ BarrierSpurious(t)
  PROVE  RoundInv'
<1>1. BarrierTypes'
  BY DEF RoundInv, BarrierTypes, BarrierTests, BarrierSpurious
<1>2. InRound' = InRound /\ count' = count
  BY DEF InRound, BarrierTests, BarrierSpurious
<1>3. ASSUME NEW u \in BarrierThreads
      PROVE  RoundOf(u)'
  <2>1. CASE u = t /\ BarrierTests(t) /\ gen[t] # barrier_generation
    <3>1. arrived[t] = last /\ left[t] + 1 = last
      BY <2>1 DEF RoundInv, RoundOf, BarrierTypes, BarrierTests
    <3> QED BY <2>1, <3>1 DEF RoundInv, RoundOf, BarrierTypes, BarrierTests
  <2>2. CASE u = t /\ BarrierTests(t) /\ gen[t] = barrier_generation
    BY <2>2 DEF RoundInv, RoundOf, BarrierTypes, BarrierTests
  <2>3. CASE u = t /\ BarrierSpurious(t)
    BY <2>3 DEF RoundInv, RoundOf, BarrierTypes, BarrierSpurious
  <2>4. CASE u # t
    BY <2>4 DEF RoundInv, RoundOf, BarrierTypes, BarrierTests, BarrierSpurious
  <2> QED BY <2>1, <2>2, <2>3, <2>4
<1> QED BY <1>1, <1>2, <1>3 DEF RoundInv

(* For every finite set of threads, pj_barrier_wait keeps them in lockstep: *)
(* nobody returns from a round that somebody has not reached, and each      *)
(* round has one last thread.                                               *)
THEOREM BarrierLockstep == BarrierSpec => []Lockstep
<1>1. BarrierInit => RoundInv
  <2> SUFFICES ASSUME BarrierInit
               PROVE  RoundInv
    OBVIOUS
  <2>1. BarrierTypes
    BY DEF BarrierInit, BarrierTypes
  <2>2. InRound = {}
    BY DEF BarrierInit, InRound
  <2>3. count = Cardinality(InRound)
    BY <2>2, FS_EmptySet DEF BarrierInit
  <2>4. \A t \in BarrierThreads : RoundOf(t)
    BY DEF BarrierInit, RoundOf
  <2> QED BY <2>1, <2>3, <2>4 DEF RoundInv
<1>2. RoundInv /\ [BarrierNext]_barriervars => RoundInv'
  <2> SUFFICES ASSUME RoundInv, [BarrierNext]_barriervars
               PROVE  RoundInv'
    OBVIOUS
  <2>1. CASE UNCHANGED barriervars
    BY <2>1 DEF barriervars, RoundInv, RoundOf, BarrierTypes, InRound
  <2>2. ASSUME NEW t \in BarrierThreads,
               BarrierSleeps(t) \/ BarrierTrips(t) \/ BarrierSpurious(t) \/ BarrierTests(t)
        PROVE  RoundInv'
    BY <2>2, SleepsKeepsRound, TripsKeepsRound, TestsKeepsRound
  <2> QED BY <2>1, <2>2 DEF BarrierNext
<1>3. RoundInv => Lockstep
  <2> SUFFICES ASSUME RoundInv
               PROVE  Lockstep
    OBVIOUS
  <2>1. \A t, u \in BarrierThreads : left[t] <= arrived[u]
    BY DEF RoundInv, RoundOf, BarrierTypes
  <2>2. \A t \in BarrierThreads : last \in {arrived[t], arrived[t] - 1}
    BY DEF RoundInv, RoundOf, BarrierTypes
  <2> QED BY <2>1, <2>2 DEF Lockstep
<1> QED BY <1>1, <1>2, <1>3, PTL DEF BarrierSpec
=============================================================================
