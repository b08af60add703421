-------------------------------- MODULE Event --------------------------------
(***************************************************************************)
(* The event object (os_core_unix.c): pj_event_t built from a mutex and a   *)
(* condition variable.  Every operation holds the mutex except while it     *)
(* sleeps in pthread_cond_wait, so entering a wait, waking up, testing the  *)
(* state again and every other call are one step each.                      *)
(***************************************************************************)
EXTENDS Integers, FiniteSets

CONSTANTS EventThreads   \* the threads that wait

ASSUME EventAssumption == IsFiniteSet(EventThreads) /\ EventThreads # {}

VARIABLES auto_reset, state, threads_waiting, threads_to_release,
          waiter          \* "out", "asleep" in the condition variable, or "awake"
                          \* and about to test the state again

eventvars == <<auto_reset, state, threads_waiting, threads_to_release, waiter>>

Are(place) == {t \in EventThreads : waiter[t] = place}

(* pj_event_create: any kind of event, initially set or not. *)
EventInit == /\ auto_reset \in BOOLEAN
             /\ state \in {"EV_STATE_SET", "EV_STATE_OFF"}
             /\ threads_to_release = IF state = "EV_STATE_SET" THEN 1 ELSE 0
             /\ threads_waiting = 0
             /\ waiter = [t \in EventThreads |-> "out"]
-----------------------------------------------------------------------------
(* Only a pulsed manual event counts its releases; an automatic one goes    *)
(* off with the first, and a manual one stays set.                          *)
event_on_one_release ==
  \/ /\ auto_reset
     /\ threads_to_release' = 0
     /\ state' = "EV_STATE_OFF"
  \/ /\ ~auto_reset /\ state = "EV_STATE_SET"
     /\ UNCHANGED <<state, threads_to_release>>
  \/ /\ ~auto_reset /\ state = "EV_STATE_PULSED"
     /\ threads_to_release' = threads_to_release - 1
     /\ state' = IF threads_to_release = 1 THEN "EV_STATE_OFF" ELSE state

(* pj_event_wait up to its first test of the state. *)
WaitBegins(t) ==
  /\ waiter[t] = "out"
  /\ IF state = "EV_STATE_OFF"
     THEN /\ threads_waiting' = threads_waiting + 1
          /\ waiter' = [waiter EXCEPT ![t] = "asleep"]
          /\ UNCHANGED <<state, threads_to_release>>
     ELSE event_on_one_release /\ UNCHANGED <<threads_waiting, waiter>>
  /\ UNCHANGED auto_reset

(* pthread_cond_wait may return without a signal. *)
SpuriousWakeup(t) == /\ waiter[t] = "asleep"
                     /\ waiter' = [waiter EXCEPT ![t] = "awake"]
                     /\ UNCHANGED <<auto_reset, state, threads_waiting, threads_to_release>>

(* The next test of the state: sleep on, or leave. *)
WaitTests(t) ==
  /\ waiter[t] = "awake"
  /\ IF state = "EV_STATE_OFF"
     THEN /\ waiter' = [waiter EXCEPT ![t] = "asleep"]
          /\ UNCHANGED <<state, threads_waiting, threads_to_release>>
     ELSE /\ threads_waiting' = threads_waiting - 1
          /\ waiter' = [waiter EXCEPT ![t] = "out"]
          /\ event_on_one_release
  /\ UNCHANGED auto_reset

pj_event_trywait == /\ state # "EV_STATE_OFF"
                    /\ event_on_one_release
                    /\ UNCHANGED <<auto_reset, threads_waiting, waiter>>

(* pthread_cond_signal wakes one sleeper if there is one. *)
Signal == \/ \E t \in Are("asleep") : waiter' = [waiter EXCEPT ![t] = "awake"]
          \/ Are("asleep") = {} /\ UNCHANGED waiter

Broadcast == waiter' = [t \in EventThreads |-> IF waiter[t] = "asleep" THEN "awake" ELSE waiter[t]]

(* Mutant: one waiter is woken whatever the kind of event. *)
SetSignals == /\ threads_to_release' = 1
              /\ state' = "EV_STATE_SET"
              /\ Signal
              /\ UNCHANGED <<auto_reset, threads_waiting>>

pj_event_set == /\ threads_to_release' = 1
                /\ state' = "EV_STATE_SET"
                /\ IF auto_reset THEN Signal ELSE Broadcast
                /\ UNCHANGED <<auto_reset, threads_waiting>>

(* Nothing happens when nobody waits, even to an event that is set. *)
pj_event_pulse == /\ threads_waiting > 0
                  /\ threads_to_release' = IF auto_reset THEN 1 ELSE threads_waiting
                  /\ state' = "EV_STATE_PULSED"
                  /\ IF threads_to_release' = 1 THEN Signal ELSE Broadcast
                  /\ UNCHANGED <<auto_reset, threads_waiting>>

pj_event_reset == /\ state' = "EV_STATE_OFF"
                  /\ threads_to_release' = 0
                  /\ UNCHANGED <<auto_reset, threads_waiting, waiter>>

EventNext == \/ \E t \in EventThreads : WaitBegins(t) \/ SpuriousWakeup(t) \/ WaitTests(t)
             \/ pj_event_trywait \/ pj_event_set \/ pj_event_pulse \/ pj_event_reset

EventSpec == EventInit /\ [][EventNext]_eventvars
-----------------------------------------------------------------------------
(* No release of pj_event_set or pj_event_pulse waits for a sleeper: while  *)
(* the event is on, as many threads as it still has to release are awake    *)
(* and on their way to test the state, or nobody is left asleep; a manual   *)
(* event that is set leaves nobody asleep at all.  It does not say who gets *)
(* a release: a latecomer or a trywait may take one of a manual pulse, and  *)
(* a thread that was waiting at the pulse sleeps on, although os.h says     *)
(* that a manual pulse "will release all waiting threads".                  *)
NoReleaseStranded ==
  /\ state # "EV_STATE_OFF" /\ Are("asleep") # {}
       => Cardinality(Are("awake")) >= threads_to_release
  /\ state = "EV_STATE_SET" /\ ~auto_reset => Are("asleep") = {}

(* The counters mean what pj_event_pulse and event_on_one_release take them *)
(* for: threads_waiting is the number of threads inside pj_event_wait, and  *)
(* releases are left exactly while the event is on, so that a pulse never   *)
(* releases a thread more and its count never goes below zero.              *)
EventCountersExact ==
  /\ threads_waiting = Cardinality(EventThreads \ Are("out"))
  /\ threads_to_release \in 0 .. Cardinality(EventThreads)
  /\ state = "EV_STATE_OFF" <=> threads_to_release = 0
  /\ state = "EV_STATE_PULSED" => threads_to_release <= threads_waiting
=============================================================================
