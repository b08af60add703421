------------------------------- MODULE Barrier -------------------------------
(***************************************************************************)
(* The barrier for systems without pthread_barrier (os_core_unix.c): a      *)
(* mutex, a condition variable, a count and a generation.  As with the      *)
(* event, a step is what happens between two moments the mutex is free.     *)
(***************************************************************************)
EXTENDS Integers, FiniteSets

CONSTANTS BarrierThreads,  \* the threads that meet
          BarrierGenMod,   \* 2^32: generation is unsigned
          MaxRounds        \* bound: how often a thread calls pj_barrier_wait

ASSUME BarrierAssumption == /\ IsFiniteSet(BarrierThreads)
                            /\ BarrierThreads # {}
                            /\ BarrierGenMod \in Nat \ {0, 1}
                            /\ MaxRounds \in Nat

trip_count == Cardinality(BarrierThreads)

VARIABLES count, barrier_generation,
          caller,    \* "out", "asleep" in the condition variable, or "awake"
          gen,       \* the caller's local copy of the generation
          arrived, left, last   \* history: calls, returns, and returns with PJ_TRUE

barriervars == <<count, barrier_generation, caller, gen, arrived, left, last>>

BarrierInit == /\ count = 0 /\ barrier_generation = 0
               /\ caller = [t \in BarrierThreads |-> "out"]
               /\ gen = [t \in BarrierThreads |-> 0]
               /\ arrived = [t \in BarrierThreads |-> 0]
               /\ left = [t \in BarrierThreads |-> 0]
               /\ last = 0
-----------------------------------------------------------------------------
(* ++count < trip_count: the caller notes the generation and sleeps. *)
BarrierSleeps(t) ==
  /\ caller[t] = "out" /\ arrived[t] < MaxRounds
  /\ count + 1 < trip_count
  /\ count' = count + 1
  /\ gen' = [gen EXCEPT ![t] = barrier_generation]
  /\ caller' = [caller EXCEPT ![t] = "asleep"]
  /\ arrived' = [arrived EXCEPT ![t] = @ + 1]
  /\ UNCHANGED <<barrier_generation, left, last>>

(* Mutant: the last caller wakes nobody. *)
TripsSilently(t) ==
  /\ caller[t] = "out" /\ arrived[t] < MaxRounds
  /\ count + 1 >= trip_count
  /\ count' = 0
  /\ barrier_generation' = (barrier_generation + 1) % BarrierGenMod
  /\ arrived' = [arrived EXCEPT ![t] = @ + 1]
  /\ left' = [left EXCEPT ![t] = @ + 1]
  /\ last' = last + 1
  /\ UNCHANGED <<caller, gen>>

(* The last caller starts the next generation, wakes all and returns. *)
BarrierTrips(t) ==
  /\ caller[t] = "out" /\ arrived[t] < MaxRounds
  /\ count + 1 >= trip_count
  /\ count' = 0
  /\ barrier_generation' = (barrier_generation + 1) % BarrierGenMod
  /\ caller' = [u \in BarrierThreads |-> IF caller[u] = "asleep" THEN "awake" ELSE caller[u]]
  /\ arrived' = [arrived EXCEPT ![t] = @ + 1]
  /\ left' = [left EXCEPT ![t] = @ + 1]
  /\ last' = last + 1
  /\ UNCHANGED gen

(* pthread_cond_wait may return without a broadcast. *)
BarrierSpurious(t) == /\ caller[t] = "asleep"
                      /\ caller' = [caller EXCEPT ![t] = "awake"]
                      /\ UNCHANGED <<count, barrier_generation, gen, arrived, left, last>>

(* Mutant: any wake-up ends the wait. *)
LeavesOnWakeup(t) == /\ caller[t] = "awake"
                     /\ caller' = [caller EXCEPT ![t] = "out"]
                     /\ left' = [left EXCEPT ![t] = @ + 1]
                     /\ UNCHANGED <<count, barrier_generation, gen, arrived, last>>

(* gen == barrier->generation: sleep on; else return PJ_FALSE. *)
BarrierTests(t) ==
  /\ caller[t] = "awake"
  /\ IF gen[t] = barrier_generation
     THEN caller' = [caller EXCEPT ![t] = "asleep"] /\ UNCHANGED left
     ELSE /\ caller' = [caller EXCEPT ![t] = "out"]
          /\ left' = [left EXCEPT ![t] = @ + 1]
  /\ UNCHANGED <<count, barrier_generation, gen, arrived, last>>

BarrierNext == \E t \in BarrierThreads :
                  \/ BarrierSleeps(t) \/ BarrierTrips(t)
                  \/ BarrierSpurious(t) \/ BarrierTests(t)

BarrierSpec == BarrierInit /\ [][BarrierNext]_barriervars

(* A woken thread gets the mutex and tests the generation. *)
BarrierFairness == \A t \in BarrierThreads : WF_barriervars(BarrierTests(t))
-----------------------------------------------------------------------------
(* pj_barrier_wait keeps the threads in lockstep: none returns from its     *)
(* n-th call before every other thread made its n-th call, through spurious *)
(* wake-ups, and while a fast thread is already waiting in the next round   *)
(* before a slow one has left this one; one thread of a round is told it is *)
(* the last.                                                                *)
Lockstep == /\ \A t, u \in BarrierThreads : left[t] <= arrived[u]
            /\ \A t \in BarrierThreads : last \in {arrived[t], arrived[t] - 1}

(* A round that every thread reached is left by every thread, however late  *)
(* a slow one looks at the generation.                                      *)
RoundsEnd == \A t \in BarrierThreads :
               (caller[t] # "out" /\ gen[t] # barrier_generation) ~> (caller[t] = "out")
=============================================================================
