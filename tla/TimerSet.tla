----------------------------- MODULE TimerSet ------------------------------
(***************************************************************************)
(* What a timer heap promises, without a heap: a set of running entries,    *)
(* each with an expiry time and perhaps a reference on a group lock.  A      *)
(* poll takes one earliest expired entry out at a time and calls it back    *)
(* with the heap unlocked; cancelling takes an entry out before that.       *)
(***************************************************************************)
EXTENDS Integers, FiniteSets

CONSTANTS Entries, Threads,
          Nil,
          MaxTime    \* bound of the clock

Times == 0 .. MaxTime
Timer == [time : Times, grp : BOOLEAN]

(* What the proofs assume of the constants. *)
FiniteTimers == /\ IsFiniteSet(Entries) /\ IsFiniteSet(Threads)
                /\ MaxTime \in Nat
                /\ Nil \notin Timer /\ Nil \notin [entry : Entries, grp : BOOLEAN]

VARIABLES now,
          running,   \* running[e]: its expiry and whether it holds a reference
          firing,    \* firing[t]: the entry whose callback t is in
          ref_cnt    \* references on the group lock, the owner's included

vars == <<now, running, firing, ref_cnt>>

Running == {e \in Entries : running[e] # Nil}

Init == /\ now = 0
        /\ running = [e \in Entries |-> Nil]
        /\ firing = [t \in Threads |-> Nil]
        /\ ref_cnt = 1

Tick == /\ now < MaxTime
        /\ now' = now + 1
        /\ UNCHANGED <<running, firing, ref_cnt>>

(* Only an entry that is not running is taken. *)
Schedule(e, time, grp) ==
  /\ running[e] = Nil
  /\ ref_cnt' = ref_cnt + (IF grp THEN 1 ELSE 0)
  /\ running' = [running EXCEPT ![e] = [time |-> time, grp |-> grp]]
  /\ UNCHANGED <<now, firing>>

Cancel(e) ==
  /\ running[e] # Nil
  /\ running' = [running EXCEPT ![e] = Nil]
  /\ ref_cnt' = ref_cnt - (IF running[e].grp THEN 1 ELSE 0)
  /\ UNCHANGED <<now, firing>>

(* The earliest entry, once expired, moves to the polling thread and takes  *)
(* its reference along.                                                     *)
Fire(t, e) ==
  /\ firing[t] = Nil /\ running[e] # Nil
  /\ running[e].time <= now
  /\ \A f \in Running : running[e].time <= running[f].time
  /\ running' = [running EXCEPT ![e] = Nil]
  /\ firing' = [firing EXCEPT ![t] = [entry |-> e, grp |-> running[e].grp]]
  /\ UNCHANGED <<now, ref_cnt>>

(* The callback returned: its reference is dropped. *)
Finish(t) ==
  /\ firing[t] # Nil
  /\ ref_cnt' = ref_cnt - (IF firing[t].grp THEN 1 ELSE 0)
  /\ firing' = [firing EXCEPT ![t] = Nil]
  /\ UNCHANGED <<now, running>>

Next == \/ Tick
        \/ \E t \in Threads : Finish(t) \/ \E e \in Entries : Fire(t, e)
        \/ \E e \in Entries : \/ Cancel(e)
                              \/ \E time \in Times, grp \in BOOLEAN : Schedule(e, time, grp)

Spec == Init /\ [][Next]_vars
-----------------------------------------------------------------------------
(* Every variable stays in its range. *)
TypeOK == /\ now \in Times
          /\ running \in [Entries -> Timer \cup {Nil}]
          /\ firing \in [Threads -> [entry : Entries, grp : BOOLEAN] \cup {Nil}]
          /\ ref_cnt \in Int

Holding == {e \in Entries : running[e] # Nil /\ running[e].grp}
FiringWithRef == {t \in Threads : firing[t] # Nil /\ firing[t].grp}

(* The group lock's count is the owner's reference plus one for every       *)
(* running entry and every callback in progress that was scheduled with it: *)
(* no schedule, cancel or expiry leaks a reference or drops one twice.      *)
RefPerTimer == ref_cnt = 1 + Cardinality(Holding) + Cardinality(FiringWithRef)
=============================================================================
